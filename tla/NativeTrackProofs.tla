--------------------------- MODULE NativeTrackProofs ---------------------------
(***************************************************************************)
(* What moqt-pub writes, for any input, any room in the channel and any    *)
(* faults: frames in order, groups that begin with keyframes, and a count  *)
(* that is right.                                                          *)
(*                                                                         *)
(* What moqt-sub puts out: what moqt-pub wrote, group after group; and on  *)
(* a calm track all that was copied to it.                                 *)
(***************************************************************************)
EXTENDS NativeTrackProperties, FiniteSetTheorems, SequenceLemmas

----------------------------------------------------------------------------
(* The inductive invariant *)

Early  == main \in {"connect", "announce", "await", "accept"}
Live   == main \in {"recv", "open", "write"}
InHand == main \in {"open", "write"}        \* in pipe mode: a frame is taken and not written

\* The channel and the thread go on where the main task is.
PipeInv ==
    scenario.mode = "pipe" =>
        /\ main # "sleep"
        /\ Early => stdin = "off" /\ input = 0
        /\ frame + Len(channel) <= input
        /\ \A i \in 1..Len(channel) : channel[i] = frame + i
        /\ stdin = "send" /\ Live => input = frame + Len(channel) + 1
        /\ stdin # "send" /\ Live => input = frame + Len(channel)
        /\ keys \subseteq 1..input
        /\ InHand => frame > 0
        /\ groupId <= frame /\ (frame > 0 => groupId < frame)
        /\ Live => streamCount = groupId

\* The demo counts its objects.
DemoInv ==
    scenario.mode = "demo" =>
        /\ stdin = "off" /\ channel = << >> /\ main \notin {"recv", "linger"}
        /\ main \in {"open", "write", "sleep"} => groupId < DemoGroups
        /\ main = "open" => frame = groupId * DemoObjects
        /\ main = "write" => /\ frame = groupId * DemoObjects + Len(Objs(groupId))
                             /\ Len(Objs(groupId)) < DemoObjects
        /\ main = "sleep" => /\ frame = groupId * DemoObjects + DemoObjects
                             /\ Objs(groupId) # << >> /\ stream[groupId].st = "fin"
                             /\ currentGroup = None

\* Groups are opened one after the other, and only the last may be open.
StreamInv ==
    /\ Early => frame = 0 /\ ~groupStarted /\ streamCount = 0
    /\ ~groupStarted => groupId = 0 /\ currentGroup = None /\ stream[0] = NoStream
    /\ \A g \in Group : groupId < g => stream[g] = NoStream
    /\ \A g \in Group : g < groupId => stream[g].st = "fin" /\ Objs(g) # << >>
    /\ currentGroup # None => currentGroup = groupId /\ stream[groupId].st = "open"
    /\ main = "open" => groupId \in Group /\ currentGroup = None /\ stream[groupId] = NoStream
    /\ main = "write" => currentGroup = groupId
    /\ main = "recv" => \/ ~groupStarted /\ frame = 0
                        \/ groupStarted /\ currentGroup = groupId /\ Objs(groupId) # << >>

\* The number of the last object written.
LastWritten == IF scenario.mode = "pipe" /\ InHand THEN frame - 1 ELSE frame

OrderInv ==
    /\ FramesInOrder
    /\ Live \/ main = "sleep" =>
           IF Objs(groupId) # << >> THEN Last(Objs(groupId)) = LastWritten
           ELSE IF groupId = 0 THEN LastWritten = 0
           ELSE Last(Objs(groupId - 1)) = LastWritten

KeyInv ==
    /\ GroupsAtKeyframes
    /\ scenario.mode = "pipe" =>
           /\ \A g \in Group : \A i \in 1..Len(Objs(g)) : Objs(g)[i] <= input
           /\ InHand /\ Objs(groupId) = << >> => groupId = 0 \/ frame \in keys
           /\ InHand /\ Objs(groupId) # << >> => frame \notin keys

\* All streams are finished and counted.
Closed ==
    /\ Announced = Cardinality(Opened)
    /\ \A g \in Opened : stream[g].st = "fin"

AnswersOK == answers \in [Request -> Seq(MessageTypes)]

\* Message m is written and not read, on some request's stream.
OnTheWay(m) == \E r \in Request : \E i \in 1..Len(answers[r]) : answers[r][i] = m

DoneInv ==
    /\ main \in {"done", "linger"} => Closed
    /\ \A m \in MessageTypes :
           m.type = "DONE" /\ OnTheWay(m) =>
               m.streams = Announced /\ Closed /\ main \in {"linger", "returned", "exited"}

PublisherInv ==
    PublisherTypeOK /\ PipeInv /\ DemoInv /\ StreamInv /\ OrderInv /\ KeyInv

----------------------------------------------------------------------------
(* Lemmas about what the publisher is built from *)

LEMMA AppendNext ==
    ASSUME NEW s \in Seq(Frame), NEW x \in Frame, Consecutive(s), s # << >> => x = Last(s) + 1
    PROVE  /\ Consecutive(Append(s, x)) /\ Last(Append(s, x)) = x
           /\ Append(s, x) # << >>
           /\ Head(Append(s, x)) = IF s = << >> THEN x ELSE Head(s)
<1>. DEFINE t == Append(s, x)
<1>1. /\ t \in Seq(Frame) /\ Len(t) = Len(s) + 1 /\ t[Len(s) + 1] = x /\ t # << >>
      /\ \A i \in 1..Len(s) : t[i] = s[i]
  <2>1. t \in Seq(Frame) /\ Len(t) = Len(s) + 1
    OBVIOUS
  <2>2. t[Len(s) + 1] = x
    OBVIOUS
  <2>3. ASSUME NEW i \in 1..Len(s) PROVE t[i] = s[i]
    OBVIOUS
  <2>4. t # << >>
    BY <2>1
  <2>. QED BY <2>1, <2>2, <2>3, <2>4
<1>2. Last(t) = x /\ Head(t) = t[1]
  BY <1>1 DEF Last
<1>3. Head(t) = IF s = << >> THEN x ELSE Head(s)
  BY <1>1, <1>2
<1>4. ASSUME NEW i \in 1..(Len(t) - 1) PROVE t[i + 1] = t[i] + 1
  <2>1. CASE i < Len(s)
    BY <2>1, <1>1 DEF Consecutive
  <2>2. CASE i = Len(s)
    BY <2>2, <1>1 DEF Last
  <2>. QED BY <2>1, <2>2, <1>1
<1>. QED BY <1>1, <1>2, <1>3, <1>4 DEF Consecutive

\* The demo's objects fit into the bound on frames, and so do its groups.
LEMMA DemoFits ==
    ASSUME NEW g \in Nat, g < DemoGroups
    PROVE  g \in Group /\ g * DemoObjects + DemoObjects <= MaxFrames
<1>1. DemoGroups <= DemoGroups * DemoObjects
  BY PublisherAssumption
<1>2. (g + 1) * DemoObjects <= DemoGroups * DemoObjects
  BY PublisherAssumption
<1>3. (g + 1) * DemoObjects = g * DemoObjects + DemoObjects
  BY PublisherAssumption
<1>. QED BY <1>1, <1>2, <1>3, PublisherAssumption DEF Group

LEMMA PublisherStarts == Init => PublisherInv
<1>. SUFFICES ASSUME Init PROVE PublisherInv
  OBVIOUS
<1>. /\ stdin = "off" /\ input = 0 /\ keys = {} /\ channel = << >> /\ main = "connect"
     /\ request = None /\ frame = 0 /\ groupId = 0 /\ currentGroup = None
     /\ groupStarted = FALSE /\ streamCount = 0 /\ stream = [g \in Group |-> NoStream]
     /\ scenario \in Scenario
  BY ScenarioAssumption DEF Init, PublisherInit
<1>. 0 \in Group
  BY PublisherAssumption DEF Group
<1>1. PublisherTypeOK
  BY PublisherAssumption DEF PublisherTypeOK, StdinState, MainState, Written, StreamState, NoStream, Frame
<1>2. PipeInv /\ DemoInv /\ StreamInv
  BY DEF PipeInv, DemoInv, StreamInv, Early, Live, InHand, NoStream
<1>3. OrderInv /\ KeyInv
  BY DEF OrderInv, KeyInv, FramesInOrder, GroupsAtKeyframes, Consecutive, Objs, Live, InHand, NoStream
<1>. QED BY <1>1, <1>2, <1>3 DEF PublisherInv

\* What other programs and tasks do.
LEMMA PublisherUnmoved ==
    ASSUME PublisherInv, UNCHANGED publisher
    PROVE  PublisherInv'
<1>. /\ UNCHANGED <<scenario, stdin, input, keys, channel, main, request, frame, groupId>>
     /\ UNCHANGED <<currentGroup, groupStarted, streamCount, stream>>
  BY DEF publisher, threadVars, loopVars
<1>1. (PublisherTypeOK /\ PipeInv /\ DemoInv /\ StreamInv)'
  BY DEF PublisherInv, PublisherTypeOK, PipeInv, DemoInv, StreamInv, Early, Live, InHand, Objs
<1>2. (OrderInv /\ KeyInv)'
  BY DEF PublisherInv, OrderInv, KeyInv, FramesInOrder, GroupsAtKeyframes, Consecutive,
         LastWritten, Live, InHand, Objs
<1>. QED BY <1>1, <1>2 DEF PublisherInv

\* The main task goes on before the first frame, or after the last.
LEMMA MainMoves ==
    ASSUME PublisherInv,
           UNCHANGED <<scenario, threadVars, channel, loopVars>>,
           request' \in Upstream \cup {None},
           \/ Early /\ Early'
           \/ main' \in {"linger", "returned", "exited"} /\ (main' = "linger" => scenario.mode = "pipe")
    PROVE  PublisherInv'
<1>. /\ UNCHANGED <<scenario, stdin, input, keys, channel, frame, groupId>>
     /\ UNCHANGED <<currentGroup, groupStarted, streamCount, stream>>
  BY DEF threadVars, loopVars
<1>. main' \in MainState /\ main' \notin {"recv", "open", "write", "sleep"}
  BY DEF MainState, Early
<1>1. PublisherTypeOK'
  BY DEF PublisherInv, PublisherTypeOK
<1>2. PipeInv' /\ StreamInv'
  BY DEF PublisherInv, PipeInv, StreamInv, Early, Live, InHand, Objs
<1>3. DemoInv'
  BY DEF PublisherInv, DemoInv, Early, Objs, PublisherTypeOK, Scenario
<1>4. OrderInv' /\ KeyInv'
  BY DEF PublisherInv, OrderInv, KeyInv, FramesInOrder, GroupsAtKeyframes, Consecutive,
         LastWritten, Live, InHand, Objs
<1>. QED BY <1>1, <1>2, <1>3, <1>4 DEF PublisherInv

\* SUBSCRIBE_OK starts the thread, or the demo.
LEMMA AcceptKeeps ==
    ASSUME PublisherInv, Accept
    PROVE  PublisherInv'
<1>. /\ main = "accept" /\ UNCHANGED <<scenario, input, keys, channel, request, frame, groupId>>
     /\ UNCHANGED <<currentGroup, groupStarted, streamCount, stream>>
     /\ scenario.mode = "pipe" => main' = "recv" /\ stdin' = "read"
     /\ scenario.mode # "pipe" => main' = "open" /\ stdin' = stdin
  BY DEF Accept, loopVars
<1>. scenario.mode \in {"pipe", "demo"}
  BY DEF PublisherInv, PublisherTypeOK, Scenario
<1>0. 0 \in Group /\ 0 < DemoGroups /\ 0 * DemoObjects = 0
  BY PublisherAssumption DEF Group
<1>1. PublisherTypeOK'
  BY DEF PublisherInv, PublisherTypeOK, MainState, StdinState
<1>2. groupId = 0 /\ frame = 0 /\ stream[0] = NoStream /\ ~groupStarted /\ currentGroup = None
  BY DEF PublisherInv, StreamInv, Early
<1>3. channel = << >>
  BY <1>2 DEF PublisherInv, PipeInv, DemoInv, PublisherTypeOK, Early
<1>4. PipeInv' /\ StreamInv'
  BY <1>0, <1>2, <1>3 DEF PublisherInv, PipeInv, StreamInv, Early, Live, InHand, Objs
<1>5. DemoInv'
  BY <1>0, <1>2, <1>3 DEF PublisherInv, DemoInv, Objs
<1>6. OrderInv' /\ KeyInv'
  BY <1>2 DEF PublisherInv, OrderInv, KeyInv, FramesInOrder, GroupsAtKeyframes, Consecutive,
              LastWritten, Live, InHand, Objs, NoStream
<1>. QED BY <1>1, <1>4, <1>5, <1>6 DEF PublisherInv

\* The thread reads and hands over; the main task is where it was.
LEMMA ThreadKeeps ==
    ASSUME PublisherInv, StdinThread
    PROVE  PublisherInv'
<1>. UNCHANGED <<scenario, main, request, frame, groupId, currentGroup, groupStarted,
                 streamCount, stream>>
  BY DEF StdinThread, StdinEnds, ReadFrame, BlockingSend, StdinStep, loopVars
<1>. /\ input \in Nat /\ frame \in Nat /\ channel \in Seq(Frame) /\ scenario \in Scenario
     /\ scenario.mode \in {"pipe", "demo"}
  BY DEF PublisherInv, PublisherTypeOK, Scenario
<1>. stdin # "off" /\ scenario.mode = "pipe" /\ ~Early
  BY DEF StdinThread, StdinEnds, ReadFrame, BlockingSend, PublisherInv, DemoInv, PipeInv
<1>1. DemoInv' /\ StreamInv' /\ OrderInv'
  BY DEF PublisherInv, DemoInv, StreamInv, OrderInv, FramesInOrder, Consecutive, LastWritten,
         Early, Live, InHand, Objs
<1>2. CASE StdinEnds
  <2>. stdin = "read" /\ stdin' = "over" /\ UNCHANGED <<input, keys, channel>>
    BY <1>2 DEF StdinEnds, StdinStep
  <2>1. PublisherTypeOK' /\ PipeInv' /\ KeyInv'
    BY DEF PublisherInv, PublisherTypeOK, StdinState, PipeInv, KeyInv, GroupsAtKeyframes,
           Early, Live, InHand, Objs
  <2>. QED BY <1>1, <2>1 DEF PublisherInv
<1>3. CASE ReadFrame
  <2>. /\ stdin = "read" /\ stdin' = "send" /\ UNCHANGED channel
       /\ input < scenario.frames /\ input' = input + 1
       /\ keys' = keys \cup {input'} \/ keys' = keys
    BY <1>3 DEF ReadFrame, StdinStep
  <2>1. input' \in Frame /\ input' \in 0..MaxFrames
    <3>1. scenario.frames \in 0..MaxFrames
      BY DEF Scenario
    <3>. QED BY <3>1, PublisherAssumption DEF Frame
  <2>2. PublisherTypeOK'
    BY <2>1 DEF PublisherInv, PublisherTypeOK, StdinState
  <2>3. PipeInv'
    BY DEF PublisherInv, PipeInv, Early, Live, InHand
  <2>4. \A g \in Group : \A i \in 1..Len(Objs(g)) :
            /\ Objs(g)[i] \in keys' <=> Objs(g)[i] \in keys
            /\ Objs(g)[i] <= input'
    <3>. SUFFICES ASSUME NEW g \in Group, NEW i \in 1..Len(Objs(g))
                  PROVE  /\ Objs(g)[i] \in keys' <=> Objs(g)[i] \in keys
                         /\ Objs(g)[i] <= input'
      OBVIOUS
    <3>1. Objs(g) \in Seq(Frame)
      BY DEF PublisherInv, PublisherTypeOK, Written, Objs
    <3>2. Objs(g)[i] \in Frame
      BY <3>1
    <3>3. Objs(g)[i] <= input
      BY DEF PublisherInv, KeyInv
    <3>. QED BY <3>2, <3>3 DEF Frame
  <2>5. InHand => (frame \in keys' <=> frame \in keys)
    BY DEF PublisherInv, PipeInv
  <2>6. GroupsAtKeyframes'
    BY <2>4 DEF PublisherInv, KeyInv, GroupsAtKeyframes, Objs
  <2>7. KeyInv'
    BY <2>4, <2>5, <2>6 DEF PublisherInv, KeyInv, InHand, Objs
  <2>. QED BY <1>1, <2>2, <2>3, <2>7 DEF PublisherInv
<1>4. CASE BlockingSend
  <2>. stdin = "send" /\ UNCHANGED <<input, keys>>
    BY <1>4 DEF BlockingSend
  <2>1. KeyInv'
    BY DEF PublisherInv, KeyInv, GroupsAtKeyframes, InHand, Objs
  <2>2. CASE ReceiverGone /\ stdin' = "over" /\ UNCHANGED channel
    BY <1>1, <2>1, <2>2 DEF PublisherInv, PublisherTypeOK, StdinState, PipeInv, ReceiverGone,
                            Early, Live, InHand
  <2>3. CASE ~ReceiverGone /\ channel' = Append(channel, input) /\ stdin' = "read"
    <3>1. Live /\ input = frame + Len(channel) + 1
      BY <2>3 DEF ReceiverGone, Live, PublisherInv, PipeInv
    <3>2. input \in Frame
      BY <3>1 DEF PublisherInv, PublisherTypeOK, Frame
    <3>3. channel' \in Seq(Frame) /\ Len(channel') = Len(channel) + 1
      BY <3>2, <2>3
    <3>4. ASSUME NEW i \in 1..Len(channel') PROVE channel'[i] = frame + i
      <4>1. CASE i <= Len(channel)
        <5>1. channel'[i] = channel[i]
          BY <4>1, <2>3, <3>2
        <5>. QED BY <5>1, <4>1 DEF PublisherInv, PipeInv
      <4>2. CASE i = Len(channel) + 1
        BY <4>2, <2>3, <3>1, <3>2
      <4>. QED BY <4>1, <4>2, <3>3
    <3>5. PublisherTypeOK' /\ PipeInv'
      BY <3>1, <3>3, <3>4, <2>3 DEF PublisherInv, PublisherTypeOK, StdinState, PipeInv, Early, Live, InHand
    <3>. QED BY <3>5, <1>1, <2>1 DEF PublisherInv
  <2>. QED BY <1>4, <2>2, <2>3 DEF BlockingSend, StdinStep
<1>. QED BY <1>2, <1>3, <1>4 DEF StdinThread

\* A stream that is opened or finished has the objects it had.
LEMMA OrderKept ==
    ASSUME FramesInOrder, \A g \in Group : Objs(g)' = Objs(g)
    PROVE  FramesInOrder'
BY DEF FramesInOrder, Consecutive

LEMMA KeysKept ==
    ASSUME GroupsAtKeyframes, UNCHANGED <<scenario, keys>>, \A g \in Group : Objs(g)' = Objs(g)
    PROVE  GroupsAtKeyframes'
BY DEF GroupsAtKeyframes

\* A frame is taken: the channel moves up, and a keyframe closes the group.
LEMMA RecvKeeps ==
    ASSUME PublisherInv, RecvFrame
    PROVE  PublisherInv'
<1>. /\ main = "recv" /\ channel # << >>
     /\ frame' = Head(channel) /\ channel' = Tail(channel)
     /\ UNCHANGED <<scenario, stdin, input, keys, request, groupStarted>>
     /\ main' = IF currentGroup' = None THEN "open" ELSE "write"
  BY DEF RecvFrame, threadVars
<1>. scenario.mode = "pipe"
  BY DEF PublisherInv, DemoInv, PublisherTypeOK, Scenario
<1>. /\ input \in 0..MaxFrames /\ frame \in 0..MaxFrames /\ channel \in Seq(Frame)
     /\ groupId \in Nat /\ streamCount \in Nat /\ stream \in [Group -> Written]
     /\ MaxFrames \in Nat \ {0}
  BY PublisherAssumption DEF PublisherInv, PublisherTypeOK
<1>1. frame' = frame + 1 /\ frame' + Len(channel') = frame + Len(channel)
  BY DEF PublisherInv, PipeInv
<1>2. channel' \in Seq(Frame) /\ Len(channel') = Len(channel) - 1
  OBVIOUS
<1>3. ASSUME NEW i \in 1..Len(channel') PROVE channel'[i] = frame' + i
  <2>1. channel'[i] = channel[i + 1] /\ i + 1 \in 1..Len(channel)
    BY <1>2
  <2>2. channel[i + 1] = frame + (i + 1)
    BY <2>1 DEF PublisherInv, PipeInv
  <2>3. i \in Nat /\ frame \in Nat /\ frame' = frame + 1
    BY <1>1, <1>2
  <2>4. frame + (i + 1) = frame' + i
    BY <2>3
  <2>. QED BY <2>1, <2>2, <2>4
<1>4. frame' \in 0..MaxFrames /\ frame' <= input
  BY <1>1, <1>2 DEF PublisherInv, PipeInv
<1>5. \/ frame = 0 /\ ~groupStarted /\ groupId = 0 /\ currentGroup = None /\ stream[0] = NoStream
      \/ /\ groupStarted /\ currentGroup = groupId /\ Objs(groupId) # << >>
         /\ stream[groupId].st = "open" /\ groupId \in Group /\ currentGroup # None
  <2>1. currentGroup \in Group \cup {None}
    BY DEF PublisherInv, PublisherTypeOK
  <2>2. groupId # None
    BY NoneAssumption
  <2>. QED BY <2>1, <2>2 DEF PublisherInv, StreamInv
<1>6. groupStarted => frame > 0 /\ Last(Objs(groupId)) = frame
  <2>. SUFFICES ASSUME groupStarted PROVE frame > 0 /\ Last(Objs(groupId)) = frame
    OBVIOUS
  <2>1. Last(Objs(groupId)) = frame
    BY <1>5 DEF PublisherInv, OrderInv, LastWritten, Live, InHand
  <2>2. Objs(groupId) \in Seq(Frame) /\ Objs(groupId) # << >>
    BY <1>5 DEF Written, Objs
  <2>3. Last(Objs(groupId)) \in Frame
    BY <2>2 DEF Last
  <2>. QED BY <2>1, <2>3 DEF Frame
<1>7. CASE EndsGroup(frame')
  <2>. /\ frame' \in keys /\ groupStarted
       /\ stream' = [stream EXCEPT ![groupId].st = "fin"] /\ currentGroup' = None
       /\ streamCount' = streamCount + 1 /\ groupId' = groupId + 1 /\ main' = "open"
    BY <1>7, <1>5 DEF RecvFrame, EndsGroup, FinishCurrent
  <2>1. groupId < frame /\ groupId \in Group /\ groupId' \in Group /\ groupId' # 0
    <3>1. groupId < frame
      BY <1>6 DEF PublisherInv, PipeInv
    <3>2. groupId \in Nat /\ frame \in Nat /\ frame + 1 <= MaxFrames /\ MaxFrames \in Nat
      BY <1>1, <1>4
    <3>3. groupId \in 0..(MaxFrames - 1) /\ groupId + 1 \in 0..(MaxFrames - 1) /\ groupId + 1 # 0
      BY <3>1, <3>2
    <3>. QED BY <3>1, <3>3 DEF Group
  <2>2. \A g \in Group : Objs(g)' = Objs(g) /\ (g # groupId => stream'[g] = stream[g])
    BY DEF Objs, Written
  <2>3. stream' \in [Group -> Written] /\ stream'[groupId].st = "fin"
    BY <1>5 DEF Written, StreamState
  <2>4. stream'[groupId'] = NoStream /\ stream'[groupId'].objs = << >>
    <3>1. stream[groupId'] = NoStream
      BY <2>1 DEF PublisherInv, StreamInv
    <3>. QED BY <3>1, <2>1, <2>2 DEF NoStream
  <2>5. PublisherTypeOK'
    BY <2>3, <1>2, <1>4 DEF PublisherInv, PublisherTypeOK, MainState
  <2>6. PipeInv' /\ DemoInv'
    BY <1>1, <1>2, <1>3, <1>4, <2>1 DEF PublisherInv, PipeInv, DemoInv, Early, Live, InHand
  <2>7. StreamInv'
    <3>1. ASSUME NEW g \in Group, groupId' < g PROVE stream'[g] = NoStream
      BY <3>1, <2>2 DEF PublisherInv, StreamInv, Group
    <3>2. ASSUME NEW g \in Group, g < groupId' PROVE stream'[g].st = "fin" /\ stream'[g].objs # << >>
      <4>1. CASE g = groupId
        BY <4>1, <2>2, <2>3, <1>5 DEF Objs
      <4>2. CASE g < groupId
        BY <4>2, <2>2 DEF PublisherInv, StreamInv, Objs
      <4>. QED BY <4>1, <4>2, <3>2 DEF Group
    <3>. QED BY <3>1, <3>2, <2>1, <2>4 DEF StreamInv, Early, Objs
  <2>8. OrderInv'
    <3>1. FramesInOrder'
      BY <2>2, OrderKept DEF PublisherInv, OrderInv
    <3>2. groupId' - 1 = groupId
      OBVIOUS
    <3>3. stream'[groupId].objs = stream[groupId].objs
      BY <2>1, <2>2 DEF Objs
    <3>4. Last(stream'[groupId' - 1].objs) = frame
      BY <3>2, <3>3, <1>6 DEF Objs
    <3>5. LastWritten' = frame
      <4>1. scenario'.mode = "pipe" /\ InHand'
        BY DEF InHand
      <4>2. LastWritten' = frame' - 1
        BY <4>1, Zenon DEF LastWritten
      <4>3. frame \in Nat /\ frame' = frame + 1
        BY <1>1
      <4>. QED BY <4>2, <4>3
    <3>. QED BY <3>1, <3>4, <3>5, <2>1, <2>4 DEF OrderInv, Objs
  <2>9. KeyInv'
    <3>1. GroupsAtKeyframes'
      BY <2>2, KeysKept DEF PublisherInv, KeyInv
    <3>2. \A g \in Group : \A i \in 1..Len(stream'[g].objs) : stream'[g].objs[i] <= input
      BY <2>2 DEF PublisherInv, KeyInv, Objs
    <3>. QED BY <3>1, <3>2, <2>4 DEF KeyInv, InHand, Objs
  <2>. QED BY <2>5, <2>6, <2>7, <2>8, <2>9 DEF PublisherInv
<1>8. CASE ~EndsGroup(frame')
  <2>. UNCHANGED <<stream, currentGroup, streamCount, groupId>>
    BY <1>8 DEF RecvFrame
  <2>1. 0 \in Group
    BY DEF Group
  <2>2. /\ main' \in {"open", "write"}
        /\ main' = "open" <=> ~groupStarted
        /\ groupStarted => frame' \notin keys
    BY <1>8, <1>5 DEF EndsGroup
  <2>3. PublisherTypeOK'
    BY <1>2, <1>4, <2>2 DEF PublisherInv, PublisherTypeOK, MainState
  <2>4. PipeInv' /\ DemoInv'
    BY <1>1, <1>2, <1>3, <1>4, <2>2 DEF PublisherInv, PipeInv, DemoInv, Early, Live, InHand
  <2>5. StreamInv'
    BY <1>5, <2>1, <2>2 DEF PublisherInv, StreamInv, Early, Objs
  <2>6. OrderInv'
    BY <1>1, <1>5, <2>2
       DEF PublisherInv, OrderInv, FramesInOrder, LastWritten, Live, InHand, Objs, NoStream
  <2>7. KeyInv'
    BY <1>5, <2>2 DEF PublisherInv, KeyInv, GroupsAtKeyframes, InHand, Objs, NoStream
  <2>. QED BY <2>3, <2>4, <2>5, <2>6, <2>7 DEF PublisherInv
<1>. QED BY <1>7, <1>8

\* A stream is opened: nothing has been written to it.
LEMMA OpenKeeps ==
    ASSUME PublisherInv, OpenSubgroup
    PROVE  PublisherInv'
<1>. /\ main = "open" /\ main' = "write"
     /\ stream' = [stream EXCEPT ![groupId].st = "open"]
     /\ currentGroup' = groupId /\ groupStarted' = TRUE
     /\ UNCHANGED <<scenario, stdin, input, keys, channel, request, frame, groupId, streamCount>>
  BY DEF OpenSubgroup, threadVars
<1>1. /\ groupId \in Group /\ currentGroup = None /\ stream[groupId] = NoStream
      /\ stream \in [Group -> Written] /\ None \notin Nat /\ groupId \in Nat
  BY NoneAssumption DEF PublisherInv, StreamInv, PublisherTypeOK, Group
<1>2. /\ stream'[groupId] = [st |-> "open", objs |-> << >>]
      /\ \A g \in Group : Objs(g)' = Objs(g) /\ (g # groupId => stream'[g] = stream[g])
  BY <1>1 DEF NoStream, Objs, Written
<1>3. PublisherTypeOK'
  <2>1. stream' \in [Group -> Written]
    BY <1>1, <1>2 DEF Written, StreamState
  <2>. QED BY <1>1, <2>1 DEF PublisherInv, PublisherTypeOK, MainState
<1>4. PipeInv'
  BY DEF PublisherInv, PipeInv, Early, Live, InHand
<1>5. DemoInv'
  <2>1. stream'[groupId].objs = << >>
    BY <1>2
  <2>2. 0 < DemoObjects /\ \A n \in Nat : n * DemoObjects + 0 = n * DemoObjects
    BY PublisherAssumption
  <2>. QED BY <1>1, <2>1, <2>2 DEF PublisherInv, DemoInv, Objs
<1>6. StreamInv'
  BY <1>1, <1>2 DEF PublisherInv, StreamInv, Early, Objs, Group
<1>7. OrderInv'
  <2>1. FramesInOrder'
    BY <1>2, OrderKept DEF PublisherInv, OrderInv
  <2>2. LastWritten' = LastWritten
    BY DEF LastWritten, InHand
  <2>3. stream[groupId].objs = << >> /\ stream'[groupId].objs = << >>
    BY <1>1, <1>2 DEF NoStream
  <2>4. groupId # 0 => stream'[groupId - 1].objs = stream[groupId - 1].objs
    BY <1>1, <1>2 DEF Group, Objs
  <2>. QED BY <2>1, <2>2, <2>3, <2>4 DEF PublisherInv, OrderInv, Live, Objs
<1>8. KeyInv'
  <2>1. GroupsAtKeyframes'
    BY <1>2, KeysKept DEF PublisherInv, KeyInv
  <2>2. \A g \in Group : stream'[g].objs = stream[g].objs
    BY <1>2 DEF Objs
  <2>. QED BY <2>1, <2>2, <1>1 DEF PublisherInv, KeyInv, InHand, Objs
<1>. QED BY <1>3, <1>4, <1>5, <1>6, <1>7, <1>8 DEF PublisherInv

\* The next object of the current group is written, in either mode.
LEMMA WriteNext ==
    ASSUME PublisherInv, main = "write", UNCHANGED groupId,
           NEW x \in Frame, x = LastWritten + 1,
           NEW w \in Written, w.objs = Append(Objs(groupId), x),
           stream' = [stream EXCEPT ![groupId] = w]
    PROVE  /\ stream' \in [Group -> Written] /\ stream'[groupId] = w /\ groupId \in Group
           /\ \A g \in Group : g # groupId => stream'[g] = stream[g]
           /\ w.objs # << >> /\ Last(w.objs) = x /\ Len(w.objs) = Len(Objs(groupId)) + 1
           /\ FramesInOrder'
<1>1. /\ groupId \in Group /\ currentGroup = groupId /\ stream \in [Group -> Written]
      /\ groupId \in Nat /\ x \in Nat
  BY NoneAssumption DEF PublisherInv, StreamInv, PublisherTypeOK, Group, Frame
<1>2. /\ stream' \in [Group -> Written] /\ stream'[groupId] = w
      /\ \A g \in Group : g # groupId => stream'[g] = stream[g]
  BY <1>1
<1>3. Objs(groupId) \in Seq(Frame) /\ Consecutive(Objs(groupId))
  <2>1. Objs(groupId) \in Seq(Frame)
    BY <1>1 DEF Written, Objs
  <2>. QED BY <2>1, <1>1 DEF PublisherInv, OrderInv, FramesInOrder
<1>4. /\ Objs(groupId) # << >> => Last(Objs(groupId)) = LastWritten
      /\ Objs(groupId) = << >> => IF groupId = 0 THEN LastWritten = 0
                                  ELSE Last(Objs(groupId - 1)) = LastWritten
  BY DEF PublisherInv, OrderInv, Live
<1>5. /\ Consecutive(w.objs) /\ Last(w.objs) = x /\ w.objs # << >>
      /\ Head(w.objs) = IF Objs(groupId) = << >> THEN x ELSE Head(Objs(groupId))
      /\ Len(w.objs) = Len(Objs(groupId)) + 1
  <2>1. Objs(groupId) # << >> => x = Last(Objs(groupId)) + 1
    BY <1>4
  <2>. QED BY <2>1, <1>1, <1>3, AppendNext
<1>6. ASSUME NEW g \in Group
      PROVE  /\ Consecutive(stream'[g].objs)
             /\ stream'[g].objs # << >> =>
                    \/ g = 0 /\ Head(stream'[g].objs) = 1
                    \/ /\ g - 1 \in Group /\ stream'[g - 1].objs # << >>
                       /\ Head(stream'[g].objs) = Last(stream'[g - 1].objs) + 1
  <2>1. CASE g = groupId
    <3>1. stream'[g].objs = w.objs
      BY <2>1, <1>2
    <3>2. CASE Objs(groupId) # << >>
      <4>1. \/ g = 0 /\ Head(Objs(g)) = 1
            \/ /\ g - 1 \in Group /\ Objs(g - 1) # << >>
               /\ Head(Objs(g)) = Last(Objs(g - 1)) + 1
        BY <2>1, <3>2 DEF PublisherInv, OrderInv, FramesInOrder
      <4>2. g - 1 \in Group => stream'[g - 1].objs = Objs(g - 1)
        BY <2>1, <1>1, <1>2 DEF Group, Objs
      <4>. QED BY <3>1, <3>2, <4>1, <4>2, <1>5, <2>1
    <3>3. CASE Objs(groupId) = << >> /\ groupId = 0
      <4>1. Head(w.objs) = x /\ x = LastWritten + 1 /\ LastWritten = 0
        BY <3>3, <1>4, <1>5
      <4>. QED BY <4>1, <3>1, <3>3, <2>1, <1>5
    <3>4. CASE Objs(groupId) = << >> /\ groupId # 0
      <4>1. groupId - 1 \in Group /\ groupId - 1 < groupId /\ groupId - 1 # groupId
        <5>1. groupId \in 0..(MaxFrames - 1) /\ groupId # 0 /\ MaxFrames \in Nat
          BY <3>4, <1>1, PublisherAssumption DEF Group
        <5>2. groupId - 1 \in 0..(MaxFrames - 1) /\ groupId - 1 < groupId
          BY <5>1
        <5>. QED BY <5>2, <5>1 DEF Group
      <4>2. Objs(groupId - 1) # << >> /\ stream'[groupId - 1] = stream[groupId - 1]
        <5>1. \A h \in Group : h < groupId => Objs(h) # << >>
          BY DEF PublisherInv, StreamInv
        <5>. QED BY <5>1, <4>1, <1>2
      <4>3. Head(w.objs) = x /\ x = LastWritten + 1 /\ Last(Objs(groupId - 1)) = LastWritten
        BY <3>4, <1>4, <1>5
      <4>. QED BY <4>1, <4>2, <4>3, <3>1, <2>1, <1>5 DEF Objs
    <3>. QED BY <3>2, <3>3, <3>4
  <2>2. CASE g # groupId
    <3>1. stream'[g].objs = Objs(g) /\ Consecutive(Objs(g))
      BY <2>2, <1>2 DEF Objs, PublisherInv, OrderInv, FramesInOrder
    <3>2. Objs(g) # << >> => g < groupId
      BY <2>2, <1>1 DEF PublisherInv, StreamInv, Objs, NoStream, Group
    <3>3. g < groupId /\ g - 1 \in Group => stream'[g - 1].objs = Objs(g - 1)
      BY <1>1, <1>2 DEF Objs, Group
    <3>4. Objs(g) # << >> => \/ g = 0 /\ Head(Objs(g)) = 1
                             \/ /\ g - 1 \in Group /\ Objs(g - 1) # << >>
                                /\ Head(Objs(g)) = Last(Objs(g - 1)) + 1
      BY DEF PublisherInv, OrderInv, FramesInOrder
    <3>. QED BY <3>1, <3>2, <3>3, <3>4
  <2>. QED BY <2>1, <2>2
<1>7. FramesInOrder'
  BY <1>6 DEF FramesInOrder, Objs
<1>. QED BY <1>1, <1>2, <1>5, <1>7

\* A frame is written: it follows the one written before it.
LEMMA WriteKeeps ==
    ASSUME PublisherInv, WriteFrame
    PROVE  PublisherInv'
<1>. DEFINE w == [st |-> "open", objs |-> Append(Objs(groupId), frame)]
<1>1. /\ scenario.mode = "pipe" /\ main = "write" /\ main' = "recv"
      /\ stream' = [stream EXCEPT ![currentGroup].objs = Append(@, frame)]
      /\ UNCHANGED <<scenario, stdin, input, keys, channel, request, frame, groupId>>
      /\ UNCHANGED <<currentGroup, groupStarted, streamCount>>
  BY DEF WriteFrame, threadVars
<1>2. /\ frame \in Frame /\ groupId \in Group /\ currentGroup = groupId /\ groupId \in Nat
      /\ stream \in [Group -> Written] /\ stream[groupId].st = "open" /\ groupStarted
      /\ currentGroup # None
  <2>1. frame \in 0..MaxFrames /\ frame > 0
    BY <1>1 DEF PublisherInv, PublisherTypeOK, PipeInv, InHand
  <2>2. frame \in Frame
    BY <2>1, PublisherAssumption DEF Frame
  <2>3. currentGroup = groupId /\ currentGroup \in Group \cup {None} /\ groupId \in Nat
    BY <1>1 DEF PublisherInv, PublisherTypeOK, StreamInv
  <2>. QED BY <2>2, <2>3, NoneAssumption DEF PublisherInv, PublisherTypeOK, StreamInv
<1>3. w \in Written /\ w.objs = Append(Objs(groupId), frame) /\ w.st = "open"
  <2>1. Objs(groupId) \in Seq(Frame)
    BY <1>2 DEF Written, Objs
  <2>2. Append(Objs(groupId), frame) \in Seq(Frame)
    BY <2>1, <1>2
  <2>. QED BY <2>2 DEF Written, StreamState
<1>4. stream' = [stream EXCEPT ![groupId] = w]
  <2>1. stream[groupId] = [st |-> "open", objs |-> Objs(groupId)]
    BY <1>2 DEF Written, Objs
  <2>2. [stream[groupId] EXCEPT !.objs = Append(@, frame)] = w
    BY <2>1
  <2>3. stream' = [stream EXCEPT ![groupId] = [stream[groupId] EXCEPT !.objs = Append(@, frame)]]
    BY <1>1, <1>2
  <2>. QED BY <2>2, <2>3
<1>5. LastWritten = frame - 1 /\ frame = LastWritten + 1
  <2>1. LastWritten = frame - 1
    BY <1>1 DEF LastWritten, InHand
  <2>2. frame \in Nat
    BY <1>2 DEF Frame
  <2>. QED BY <2>1, <2>2
<1>6. /\ stream' \in [Group -> Written] /\ stream'[groupId] = w
      /\ \A g \in Group : g # groupId => stream'[g] = stream[g]
      /\ w.objs # << >> /\ Last(w.objs) = frame /\ Len(w.objs) = Len(Objs(groupId)) + 1
      /\ FramesInOrder'
  BY <1>1, <1>2, <1>3, <1>4, <1>5, WriteNext
<1>. HIDE DEF w
<1>7. PublisherTypeOK' /\ PipeInv' /\ DemoInv'
  BY <1>1, <1>6 DEF PublisherInv, PublisherTypeOK, MainState, PipeInv, DemoInv, Early, Live, InHand
<1>8. StreamInv'
  BY <1>1, <1>2, <1>3, <1>6 DEF PublisherInv, StreamInv, Early, Objs, Group
<1>9. OrderInv'
  <2>1. LastWritten' = frame
    BY <1>1 DEF LastWritten, InHand
  <2>. QED BY <2>1, <1>1, <1>6 DEF OrderInv, Live, Objs
<1>10. KeyInv'
  <2>1. frame <= input /\ input \in Nat /\ frame \in Nat /\ Len(channel) \in Nat
    BY <1>1, <1>2 DEF PublisherInv, PublisherTypeOK, PipeInv, Frame
  <2>2. ASSUME NEW g \in Group, NEW i \in 1..Len(stream'[g].objs)
        PROVE  /\ stream'[g].objs[i] <= input
               /\ IF i = 1 THEN g = 0 \/ stream'[g].objs[i] \in keys ELSE stream'[g].objs[i] \notin keys
    <3>1. CASE g # groupId
      <4>1. stream'[g].objs = Objs(g)
        BY <3>1, <1>6 DEF Objs
      <4>. QED BY <4>1, <2>2, <1>1 DEF PublisherInv, KeyInv, GroupsAtKeyframes
    <3>2. CASE g = groupId /\ i <= Len(Objs(groupId))
      <4>1. Objs(groupId) \in Seq(Frame)
        BY <1>2 DEF Written, Objs
      <4>2. i \in 1..Len(Objs(groupId)) /\ stream'[g].objs[i] = Objs(g)[i]
        BY <4>1, <3>2, <1>2, <1>3, <1>6, <2>2
      <4>. QED BY <4>2, <3>2, <1>1 DEF PublisherInv, KeyInv, GroupsAtKeyframes
    <3>3. CASE g = groupId /\ i = Len(Objs(groupId)) + 1
      <4>1. Objs(groupId) \in Seq(Frame)
        BY <1>2 DEF Written, Objs
      <4>2. stream'[g].objs[i] = frame
        BY <4>1, <3>3, <1>2, <1>3, <1>6
      <4>3. Objs(groupId) = << >> => i = 1 /\ (groupId = 0 \/ frame \in keys)
        BY <3>3, <1>1 DEF PublisherInv, KeyInv, InHand
      <4>4. Objs(groupId) # << >> => i # 1 /\ frame \notin keys
        BY <4>1, <3>3, <1>1 DEF PublisherInv, KeyInv, InHand
      <4>. QED BY <4>2, <4>3, <4>4, <3>3, <2>1
    <3>4. Len(Objs(groupId)) \in Nat /\ (g = groupId => i \in 1..(Len(Objs(groupId)) + 1))
      BY <1>2, <1>6, <2>2 DEF Written, Objs
    <3>. QED BY <3>1, <3>2, <3>3, <3>4
  <2>3. GroupsAtKeyframes'
    BY <2>2, <1>1 DEF GroupsAtKeyframes, Objs
  <2>. QED BY <2>2, <2>3, <1>1 DEF KeyInv, InHand, Objs
<1>. QED BY <1>6, <1>7, <1>8, <1>9, <1>10 DEF PublisherInv

\* The last group is finished.
LEMMA ClosedKeeps ==
    ASSUME PublisherInv, ChannelClosed
    PROVE  PublisherInv'
<1>1. /\ main = "recv" /\ main' = "done" /\ FinishCurrent /\ stdin = "over"
      /\ streamCount' = IF currentGroup = None THEN streamCount ELSE streamCount + 1
      /\ UNCHANGED <<scenario, stdin, input, keys, channel, request, frame, groupId, groupStarted>>
  BY DEF ChannelClosed, threadVars
<1>2. \/ currentGroup = None /\ ~groupStarted /\ stream' = stream /\ currentGroup' = None
      \/ /\ currentGroup = groupId /\ groupId \in Group /\ groupStarted /\ currentGroup' = None
         /\ stream' = [stream EXCEPT ![groupId].st = "fin"] /\ Objs(groupId) # << >>
  <2>1. currentGroup \in Group \cup {None} /\ groupId # None
    BY NoneAssumption DEF PublisherInv, PublisherTypeOK
  <2>2. \/ ~groupStarted /\ currentGroup = None
        \/ groupStarted /\ currentGroup = groupId /\ Objs(groupId) # << >>
    BY <1>1 DEF PublisherInv, StreamInv
  <2>. QED BY <1>1, <2>1, <2>2 DEF FinishCurrent
<1>3. stream \in [Group -> Written] /\ groupId \in Nat /\ streamCount \in Nat
  BY DEF PublisherInv, PublisherTypeOK
<1>4. \A g \in Group : Objs(g)' = Objs(g) /\ (stream'[g] = stream[g] \/ g = groupId)
  BY <1>2, <1>3 DEF Objs, Written
<1>5. PublisherTypeOK'
  <2>1. stream' \in [Group -> Written]
    BY <1>2, <1>3 DEF Written, StreamState
  <2>. QED BY <1>1, <1>2, <2>1 DEF PublisherInv, PublisherTypeOK, MainState
<1>6. PipeInv' /\ DemoInv'
  BY <1>1 DEF PublisherInv, PipeInv, DemoInv, Early, Live, InHand
<1>7. StreamInv'
  <2>1. CASE stream' = stream
    BY <2>1, <1>1, <1>2 DEF PublisherInv, StreamInv, Early, Objs
  <2>2. CASE groupStarted /\ groupId \in Group
    <3>1. \A g \in Group : groupId < g => stream'[g] = NoStream
      BY <1>3, <1>4 DEF PublisherInv, StreamInv
    <3>2. \A g \in Group : g < groupId => stream'[g].st = "fin" /\ stream'[g].objs # << >>
      BY <1>3, <1>4 DEF PublisherInv, StreamInv, Objs
    <3>. QED BY <3>1, <3>2, <2>2, <1>1, <1>2 DEF StreamInv, Early, Objs
  <2>. QED BY <1>2, <2>1, <2>2
<1>8. OrderInv'
  BY <1>1, <1>4, OrderKept DEF PublisherInv, OrderInv, Live
<1>9. KeyInv'
  <2>1. GroupsAtKeyframes'
    BY <1>1, <1>4, KeysKept DEF PublisherInv, KeyInv
  <2>2. \A g \in Group : stream'[g].objs = stream[g].objs
    BY <1>4 DEF Objs
  <2>. QED BY <1>1, <2>1, <2>2 DEF PublisherInv, KeyInv, InHand, Objs
<1>. QED BY <1>5, <1>6, <1>7, <1>8, <1>9 DEF PublisherInv

\* An object of the demo is written, and the last one of a group finishes it.
LEMMA DemoWriteKeeps ==
    ASSUME PublisherInv, WriteDemoObject
    PROVE  PublisherInv'
<1>. DEFINE objs == Append(stream[groupId].objs, frame')
            full == Len(objs) = DemoObjects
            w    == [st |-> IF full THEN "fin" ELSE "open", objs |-> objs]
<1>0. /\ stream' = [stream EXCEPT ![groupId] = w]
      /\ main' = IF full THEN "sleep" ELSE "write"
      /\ currentGroup' = IF full THEN None ELSE currentGroup
  BY DEF WriteDemoObject
<1>1. /\ stream' = [stream EXCEPT ![groupId] = w]
      /\ scenario.mode = "demo" /\ main = "write" /\ frame' = frame + 1
      /\ main' = IF w.st = "fin" THEN "sleep" ELSE "write"
      /\ currentGroup' = IF w.st = "fin" THEN None ELSE currentGroup
  BY <1>0 DEF WriteDemoObject
<1>. UNCHANGED <<scenario, stdin, input, keys, channel, request, groupId, groupStarted, streamCount>>
  BY DEF WriteDemoObject, threadVars
<1>2. /\ frame \in 0..MaxFrames /\ groupId \in Nat /\ groupId < DemoGroups
      /\ frame = groupId * DemoObjects + Len(Objs(groupId))
      /\ Len(Objs(groupId)) < DemoObjects /\ currentGroup = groupId
      /\ stream \in [Group -> Written]
  BY <1>1 DEF PublisherInv, PublisherTypeOK, DemoInv, StreamInv
<1>3. groupId \in Group /\ groupId * DemoObjects + DemoObjects <= MaxFrames
  BY <1>2, DemoFits
<1>4. Objs(groupId) \in Seq(Frame) /\ Len(Objs(groupId)) \in Nat
  BY <1>2, <1>3 DEF Written, Objs
<1>5. frame' \in Frame /\ frame' \in 0..MaxFrames
  <2>1. groupId * DemoObjects \in Nat /\ DemoObjects \in Nat /\ MaxFrames \in Nat
    BY <1>2, PublisherAssumption
  <2>. QED BY <2>1, <1>1, <1>2, <1>3, <1>4 DEF Frame
<1>6. w \in Written /\ w.objs = Append(Objs(groupId), frame')
  BY <1>1, <1>4, <1>5 DEF Written, StreamState, Objs
<1>7. frame' = LastWritten + 1
  BY <1>1 DEF LastWritten
<1>8. /\ stream' \in [Group -> Written] /\ stream'[groupId] = w
      /\ \A g \in Group : g # groupId => stream'[g] = stream[g]
      /\ w.objs # << >> /\ Last(w.objs) = frame' /\ Len(w.objs) = Len(Objs(groupId)) + 1
      /\ FramesInOrder'
  BY <1>1, <1>5, <1>6, <1>7, WriteNext
<1>9. IF Len(w.objs) = DemoObjects THEN w.st = "fin" ELSE w.st = "open"
  OBVIOUS
<1>. HIDE DEF objs, full, w
<1>10. PublisherTypeOK'
  BY <1>1, <1>2, <1>3, <1>5, <1>8 DEF PublisherInv, PublisherTypeOK, MainState
<1>11. PipeInv' /\ KeyInv'
  BY <1>1 DEF PipeInv, KeyInv, GroupsAtKeyframes
<1>12. DemoInv'
  <2>1. CASE w.st = "fin"
    <3>1. frame' = groupId * DemoObjects + DemoObjects
      <4>1. groupId * DemoObjects \in Nat /\ DemoObjects \in Nat /\ frame \in Nat
        BY <1>2, PublisherAssumption
      <4>2. Len(Objs(groupId)) + 1 = DemoObjects
        BY <2>1, <1>8, <1>9
      <4>3. frame = groupId * DemoObjects + Len(Objs(groupId)) /\ frame' = frame + 1
        BY <1>1, <1>2
      <4>. QED BY <4>1, <4>2, <4>3, <1>4
    <3>. QED BY <3>1, <2>1, <1>1, <1>2, <1>8 DEF PublisherInv, DemoInv, Objs
  <2>2. CASE w.st = "open"
    <3>1. /\ frame' = groupId * DemoObjects + Len(w.objs)
          /\ Len(w.objs) < DemoObjects
      <4>1. groupId * DemoObjects \in Nat /\ DemoObjects \in Nat /\ frame \in Nat
        BY <1>2, PublisherAssumption
      <4>2. Len(Objs(groupId)) + 1 # DemoObjects
        BY <2>2, <1>8, <1>9
      <4>3. frame = groupId * DemoObjects + Len(Objs(groupId)) /\ frame' = frame + 1
        BY <1>1, <1>2
      <4>4. Len(w.objs) = Len(Objs(groupId)) + 1 /\ Len(Objs(groupId)) < DemoObjects
        BY <1>2, <1>8
      <4>. QED BY <4>1, <4>2, <4>3, <4>4, <1>4
    <3>. QED BY <3>1, <2>2, <1>1, <1>2, <1>8 DEF PublisherInv, DemoInv, Objs
  <2>. QED BY <2>1, <2>2, <1>9
<1>13. StreamInv'
  <2>1. \A g \in Group : groupId < g => stream'[g] = NoStream
    BY <1>2, <1>8 DEF PublisherInv, StreamInv
  <2>2. \A g \in Group : g < groupId => stream'[g].st = "fin" /\ stream'[g].objs # << >>
    BY <1>2, <1>8 DEF PublisherInv, StreamInv, Objs
  <2>3. groupStarted /\ ~Early'
    BY <1>1, <1>2, <1>3, NoneAssumption DEF PublisherInv, StreamInv, Early, Group
  <2>4. currentGroup' # None => currentGroup' = groupId /\ stream'[groupId].st = "open"
    BY <1>1, <1>2, <1>8, <1>9
  <2>5. main' = "write" => currentGroup' = groupId
    BY <1>1, <1>2
  <2>6. main' \in {"sleep", "write"}
    BY <1>1
  <2>. QED BY <2>1, <2>2, <2>3, <2>4, <2>5, <2>6 DEF StreamInv, Objs
<1>14. OrderInv'
  <2>1. LastWritten' = frame'
    BY <1>1 DEF LastWritten
  <2>. QED BY <2>1, <1>8 DEF OrderInv, Objs
<1>. QED BY <1>10, <1>11, <1>12, <1>13, <1>14 DEF PublisherInv

\* The demo goes on to its next group, or is done.
LEMMA DemoSleepKeeps ==
    ASSUME PublisherInv, NEW slept \in BOOLEAN, DemoSleeps(slept)
    PROVE  PublisherInv'
<1>1. /\ main = "sleep" /\ groupId' = groupId + 1
      /\ main' = IF groupId' = DemoGroups THEN "done" ELSE "open"
      /\ UNCHANGED <<scenario, stdin, input, keys, channel, request, frame>>
      /\ UNCHANGED <<currentGroup, groupStarted, streamCount, stream>>
  BY DEF DemoSleeps, threadVars
<1>2. scenario.mode = "demo"
  BY <1>1 DEF PublisherInv, PipeInv, PublisherTypeOK, Scenario
<1>3. /\ groupId \in Nat /\ groupId < DemoGroups /\ frame = groupId * DemoObjects + DemoObjects
      /\ Objs(groupId) # << >> /\ stream[groupId].st = "fin" /\ currentGroup = None
      /\ DemoGroups \in Nat
  BY <1>1, <1>2, PublisherAssumption DEF PublisherInv, PublisherTypeOK, DemoInv
<1>4. groupId \in Group /\ (main' = "open" => groupId + 1 < DemoGroups /\ groupId + 1 \in Group)
  <2>1. groupId \in Group
    BY <1>3, DemoFits
  <2>2. main' = "open" => groupId + 1 < DemoGroups
    BY <1>1, <1>3
  <2>. QED BY <2>1, <2>2, <1>3, DemoFits
<1>5. stream[groupId] # NoStream /\ groupStarted
  <2>1. stream[groupId] # NoStream
    BY <1>3 DEF NoStream
  <2>. QED BY <2>1 DEF PublisherInv, StreamInv
<1>6. PublisherTypeOK'
  BY <1>1, <1>3 DEF PublisherInv, PublisherTypeOK, MainState
<1>7. PipeInv' /\ KeyInv'
  BY <1>1, <1>2 DEF PipeInv, KeyInv, GroupsAtKeyframes
<1>8. DemoInv'
  <2>1. (groupId + 1) * DemoObjects = groupId * DemoObjects + DemoObjects
    BY <1>3, PublisherAssumption
  <2>. QED BY <2>1, <1>1, <1>3, <1>4 DEF PublisherInv, DemoInv
<1>9. StreamInv'
  <2>1. ASSUME NEW g \in Group, groupId' < g PROVE stream[g] = NoStream
    BY <2>1, <1>1, <1>3 DEF PublisherInv, StreamInv, Group
  <2>2. ASSUME NEW g \in Group, g < groupId' PROVE stream[g].st = "fin" /\ Objs(g) # << >>
    <3>1. g \in Nat
      BY DEF Group
    <3>2. g < groupId \/ g = groupId
      BY <3>1, <2>2, <1>1, <1>3
    <3>. QED BY <3>2, <1>3 DEF PublisherInv, StreamInv
  <2>3. main' = "open" => groupId' \in Group /\ stream[groupId'] = NoStream
    BY <1>1, <1>3, <1>4, <2>1 DEF PublisherInv, StreamInv
  <2>. QED BY <1>1, <1>3, <1>5, <2>1, <2>2, <2>3 DEF StreamInv, Early, Objs
<1>10. OrderInv'
  <2>1. FramesInOrder'
    BY <1>1 DEF PublisherInv, OrderInv, FramesInOrder, Objs
  <2>2. LastWritten' = frame /\ LastWritten = frame
    BY <1>1, <1>2 DEF LastWritten
  <2>3. Last(Objs(groupId)) = frame
    BY <1>1, <1>3, <2>2 DEF PublisherInv, OrderInv
  <2>4. groupId' # 0 /\ groupId' - 1 = groupId
    BY <1>1, <1>3
  <2>5. Live' => stream'[groupId'].objs = << >>
    BY <1>1, <1>3, <1>4 DEF PublisherInv, StreamInv, Live, NoStream
  <2>6. main' # "sleep"
    BY <1>1
  <2>7. Last(stream'[groupId' - 1].objs) = frame
    BY <2>3, <2>4, <1>1 DEF Objs
  <2>. QED BY <2>1, <2>2, <2>4, <2>5, <2>6, <2>7 DEF OrderInv, Objs
<1>. QED BY <1>6, <1>7, <1>8, <1>9, <1>10 DEF PublisherInv

\* The main task: one case for each of its steps.
LEMMA MainKeeps ==
    ASSUME PublisherInv, NEW slept \in BOOLEAN, NEW lingered \in BOOLEAN,
           PublisherMain(slept, lingered)
    PROVE  PublisherInv'
<1>. request \in Upstream \cup {None} /\ scenario.mode \in {"pipe", "demo"}
  BY DEF PublisherInv, PublisherTypeOK, Scenario
<1>1. CASE ConnectPublisher
  BY <1>1, PublisherUnmoved DEF ConnectPublisher
<1>2. CASE PublishNamespace
  BY <1>2, MainMoves DEF PublishNamespace, Early
<1>3. CASE NamespaceAnswered
  BY <1>3, MainMoves DEF NamespaceAnswered, Early
<1>4. ASSUME NEW r \in Upstream, TakeSubscribe(r) PROVE PublisherInv'
  BY <1>4, MainMoves DEF TakeSubscribe, Early
<1>5. CASE Accept
  BY <1>5, AcceptKeeps
<1>6. CASE PublisherFails
  BY <1>6, MainMoves DEF PublisherFails, Return
<1>7. CASE RecvFrame
  BY <1>7, RecvKeeps
<1>8. CASE OpenSubgroup
  BY <1>8, OpenKeeps
<1>9. CASE WriteFrame
  BY <1>9, WriteKeeps
<1>10. CASE ChannelClosed
  BY <1>10, ClosedKeeps
<1>11. CASE WriteDemoObject
  BY <1>11, DemoWriteKeeps
<1>12. CASE DemoSleeps(slept)
  BY <1>12, DemoSleepKeeps
<1>13. CASE SendPublishDone
  BY <1>13, MainMoves DEF SendPublishDone, Return
<1>14. CASE Linger(lingered)
  BY <1>14, MainMoves DEF Linger, Return
<1>15. CASE ExitPublisher
  BY <1>15, MainMoves DEF ExitPublisher
<1>. QED
  BY <1>1, <1>2, <1>3, <1>4, <1>5, <1>6, <1>7, <1>8, <1>9, <1>10, <1>11, <1>12, <1>13,
     <1>14, <1>15 DEF PublisherMain

LEMMA RelayUnmoved ==
    ASSUME Relay PROVE UNCHANGED publisher
<1>1. ASSUME NEW c \in Conn, HandleConnection(c) PROVE UNCHANGED publisher
  BY <1>1 DEF HandleConnection, RelaySetup, RemoveSession, RegisterNamespace, ReceiveStream,
              HandleSubscribe, Clients
<1>2. ASSUME NEW u \in Upstream, HandleRequest(u) PROVE UNCHANGED publisher
  BY <1>2 DEF HandleRequest, RecordSubscription, ForwardPublishDone, UpstreamLost, ForwardOk, Clients
<1>3. ASSUME NEW g \in Group, HandleStream(g) PROVE UNCHANGED publisher
  BY <1>3 DEF HandleStream, LookUp, ForwardObject, EndOfStream, Clients
<1>. QED BY <1>1, <1>2, <1>3 DEF Relay

LEMMA PublisherKept ==
    ASSUME PublisherInv, [Next]_vars
    PROVE  PublisherInv'
<1>1. CASE StdinThread
  BY <1>1, ThreadKeeps
<1>2. CASE Publisher
  <2>. DEFINE slept    == scenario.timely => (Flushed \/ Down("pub"))
              lingered == scenario.timely => (PublisherFlushed \/ Down("pub"))
  <2>1. slept \in BOOLEAN /\ lingered \in BOOLEAN
    OBVIOUS
  <2>2. PublisherMain(slept, lingered)
    BY <1>2 DEF Publisher
  <2>. HIDE DEF slept, lingered
  <2>. QED BY <2>1, <2>2, MainKeeps
<1>3. CASE UNCHANGED publisher
  BY <1>3, PublisherUnmoved
<1>. QED BY <1>1, <1>2, <1>3, RelayUnmoved DEF Next, Running, OtherAsks, Clients, vars

----------------------------------------------------------------------------
THEOREM PublisherSound == Spec => []PublisherInv
<1>. QED BY PublisherStarts, PublisherKept, PTL DEF Spec

\* FramesInOrder, for every number of frames and groups, whatever room the channel
\* has and whichever connections are lost.
THEOREM InOrder == Spec => []FramesInOrder
<1>1. PublisherInv => FramesInOrder
  BY DEF PublisherInv, OrderInv
<1>. QED BY <1>1, PublisherSound, PTL

\* GroupsAtKeyframes, for every choice of keyframes.
THEOREM AtKeyframes == Spec => []GroupsAtKeyframes
<1>1. PublisherInv => GroupsAtKeyframes
  BY DEF PublisherInv, KeyInv
<1>. QED BY <1>1, PublisherSound, PTL

----------------------------------------------------------------------------
(* What PUBLISH_DONE says *)

\* A step that sends no PUBLISH_DONE; the relay may hand one on.
NoNewDone ==
    /\ AnswersOK'
    /\ \A m \in MessageTypes : m.type = "DONE" /\ OnTheWay(m)' => OnTheWay(m)

LEMMA AnswerAdds ==
    ASSUME AnswersOK, NEW r, NEW x \in MessageTypes, Answer(r, x)
    PROVE  AnswersOK' /\ \A m \in MessageTypes : OnTheWay(m)' => OnTheWay(m) \/ m = x
<1>1. CASE UNCHANGED answers
  BY <1>1 DEF AnswersOK, OnTheWay
<1>2. CASE r \in Request /\ answers' = [answers EXCEPT ![r] = Append(@, x)]
  <2>1. answers'[r] = Append(answers[r], x) /\ answers[r] \in Seq(MessageTypes)
    BY <1>2 DEF AnswersOK
  <2>2. \A q \in Request : q # r => answers'[q] = answers[q]
    BY <1>2 DEF AnswersOK
  <2>3. AnswersOK'
    BY <1>2, <2>1 DEF AnswersOK
  <2>4. ASSUME NEW q \in Request, NEW i \in 1..Len(answers'[q])
        PROVE  answers'[q][i] = x \/ (i \in 1..Len(answers[q]) /\ answers'[q][i] = answers[q][i])
    <3>1. CASE q # r
      BY <3>1, <2>2
    <3>2. CASE q = r
      BY <3>2, <2>1
    <3>. QED BY <3>1, <3>2
  <2>. QED BY <2>3, <2>4 DEF OnTheWay
<1>3. CASE r \notin Request /\ answers' = [answers EXCEPT ![r] = Append(@, x)]
  <2>1. answers' = answers
    BY <1>3 DEF AnswersOK
  <2>. QED BY <2>1, <1>1
<1>. QED BY <1>1, <1>2, <1>3 DEF Answer

LEMMA ReadTakes ==
    ASSUME AnswersOK, NEW r \in Request, NEW x, Read(r, x)
    PROVE  AnswersOK' /\ \A m \in MessageTypes : OnTheWay(m)' => OnTheWay(m)
<1>1. /\ answers' = [answers EXCEPT ![r] = Tail(@)] /\ answers[r] # << >>
      /\ answers[r] \in Seq(MessageTypes)
  BY DEF Read, AnswersOK
<1>2. answers'[r] = Tail(answers[r]) /\ \A q \in Request : q # r => answers'[q] = answers[q]
  BY <1>1 DEF AnswersOK
<1>3. AnswersOK'
  BY <1>1 DEF AnswersOK
<1>4. ASSUME NEW q \in Request, NEW i \in 1..Len(answers'[q])
      PROVE  \E j \in 1..Len(answers[q]) : answers'[q][i] = answers[q][j]
  <2>1. CASE q # r
    BY <2>1, <1>2
  <2>2. CASE q = r
    <3>1. i \in 1..Len(Tail(answers[r]))
      BY <2>2, <1>2
    <3>2. i + 1 \in 1..Len(answers[r]) /\ Tail(answers[r])[i] = answers[r][i + 1]
      BY <3>1, <1>1
    <3>. QED BY <3>2, <2>2, <1>2
  <2>. QED BY <2>1, <2>2
<1>. QED BY <1>3, <1>4 DEF OnTheWay

LEMMA SameAnswers ==
    ASSUME AnswersOK, UNCHANGED answers
    PROVE  NoNewDone
BY DEF AnswersOK, NoNewDone, OnTheWay

LEMMA OtherAnswer ==
    ASSUME AnswersOK, NEW r, NEW x \in MessageTypes, x.type # "DONE", Answer(r, x)
    PROVE  NoNewDone
BY AnswerAdds DEF NoNewDone

LEMMA AnyRead ==
    ASSUME AnswersOK, NEW r \in Request, NEW x, Read(r, x)
    PROVE  NoNewDone
BY ReadTakes DEF NoNewDone

\* The relay's tasks, and the loop of a client.
LEMMA RelayAnswers ==
    ASSUME AnswersOK, Relay
    PROVE  NoNewDone
<1>. /\ \A t \in {"OK", "ERROR", "FIN"} : Message(t, 0) \in MessageTypes /\ Message(t, 0).type # "DONE"
     /\ \A u \in Upstream : u \in Request /\ u # "subscribe"
     /\ "subscribe" \in Request
  BY DEF Message, MessageTypes, Upstream, Request
<1>1. DropRequest => NoNewDone
  BY OtherAnswer DEF DropRequest
<1>2. ASSUME NEW c \in Conn, HandleConnection(c) PROVE NoNewDone
  <2>1. CASE RelaySetup(c)
    BY <2>1, SameAnswers DEF RelaySetup, ReadSetup
  <2>2. CASE RemoveSession(c)
    BY <2>2, <1>1, SameAnswers DEF RemoveSession
  <2>3. CASE RegisterNamespace
    BY <2>3, OtherAnswer DEF RegisterNamespace
  <2>4. ASSUME NEW g \in Group, ReceiveStream(g) PROVE NoNewDone
    BY <2>4, SameAnswers DEF ReceiveStream
  <2>5. CASE HandleSubscribe
    <3>1. CASE UNCHANGED answers
      BY <3>1, SameAnswers
    <3>2. CASE Answer("subscribe", Message(IF registered THEN "FIN" ELSE "ERROR", 0))
      BY <3>2, OtherAnswer
    <3>. QED BY <2>5, <3>1, <3>2 DEF HandleSubscribe
  <2>. QED BY <1>2, <2>1, <2>2, <2>3, <2>4, <2>5 DEF HandleConnection
<1>3. ASSUME NEW u \in Upstream, HandleRequest(u) PROVE NoNewDone
  <2>1. CASE RecordSubscription(u)
    BY <2>1, AnyRead DEF RecordSubscription
  <2>2. CASE ForwardOk
    BY <2>2, OtherAnswer, SameAnswers DEF ForwardOk
  <2>3. CASE UpstreamLost(u)
    BY <2>3, <1>1, SameAnswers DEF UpstreamLost
  <2>4. CASE ForwardPublishDone(u)
    <3>. DEFINE m    == IF u \in serving THEN Head(answers[u]) ELSE Message("FIN", 0)
                told == u = "upstream" /\ Up("sub")
    <3>1. /\ answers[u] # << >>
          /\ answers' = [r \in Request |-> CASE r = u -> Tail(answers[r])
                                             [] r = "subscribe" /\ told -> Append(answers[r], m)
                                             [] OTHER -> answers[r]]
      BY <2>4 DEF ForwardPublishDone
    <3>2. answers[u] \in Seq(MessageTypes) /\ m \in MessageTypes
      BY <3>1 DEF AnswersOK
    <3>3. m.type = "DONE" => OnTheWay(m)
      <4>1. Head(answers[u]) = answers[u][1] /\ 1 \in 1..Len(answers[u])
        BY <3>1, <3>2
      <4>. QED BY <4>1 DEF OnTheWay
    <3>. HIDE DEF m, told
    <3>4. AnswersOK'
      BY <3>1, <3>2 DEF AnswersOK
    <3>5. ASSUME NEW q \in Request, NEW i \in 1..Len(answers'[q])
          PROVE  \/ \E j \in 1..Len(answers[q]) : answers'[q][i] = answers[q][j]
                 \/ answers'[q][i] = m
      <4>0. answers[q] \in Seq(MessageTypes)
        BY DEF AnswersOK
      <4>1. CASE q = u
        <5>1. answers'[q] = Tail(answers[q])
          BY <4>1, <3>1
        <5>2. i + 1 \in 1..Len(answers[q]) /\ Tail(answers[q])[i] = answers[q][i + 1]
          BY <5>1, <4>0, <4>1, <3>1, <3>5
        <5>. QED BY <5>1, <5>2
      <4>2. CASE q # u /\ q = "subscribe" /\ told
        <5>1. answers'[q] = Append(answers[q], m)
          BY <4>2, <3>1
        <5>2. i \in 1..(Len(answers[q]) + 1)
          BY <5>1, <4>0, <3>5
        <5>3. i = Len(answers[q]) + 1 => Append(answers[q], m)[i] = m
          BY <4>0
        <5>4. i \in 1..Len(answers[q]) => Append(answers[q], m)[i] = answers[q][i]
          BY <4>0
        <5>5. i = Len(answers[q]) + 1 \/ i \in 1..Len(answers[q])
          BY <5>2, <4>0
        <5>. QED BY <5>1, <5>3, <5>4, <5>5
      <4>3. CASE q # u /\ ~(q = "subscribe" /\ told)
        <5>1. answers'[q] = answers[q]
          BY <4>3, <3>1
        <5>. QED BY <5>1, <3>5
      <4>. QED BY <4>1, <4>2, <4>3
    <3>6. ASSUME NEW x \in MessageTypes, x.type = "DONE", OnTheWay(x)' PROVE OnTheWay(x)
      <4>1. PICK q \in Request : \E i \in 1..Len(answers'[q]) : answers'[q][i] = x
        BY <3>6 DEF OnTheWay
      <4>2. \/ \E j \in 1..Len(answers[q]) : x = answers[q][j]
            \/ x = m
        BY <4>1, <3>5
      <4>. QED BY <4>2, <3>3, <3>6 DEF OnTheWay
    <3>. QED BY <3>4, <3>6 DEF NoNewDone
  <2>. QED BY <1>3, <2>1, <2>2, <2>3, <2>4 DEF HandleRequest
<1>4. ASSUME NEW g \in Group, HandleStream(g) PROVE NoNewDone
  BY <1>4, SameAnswers DEF HandleStream, LookUp, ForwardObject, EndOfStream, session
<1>. QED BY <1>2, <1>3, <1>4 DEF Relay

\* The first n groups are finished and the others not opened.
LEMMA CountUpTo ==
    ASSUME NEW n \in Nat, NEW f,
           n > 0 => n - 1 \in Group,
           \A g \in Group : IF g < n THEN f[g].st = "fin" ELSE f[g] = NoStream
    PROVE  /\ Cardinality({g \in Group : f[g].st # "none"}) = n
           /\ \A g \in Group : f[g].st # "none" => f[g].st = "fin"
<1>1. {g \in Group : f[g].st # "none"} = 0..(n - 1)
  <2>1. MaxFrames \in Nat \ {0} /\ \A g \in 0..(n - 1) : g \in Group /\ g < n
    BY PublisherAssumption DEF Group
  <2>2. \A g \in Group : f[g].st # "none" => g < n
    BY DEF NoStream
  <2>3. \A g \in Group : g < n => g \in 0..(n - 1)
    BY <2>1 DEF Group
  <2>. QED BY <2>1, <2>2, <2>3
<1>2. Cardinality(0..(n - 1)) = n
  <2>1. 0 \in Int /\ n - 1 \in Int
    OBVIOUS
  <2>2. Cardinality(0..(n - 1)) = IF 0 > n - 1 THEN 0 ELSE (n - 1) - 0 + 1
    BY <2>1, FS_Interval
  <2>. QED BY <2>2
<1>3. ASSUME NEW g \in Group, f[g].st # "none" PROVE f[g].st = "fin"
  <2>1. f[g] # NoStream
    BY <1>3 DEF NoStream
  <2>. QED BY <2>1
<1>. QED BY <1>1, <1>2, <1>3

LEMMA DoneReached ==
    ASSUME PublisherInv, NEW slept \in BOOLEAN, ChannelClosed \/ DemoSleeps(slept), main' = "done"
    PROVE  Closed'
<1>0. /\ stream \in [Group -> Written] /\ groupId \in Nat /\ scenario' = scenario
      /\ \A g \in Group : groupId < g => stream[g] = NoStream
      /\ \A g \in Group : g < groupId => stream[g].st = "fin"
      /\ \A g \in Group : g \in Nat
  BY DEF PublisherInv, PublisherTypeOK, StreamInv, ChannelClosed, DemoSleeps, Group
<1>1. PICK n \in Nat :
          /\ Announced' = n /\ (n > 0 => n - 1 \in Group)
          /\ \A g \in Group : IF g < n THEN stream'[g].st = "fin" ELSE stream'[g] = NoStream
  <2>1. CASE ChannelClosed
    <3>1. scenario.mode = "pipe" /\ streamCount = groupId /\ main = "recv"
      BY <2>1 DEF ChannelClosed, PublisherInv, PipeInv, DemoInv, PublisherTypeOK, Scenario, Live
    <3>2. currentGroup \in Group \cup {None} /\ groupId # None
      BY NoneAssumption DEF PublisherInv, PublisherTypeOK
    <3>3. CASE ~groupStarted
      <4>1. groupId = 0 /\ currentGroup = None /\ stream[0] = NoStream
        BY <3>3 DEF PublisherInv, StreamInv
      <4>2. stream' = stream /\ streamCount' = 0
        BY <4>1, <3>1, <2>1 DEF ChannelClosed, FinishCurrent
      <4>3. \A g \in Group : stream'[g] = NoStream /\ ~(g < 0)
        BY <4>1, <4>2, <1>0
      <4>4. Announced' = 0
        BY <4>2, <3>1, <1>0 DEF Announced
      <4>. QED BY <4>3, <4>4
    <3>4. CASE groupStarted
      <4>1. currentGroup = groupId /\ groupId \in Group
        BY <3>1, <3>2, <3>4 DEF PublisherInv, StreamInv
      <4>2. stream' = [stream EXCEPT ![groupId].st = "fin"] /\ streamCount' = groupId + 1
        BY <4>1, <3>1, <3>2, <2>1 DEF ChannelClosed, FinishCurrent
      <4>3. ASSUME NEW g \in Group
            PROVE  IF g < groupId + 1 THEN stream'[g].st = "fin" ELSE stream'[g] = NoStream
        <5>1. CASE g = groupId
          BY <5>1, <4>2, <1>0 DEF Written
        <5>2. CASE g # groupId
          BY <5>2, <4>2, <1>0
        <5>. QED BY <5>1, <5>2
      <4>4. Announced' = groupId + 1
        BY <4>2, <3>1, <1>0 DEF Announced
      <4>5. groupId + 1 \in Nat /\ (groupId + 1) - 1 \in Group
        BY <4>1, <1>0
      <4>. QED BY <4>3, <4>4, <4>5
    <3>. QED BY <3>3, <3>4
  <2>2. CASE DemoSleeps(slept)
    <3>1. main = "sleep" /\ groupId + 1 = DemoGroups /\ stream' = stream
      BY <2>2 DEF DemoSleeps
    <3>2. scenario.mode = "demo" /\ groupId < DemoGroups /\ stream[groupId].st = "fin"
      BY <3>1 DEF PublisherInv, PublisherTypeOK, PipeInv, DemoInv, Scenario
    <3>3. groupId \in Group
      BY <3>2, <1>0, DemoFits
    <3>4. ASSUME NEW g \in Group
          PROVE  IF g < groupId + 1 THEN stream'[g].st = "fin" ELSE stream'[g] = NoStream
      BY <3>1, <3>2, <1>0
    <3>5. Announced' = groupId + 1
      BY <3>1, <3>2, <1>0 DEF Announced
    <3>6. groupId + 1 \in Nat /\ (groupId + 1) - 1 \in Group
      BY <3>3, <1>0
    <3>. QED BY <3>4, <3>5, <3>6
  <2>. QED BY <2>1, <2>2
<1>2. /\ Cardinality({g \in Group : stream'[g].st # "none"}) = n
      /\ \A g \in Group : stream'[g].st # "none" => stream'[g].st = "fin"
  BY <1>1, CountUpTo
<1>. QED BY <1>1, <1>2 DEF Closed, Opened

\* The sender of PUBLISH_DONE writes to no stream afterwards.
Settled == UNCHANGED <<scenario, streamCount, stream>>

LEMMA ClosedKept ==
    ASSUME Closed, Settled
    PROVE  Closed' /\ Announced' = Announced
BY DEF Closed, Settled, Opened, Announced

\* A step without a new PUBLISH_DONE that leaves main where it is, or takes it
\* from one state after the last write to another.
LEMMA QuietStep ==
    ASSUME DoneInv, NoNewDone, Settled,
           \/ main' = main
           \/ main' \notin {"done", "linger"} /\ main \notin {"linger", "returned", "exited"}
           \/ main' \in {"returned", "exited"}
    PROVE  DoneInv'
<1>1. main' \in {"done", "linger"} => Closed'
  BY ClosedKept DEF DoneInv
<1>2. ASSUME NEW m \in MessageTypes, m.type = "DONE", OnTheWay(m)'
      PROVE  m.streams = Announced' /\ Closed' /\ main' \in {"linger", "returned", "exited"}
  <2>1. OnTheWay(m)
    BY <1>2 DEF NoNewDone
  <2>2. m.streams = Announced /\ Closed /\ main \in {"linger", "returned", "exited"}
    BY <2>1, <1>2 DEF DoneInv
  <2>. QED BY <2>2, ClosedKept
<1>. QED BY <1>1, <1>2 DEF DoneInv

\* A step of the main task before PUBLISH_DONE: none is on its way.
LEMMA BusyStep ==
    ASSUME DoneInv, NoNewDone, main \notin {"linger", "returned", "exited"},
           main' \in {"done", "linger"} => Closed'
    PROVE  DoneInv'
BY DEF DoneInv, NoNewDone

LEMMA MainCounts ==
    ASSUME PublisherInv, AnswersOK, DoneInv, NEW slept \in BOOLEAN, NEW lingered \in BOOLEAN,
           PublisherMain(slept, lingered)
    PROVE  AnswersOK' /\ DoneInv'
<1>. /\ \A t \in {"OK", "ERROR", "FIN"} : Message(t, 0) \in MessageTypes /\ Message(t, 0).type # "DONE"
     /\ \A r \in Upstream \cup {"announce"} : r \in Request
  BY DEF Message, MessageTypes, Upstream, Request
<1>1. CASE ConnectPublisher
  <2>1. NoNewDone
    BY <1>1, SameAnswers DEF ConnectPublisher, ReadSetup
  <2>2. main' = main /\ Settled
    BY <1>1 DEF ConnectPublisher, Settled, publisher, loopVars
  <2>. QED BY <2>1, <2>2, QuietStep DEF NoNewDone
<1>2. CASE PublishNamespace
  <2>1. NoNewDone
    BY <1>2, SameAnswers DEF PublishNamespace
  <2>. QED BY <2>1, <1>2, BusyStep DEF NoNewDone, PublishNamespace
<1>3. CASE NamespaceAnswered
  <2>1. NoNewDone
    BY <1>3, AnyRead DEF NamespaceAnswered
  <2>. QED BY <2>1, <1>3, BusyStep DEF NoNewDone, NamespaceAnswered
<1>4. ASSUME NEW r \in Upstream, TakeSubscribe(r) PROVE AnswersOK' /\ DoneInv'
  <2>1. NoNewDone
    BY <1>4, SameAnswers DEF TakeSubscribe
  <2>. QED BY <2>1, <1>4, BusyStep DEF NoNewDone, TakeSubscribe
<1>5. CASE Accept
  <2>1. NoNewDone
    BY <1>5, OtherAnswer DEF Accept
  <2>2. main = "accept" /\ main' \in {"recv", "open"}
    BY <1>5 DEF Accept
  <2>. QED BY <2>1, <2>2, BusyStep DEF NoNewDone
<1>6. CASE PublisherFails
  <2>1. NoNewDone
    BY <1>6, SameAnswers DEF PublisherFails
  <2>2. main \notin {"linger", "returned", "exited"} /\ main' = "returned"
    BY <1>6 DEF PublisherFails, Return
  <2>. QED BY <2>1, <2>2, BusyStep DEF NoNewDone
<1>7. CASE RecvFrame \/ OpenSubgroup \/ WriteFrame \/ WriteDemoObject
  <2>1. NoNewDone
    BY <1>7, SameAnswers DEF RecvFrame, OpenSubgroup, WriteFrame, WriteDemoObject, session
  <2>2. main \in {"recv", "open", "write"} /\ main' \in {"recv", "open", "write", "sleep"}
    BY <1>7 DEF RecvFrame, OpenSubgroup, WriteFrame, WriteDemoObject
  <2>. QED BY <2>1, <2>2, BusyStep DEF NoNewDone
<1>8. CASE ChannelClosed \/ DemoSleeps(slept)
  <2>1. NoNewDone
    BY <1>8, SameAnswers DEF ChannelClosed, DemoSleeps, session
  <2>2. main \in {"recv", "sleep"} /\ main' \in {"done", "open"}
    BY <1>8 DEF ChannelClosed, DemoSleeps
  <2>3. main' = "done" => Closed'
    BY <1>8, DoneReached
  <2>. QED BY <2>1, <2>2, <2>3, BusyStep DEF NoNewDone
<1>9. CASE SendPublishDone
  <2>. DEFINE x == Message("DONE", Announced)
  <2>1. main = "done" /\ Answer(request, x) /\ main' \in {"linger", "returned"}
    BY <1>9 DEF SendPublishDone, Return
  <2>2. Settled /\ Closed
    BY <1>9 DEF SendPublishDone, Settled, loopVars, DoneInv
  <2>3. x \in MessageTypes /\ x.streams = Announced
    BY PublisherAssumption DEF Announced, PublisherInv, PublisherTypeOK, Message, MessageTypes
  <2>. HIDE DEF x
  <2>4. AnswersOK' /\ \A m \in MessageTypes : OnTheWay(m)' => OnTheWay(m) \/ m = x
    BY <2>1, <2>3, AnswerAdds
  <2>5. Closed' /\ Announced' = Announced
    BY <2>2, ClosedKept
  <2>6. \A m \in MessageTypes : m.type = "DONE" /\ OnTheWay(m)' => m.streams = Announced
    BY <2>3, <2>4 DEF DoneInv
  <2>. QED BY <2>1, <2>4, <2>5, <2>6 DEF DoneInv
<1>10. CASE Linger(lingered)
  <2>1. NoNewDone
    BY <1>10, SameAnswers DEF Linger
  <2>2. Settled /\ main' = "returned"
    BY <1>10 DEF Linger, Return, Settled, loopVars
  <2>. QED BY <2>1, <2>2, QuietStep DEF NoNewDone
<1>11. CASE ExitPublisher
  <2>1. NoNewDone
    BY <1>11, SameAnswers DEF ExitPublisher, session
  <2>2. Settled /\ main' = "exited"
    BY <1>11 DEF ExitPublisher, Settled, loopVars
  <2>. QED BY <2>1, <2>2, QuietStep DEF NoNewDone
<1>. QED
  BY <1>1, <1>2, <1>3, <1>4, <1>5, <1>6, <1>7, <1>8, <1>9, <1>10, <1>11 DEF PublisherMain

LEMMA SubscriberAnswers ==
    ASSUME AnswersOK, NEW slept, SubscriberMain(slept) \/ ReceiveTask
    PROVE  NoNewDone
<1>. "subscribe" \in Request
  BY DEF Request
<1>1. CASE SubscribeAnswered
  <2>1. Read("subscribe", Head(answers["subscribe"]))
    BY <1>1 DEF SubscribeAnswered
  <2>. QED BY <2>1, AnyRead
<1>2. CASE RecvPublishDone
  <2>1. Read("subscribe", Head(answers["subscribe"]))
    BY <1>2 DEF RecvPublishDone
  <2>. QED BY <2>1, AnyRead
<1>3. CASE ~SubscribeAnswered /\ ~RecvPublishDone
  <2>1. UNCHANGED answers
    BY <1>3 DEF SubscriberMain, ConnectSubscriber, ReadSetup, Subscribe, SubscriberFails,
                CloseSubscriber, SubscriberEnds, ReceiveTask, TakeGroup, ReceiveEnds,
                ReadObject, EndOfGroup, session
  <2>. QED BY <2>1, SameAnswers
<1>. QED BY <1>1, <1>2, <1>3

CountInv == PublisherInv /\ AnswersOK /\ DoneInv

LEMMA CountStarts == Init => CountInv
<1>. SUFFICES ASSUME Init PROVE AnswersOK /\ DoneInv
  BY PublisherStarts DEF CountInv
<1>1. answers = [r \in Request |-> << >>] /\ main = "connect"
  BY DEF Init, SessionInit, PublisherInit
<1>. QED BY <1>1 DEF AnswersOK, DoneInv, OnTheWay

LEMMA CountKept ==
    ASSUME CountInv, [Next]_vars
    PROVE  CountInv'
<1>. PublisherInv /\ AnswersOK /\ DoneInv
  BY DEF CountInv
<1>0. PublisherInv'
  BY PublisherKept
<1>1. UNCHANGED publisher => main' = main /\ Settled
  BY DEF publisher, loopVars, Settled
<1>2. CASE StdinThread
  <2>1. UNCHANGED answers /\ main' = main /\ Settled
    BY <1>2 DEF StdinThread, StdinEnds, ReadFrame, BlockingSend, StdinStep, session, loopVars, Settled
  <2>. QED BY <2>1, <1>0, SameAnswers, QuietStep DEF NoNewDone, CountInv
<1>3. CASE Publisher
  <2>. DEFINE slept    == scenario.timely => (Flushed \/ Down("pub"))
              lingered == scenario.timely => (PublisherFlushed \/ Down("pub"))
  <2>1. slept \in BOOLEAN /\ lingered \in BOOLEAN
    OBVIOUS
  <2>2. PublisherMain(slept, lingered)
    BY <1>3 DEF Publisher
  <2>. HIDE DEF slept, lingered
  <2>. QED BY <2>1, <2>2, <1>0, MainCounts DEF CountInv
<1>4. CASE NoNewDone /\ UNCHANGED publisher
  BY <1>4, <1>0, <1>1, QuietStep DEF NoNewDone, CountInv
<1>5. Subscriber \/ ReceiveTask => NoNewDone
  BY SubscriberAnswers DEF Subscriber
<1>6. OtherAsks \/ UNCHANGED vars => UNCHANGED answers /\ UNCHANGED publisher
  BY DEF OtherAsks, Clients, vars, session
<1>7. Faults => UNCHANGED answers
  BY DEF Faults, LoseLink
<1>. QED
  BY <1>2, <1>3, <1>4, <1>5, <1>6, <1>7, RelayUnmoved, RelayAnswers, SameAnswers
     DEF Next, Running, Clients

\* CountedStreams, in pipe mode and in demo mode, whatever happens to the relay's
\* and the subscriber's side.
THEOREM Counted == Spec => []CountedStreams
<1>1. CountInv => CountedStreams
  <2>. SUFFICES ASSUME CountInv, NEW r \in Request, NEW i \in 1..Len(answers[r]),
                       answers[r][i].type = "DONE"
                PROVE  /\ answers[r][i].streams = Cardinality(Opened)
                       /\ \A g \in Opened : stream[g].st = "fin"
    BY DEF CountedStreams
  <2>1. answers[r][i] \in MessageTypes /\ OnTheWay(answers[r][i])
    BY DEF CountInv, AnswersOK, OnTheWay
  <2>. QED BY <2>1 DEF CountInv, DoneInv, Closed
<1>. QED BY <1>1, CountStarts, CountKept, PTL DEF Spec

----------------------------------------------------------------------------
(* The types of the other variables, and the bound on the channel *)

LinkOK     == link \in [Conn -> LinkState]
SetupOK    == setup \in [Conn -> [End -> SetupState]]
UniOK      == uni \in [Conn -> [End -> Seq(Group \cup {Control})]]
RequestsOK == /\ bidi \in [Conn -> [End -> Seq(Request)]]
              /\ nextId \in [Conn -> [End -> Nat]] /\ id \in [Request -> Nat \cup {None}]

WiresOK == LinkOK /\ SetupOK /\ UniOK /\ RequestsOK

\* SubscriberTypeOK as it is preserved.
ReaderOK == SubscriberTypeOK /\ (recv = "read" => reading \in Group)

ChannelOK == Len(channel) <= Room

TypeInv == CountInv /\ WiresOK /\ ReaderOK /\ RelayTypeOK /\ ChannelOK

----------------------------------------------------------------------------
(* The session's helpers *)

LEMMA Ends == "client" \in End /\ "relay" \in End /\ "pub" \in Conn /\ "sub" \in Conn
              /\ \A e \in End : Peer(e) \in End
BY DEF End, Conn, Peer

LEMMA PutAt ==
    ASSUME NEW S, NEW f \in [Conn -> [End -> S]], NEW c \in Conn, NEW e \in End, NEW x \in S
    PROVE  [f EXCEPT ![c][e] = x] \in [Conn -> [End -> S]]
<1>1. [f[c] EXCEPT ![e] = x] \in [End -> S]
  OBVIOUS
<1>. QED BY <1>1

LEMMA ClosedLink ==
    ASSUME LinkOK, NEW c \in Conn, Close(c)
    PROVE  LinkOK'
BY DEF LinkOK, Close, LinkState

LEMMA StreamTaken ==
    ASSUME UniOK, NEW c \in Conn, NEW e \in End, uni[c][e] # << >>,
           uni' = [uni EXCEPT ![c][e] = Tail(@)]
    PROVE  UniOK'
<1>1. uni[c][e] \in Seq(Group \cup {Control})
  BY DEF UniOK
<1>2. Tail(uni[c][e]) \in Seq(Group \cup {Control})
  BY <1>1
<1>3. uni' = [uni EXCEPT ![c][e] = Tail(uni[c][e])]
  BY DEF UniOK
<1>. QED BY <1>2, <1>3, PutAt DEF UniOK

LEMMA StreamOpened ==
    ASSUME UniOK, NEW c \in Conn, NEW e \in End, NEW g \in Group, OpenStream(c, e, g)
    PROVE  UniOK'
<1>1. uni[c][e] \in Seq(Group \cup {Control})
  BY DEF UniOK
<1>2. Append(uni[c][e], g) \in Seq(Group \cup {Control})
  BY <1>1
<1>3. uni' = [uni EXCEPT ![c][e] = Append(uni[c][e], g)]
  BY DEF UniOK, OpenStream
<1>. QED BY <1>2, <1>3, PutAt DEF UniOK

LEMMA SetupRead ==
    ASSUME WiresOK, NEW c \in Conn, NEW e \in End, ReadSetup(c, e)
    PROVE  WiresOK'
<1>1. Peer(e) \in End /\ "ready" \in SetupState
  BY Ends DEF SetupState
<1>2. UniOK'
  BY <1>1, StreamTaken DEF ReadSetup, WiresOK
<1>3. SetupOK'
  <2>1. setup' = [setup EXCEPT ![c][e] = "ready"]
    BY DEF ReadSetup
  <2>. QED BY <2>1, <1>1, PutAt DEF WiresOK, SetupOK
<1>4. LinkOK' /\ RequestsOK'
  BY DEF ReadSetup, WiresOK, LinkOK, RequestsOK, requests
<1>. QED BY <1>2, <1>3, <1>4 DEF WiresOK

LEMMA RequestTaken ==
    ASSUME RequestsOK, NEW c \in Conn, NEW e \in End, bidi[c][e] # << >>,
           bidi' = [bidi EXCEPT ![c][e] = Tail(@)]
    PROVE  bidi' \in [Conn -> [End -> Seq(Request)]]
<1>1. bidi[c][e] \in Seq(Request)
  BY DEF RequestsOK
<1>2. Tail(bidi[c][e]) \in Seq(Request)
  BY <1>1
<1>3. bidi' = [bidi EXCEPT ![c][e] = Tail(bidi[c][e])]
  BY DEF RequestsOK
<1>. QED BY <1>2, <1>3, PutAt DEF RequestsOK

LEMMA RequestOpened ==
    ASSUME RequestsOK, NEW r \in Request, OpenRequest(r)
    PROVE  RequestsOK'
<1>. DEFINE c == ConnOf(r)
            e == From(r)
<1>1. c \in Conn /\ e \in End
  BY DEF ConnOf, From, Conn, End
<1>2. /\ bidi' = [bidi EXCEPT ![c][e] = Append(@, r)]
      /\ id' = [id EXCEPT ![r] = nextId[c][e]] /\ nextId' = [nextId EXCEPT ![c][e] = @ + 2]
  BY DEF OpenRequest
<1>. HIDE DEF c, e
<1>3. Append(bidi[c][e], r) \in Seq(Request) /\ nextId[c][e] \in Nat /\ nextId[c][e] + 2 \in Nat
  BY <1>1 DEF RequestsOK
<1>4. /\ bidi' = [bidi EXCEPT ![c][e] = Append(bidi[c][e], r)]
      /\ nextId' = [nextId EXCEPT ![c][e] = nextId[c][e] + 2]
  BY <1>1, <1>2 DEF RequestsOK
<1>5. bidi' \in [Conn -> [End -> Seq(Request)]]
  BY <1>1, <1>3, <1>4, PutAt DEF RequestsOK
<1>6. nextId' \in [Conn -> [End -> Nat]]
  BY <1>1, <1>3, <1>4, PutAt DEF RequestsOK
<1>7. id' \in [Request -> Nat \cup {None}]
  BY <1>2, <1>3 DEF RequestsOK
<1>. QED BY <1>5, <1>6, <1>7 DEF RequestsOK

LEMMA WiresKept ==
    ASSUME WiresOK, UNCHANGED <<link, setup, uni, requests>>
    PROVE  WiresOK'
BY DEF WiresOK, LinkOK, SetupOK, UniOK, RequestsOK, requests

LEMMA WiresClosed ==
    ASSUME WiresOK, NEW c \in Conn, Close(c), UNCHANGED <<setup, uni, requests>>
    PROVE  WiresOK'
BY ClosedLink DEF WiresOK, SetupOK, UniOK, RequestsOK, requests

LEMMA WiresAsked ==
    ASSUME WiresOK, NEW r \in Request, OpenRequest(r), UNCHANGED <<link, setup, uni>>
    PROVE  WiresOK'
BY RequestOpened DEF WiresOK, LinkOK, SetupOK, UniOK

LEMMA WiresHeard ==
    ASSUME WiresOK, NEW c \in Conn, NEW e \in End, NEW r, NextRequest(c, e, r),
           UNCHANGED <<link, setup, uni, nextId, id>>
    PROVE  WiresOK'
<1>1. bidi' \in [Conn -> [End -> Seq(Request)]]
  BY Ends, RequestTaken DEF NextRequest, WiresOK
<1>. QED BY <1>1 DEF WiresOK, LinkOK, SetupOK, UniOK, RequestsOK

LEMMA WiresOpened ==
    ASSUME WiresOK, NEW c \in Conn, NEW e \in End, NEW g \in Group, OpenStream(c, e, g),
           UNCHANGED <<link, setup, requests>>
    PROVE  WiresOK'
BY StreamOpened DEF WiresOK, LinkOK, SetupOK, RequestsOK, requests

LEMMA WiresTaken ==
    ASSUME WiresOK, NEW c \in Conn, NEW e \in End, NEW g, NextStream(c, e, g),
           UNCHANGED <<link, setup, requests>>
    PROVE  WiresOK'
<1>1. UniOK'
  BY Ends, StreamTaken DEF NextStream, WiresOK
<1>. QED BY <1>1 DEF WiresOK, LinkOK, SetupOK, RequestsOK, requests

----------------------------------------------------------------------------
(* The session, one case for each action that uses it *)

LEMMA PublisherWires ==
    ASSUME WiresOK, PublisherInv, NEW slept, NEW lingered,
           StdinThread \/ PublisherMain(slept, lingered)
    PROVE  WiresOK'
<1>. "announce" \in Request
  BY DEF Request
<1>1. CASE ConnectPublisher
  BY <1>1, SetupRead, Ends DEF ConnectPublisher
<1>2. CASE PublishNamespace
  BY <1>2, WiresAsked DEF PublishNamespace
<1>3. CASE NamespaceAnswered \/ Accept
  BY <1>3, WiresKept DEF NamespaceAnswered, Accept
<1>4. ASSUME NEW r \in Upstream, TakeSubscribe(r) PROVE WiresOK'
  BY <1>4, WiresHeard, Ends DEF TakeSubscribe
<1>5. CASE PublisherFails \/ Linger(lingered)
  BY <1>5, WiresClosed, Ends DEF PublisherFails, Linger, Return
<1>6. CASE OpenSubgroup
  <2>1. groupId \in Group
    BY <1>6 DEF OpenSubgroup, PublisherInv, StreamInv
  <2>. QED BY <2>1, <1>6, WiresOpened, Ends DEF OpenSubgroup
<1>7. CASE SendPublishDone
  BY <1>7, WiresKept, WiresClosed, Ends DEF SendPublishDone, Return
<1>8. CASE UNCHANGED session
  BY <1>8, WiresKept DEF session, requests
<1>. QED
  BY <1>1, <1>2, <1>3, <1>4, <1>5, <1>6, <1>7, <1>8
     DEF StdinThread, StdinEnds, ReadFrame, BlockingSend, StdinStep, PublisherMain, RecvFrame,
         WriteFrame, ChannelClosed, WriteDemoObject, DemoSleeps, ExitPublisher

LEMMA SubscriberWires ==
    ASSUME WiresOK, NEW slept, SubscriberMain(slept) \/ ReceiveTask
    PROVE  WiresOK'
<1>. "subscribe" \in Request
  BY DEF Request
<1>1. CASE ConnectSubscriber
  BY <1>1, SetupRead, Ends DEF ConnectSubscriber
<1>2. CASE Subscribe
  BY <1>2, WiresAsked DEF Subscribe
<1>3. CASE SubscribeAnswered \/ RecvPublishDone \/ SubscriberFails \/ CloseSubscriber(slept)
  <2>1. UNCHANGED link \/ Close("sub")
    BY <1>3 DEF SubscribeAnswered, RecvPublishDone, SubscriberFails, CloseSubscriber, LeaveMain
  <2>2. UNCHANGED <<setup, uni, requests>>
    BY <1>3 DEF SubscribeAnswered, RecvPublishDone, SubscriberFails, CloseSubscriber
  <2>. QED BY <2>1, <2>2, WiresKept, WiresClosed, Ends
<1>4. ASSUME NEW g \in Stream, TakeGroup(g) PROVE WiresOK'
  BY <1>4, WiresTaken, Ends DEF TakeGroup
<1>5. CASE UNCHANGED session
  BY <1>5, WiresKept DEF session, requests
<1>. QED
  BY <1>1, <1>2, <1>3, <1>4, <1>5
     DEF SubscriberMain, SubscriberEnds, ReceiveTask, ReceiveEnds, ReadObject, EndOfGroup

LEMMA RelayWires ==
    ASSUME WiresOK, Relay
    PROVE  WiresOK'
<1>1. ASSUME NEW c \in Conn, HandleConnection(c) PROVE WiresOK'
  <2>1. CASE RelaySetup(c)
    BY <2>1, SetupRead, Ends DEF RelaySetup
  <2>2. CASE RemoveSession(c)
    BY <2>2, WiresKept DEF RemoveSession
  <2>3. CASE RegisterNamespace
    BY <2>3, WiresHeard, Ends DEF RegisterNamespace
  <2>4. ASSUME NEW g \in Group, ReceiveStream(g) PROVE WiresOK'
    BY <2>4, WiresTaken, Ends DEF ReceiveStream
  <2>5. CASE HandleSubscribe
    <3>. DEFINE left == [bidi EXCEPT !["sub"]["client"] = Tail(@)]
    <3>1. left \in [Conn -> [End -> Seq(Request)]]
      <4>1. bidi["sub"]["client"] \in Seq(Request) /\ bidi["sub"]["client"] # << >>
        BY <2>5, Ends DEF HandleSubscribe, WiresOK, RequestsOK
      <4>2. Tail(bidi["sub"]["client"]) \in Seq(Request)
        BY <4>1
      <4>3. left = [bidi EXCEPT !["sub"]["client"] = Tail(bidi["sub"]["client"])]
        BY Ends DEF WiresOK, RequestsOK
      <4>. QED BY <4>2, <4>3, PutAt, Ends DEF WiresOK, RequestsOK
    <3>2. \/ /\ id' = [id EXCEPT !["upstream"] = nextId["pub"]["relay"]]
             /\ nextId' = [nextId EXCEPT !["pub"]["relay"] = @ + 2]
             /\ bidi' = [left EXCEPT !["pub"]["relay"] = Append(@, "upstream")]
          \/ bidi' = left /\ UNCHANGED <<nextId, id>>
      BY <2>5 DEF HandleSubscribe
    <3>. HIDE DEF left
    <3>3. left["pub"]["relay"] \in Seq(Request) /\ "upstream" \in Request
      BY <3>1, Ends DEF Request, Upstream
    <3>4. Append(left["pub"]["relay"], "upstream") \in Seq(Request)
      BY <3>3
    <3>5. bidi' \in [Conn -> [End -> Seq(Request)]]
      <4>1. CASE bidi' = [left EXCEPT !["pub"]["relay"] = Append(@, "upstream")]
        <5>1. bidi' = [left EXCEPT !["pub"]["relay"] = Append(left["pub"]["relay"], "upstream")]
          BY <4>1, <3>1, Ends
        <5>. QED BY <5>1, <3>1, <3>4, PutAt, Ends
      <4>. QED BY <4>1, <3>1, <3>2
    <3>6. nextId' \in [Conn -> [End -> Nat]] /\ id' \in [Request -> Nat \cup {None}]
      <4>1. nextId["pub"]["relay"] \in Nat /\ nextId["pub"]["relay"] + 2 \in Nat
        BY Ends DEF WiresOK, RequestsOK
      <4>2. [id EXCEPT !["upstream"] = nextId["pub"]["relay"]] \in [Request -> Nat \cup {None}]
        BY <4>1 DEF WiresOK, RequestsOK
      <4>3. [nextId EXCEPT !["pub"]["relay"] = nextId["pub"]["relay"] + 2] \in [Conn -> [End -> Nat]]
        BY <4>1, PutAt, Ends DEF WiresOK, RequestsOK
      <4>4. [nextId EXCEPT !["pub"]["relay"] = @ + 2]
              = [nextId EXCEPT !["pub"]["relay"] = nextId["pub"]["relay"] + 2]
        BY Ends DEF WiresOK, RequestsOK
      <4>. QED BY <4>2, <4>3, <4>4, <3>2 DEF WiresOK, RequestsOK
    <3>7. UNCHANGED <<link, setup, uni>>
      BY <2>5 DEF HandleSubscribe
    <3>. QED BY <3>5, <3>6, <3>7 DEF WiresOK, LinkOK, SetupOK, UniOK, RequestsOK
  <2>. QED BY <1>1, <2>1, <2>2, <2>3, <2>4, <2>5 DEF HandleConnection
<1>2. ASSUME NEW u \in Upstream, HandleRequest(u) PROVE WiresOK'
  BY <1>2, WiresKept DEF HandleRequest, RecordSubscription, ForwardPublishDone, UpstreamLost, ForwardOk
<1>3. ASSUME NEW g \in Group, HandleStream(g) PROVE WiresOK'
  <2>1. CASE LookUp(g)
    <3>1. OpenStream("sub", "relay", g) \/ UNCHANGED uni
      BY <2>1 DEF LookUp
    <3>. QED BY <2>1, <3>1, WiresOpened, WiresKept, Ends DEF LookUp
  <2>2. CASE ForwardObject(g) \/ EndOfStream(g)
    BY <2>2, WiresKept DEF ForwardObject, EndOfStream, session, requests
  <2>. QED BY <1>3, <2>1, <2>2 DEF HandleStream
<1>. QED BY <1>1, <1>2, <1>3 DEF Relay

LEMMA WiresStep ==
    ASSUME WiresOK, PublisherInv, [Next]_vars
    PROVE  WiresOK'
<1>1. CASE OtherAsks
  <2>1. "other" \in Request
    BY DEF Request, Upstream
  <2>. QED BY <2>1, <1>1, WiresAsked DEF OtherAsks
<1>2. CASE Faults
  <2>1. PICK c \in scenario.breaks : LoseLink(c)
    BY <1>2 DEF Faults
  <2>2. c \in Conn
    BY DEF PublisherInv, PublisherTypeOK, Scenario
  <2>. QED BY <2>1, <2>2, WiresClosed DEF LoseLink
<1>3. CASE UNCHANGED vars
  BY <1>3, WiresKept DEF vars, session, requests
<1>. QED
  BY <1>1, <1>2, <1>3, PublisherWires, SubscriberWires, RelayWires
     DEF Next, Running, Publisher, Subscriber

----------------------------------------------------------------------------
(* moqt-sub, and what the relay writes to it *)

LEMMA ReaderKept ==
    ASSUME ReaderOK, UNCHANGED subscriber, UNCHANGED copy
    PROVE  ReaderOK'
BY DEF ReaderOK, SubscriberTypeOK, subscriber, outVars

LEMMA ReaderMain ==
    ASSUME ReaderOK, NEW slept, SubscriberMain(slept)
    PROVE  ReaderOK'
<1>1. UNCHANGED <<outVars, copy>>
  BY DEF SubscriberMain, ConnectSubscriber, Subscribe, SubscribeAnswered, RecvPublishDone,
         SubscriberFails, CloseSubscriber, SubscriberEnds, subscriber
<1>2. sub' \in SubState /\ recv' \in {recv, "next", "over"}
  BY DEF SubscriberMain, ConnectSubscriber, Subscribe, SubscribeAnswered, RecvPublishDone,
         SubscriberFails, CloseSubscriber, SubscriberEnds, LeaveMain, subscriber, SubState,
         ReaderOK, SubscriberTypeOK
<1>. QED BY <1>1, <1>2 DEF ReaderOK, SubscriberTypeOK, outVars, RecvState

LEMMA ReaderReads ==
    ASSUME ReaderOK, ReceiveTask
    PROVE  ReaderOK'
<1>1. ASSUME NEW g \in Stream, TakeGroup(g) PROVE ReaderOK'
  <2>1. g \in Group
    BY StreamAssumption
  <2>2. played' \in Seq(Group)
    BY <1>1, <2>1 DEF TakeGroup, ReaderOK, SubscriberTypeOK
  <2>. QED BY <1>1, <2>1, <2>2 DEF TakeGroup, ReaderOK, SubscriberTypeOK, RecvState
<1>2. CASE ReceiveEnds \/ EndOfGroup
  BY <1>2 DEF ReceiveEnds, EndOfGroup, ReaderOK, SubscriberTypeOK, RecvState, outVars
<1>3. CASE ReadObject
  <2>1. /\ reading \in Group /\ copy[reading].objs \in Seq(Frame) /\ got[reading] \in Nat
        /\ got[reading] < Len(copy[reading].objs) /\ out \in Seq(Frame)
        /\ got \in [Group -> Nat] /\ got' = [got EXCEPT ![reading] = @ + 1]
        /\ out' = Append(out, copy[reading].objs[got'[reading]])
    BY <1>3 DEF ReadObject, ReaderOK, SubscriberTypeOK, Written
  <2>2. got' \in [Group -> Nat] /\ got'[reading] \in 1..Len(copy[reading].objs)
    BY <2>1
  <2>3. copy[reading].objs[got'[reading]] \in Frame
    BY <2>1, <2>2
  <2>4. out' \in Seq(Frame)
    BY <2>1, <2>3
  <2>. QED BY <1>3, <2>2, <2>4 DEF ReadObject, ReaderOK, SubscriberTypeOK
<1>. QED BY <1>1, <1>2, <1>3 DEF ReceiveTask

\* The stream of a group grows by an object, opens, ends or stays.
LEMMA CopyWritten ==
    ASSUME ReaderOK, UNCHANGED subscriber, NEW g \in Group, NEW w \in Written,
           copy' = [copy EXCEPT ![g] = w]
    PROVE  ReaderOK'
<1>1. copy' \in [Group -> Written]
  BY DEF ReaderOK, SubscriberTypeOK
<1>. QED BY <1>1 DEF ReaderOK, SubscriberTypeOK, subscriber, outVars

RelayOK == ReaderOK /\ RelayTypeOK

LEMMA StreamServed ==
    ASSUME RelayOK, PublisherInv, NEW g \in Group, HandleStream(g)
    PROVE  RelayOK'
<1>. /\ copy \in [Group -> Written] /\ copy[g].objs \in Seq(Frame) /\ copy[g].st \in StreamState
     /\ stream \in [Group -> Written] /\ stream[g].objs \in Seq(Frame)
     /\ task \in [Group -> TaskState] /\ taken \in [Group -> Nat] /\ ReaderOK
  BY DEF RelayOK, ReaderOK, SubscriberTypeOK, RelayTypeOK, PublisherInv, PublisherTypeOK, Written
<1>. UNCHANGED subscriber /\ UNCHANGED relay
  BY DEF HandleStream, LookUp, ForwardObject, EndOfStream, Clients
<1>1. CASE LookUp(g)
  <2>1. ReaderOK'
    <3>1. [copy EXCEPT ![g].st = "open"] = [copy EXCEPT ![g] = [copy[g] EXCEPT !.st = "open"]]
      OBVIOUS
    <3>2. [copy[g] EXCEPT !.st = "open"] \in Written
      BY DEF Written, StreamState
    <3>3. UNCHANGED copy \/ copy' = [copy EXCEPT ![g].st = "open"]
      BY <1>1 DEF LookUp
    <3>. QED BY <3>1, <3>2, <3>3, ReaderKept, CopyWritten
  <2>2. RelayTypeOK'
    BY <1>1 DEF LookUp, RelayOK, RelayTypeOK, relay, TaskState
  <2>. QED BY <2>1, <2>2 DEF RelayOK
<1>2. CASE ForwardObject(g)
  <2>1. taken' = [taken EXCEPT ![g] = @ + 1] /\ taken[g] < Len(stream[g].objs)
    BY <1>2 DEF ForwardObject
  <2>2. taken' \in [Group -> Nat] /\ taken'[g] \in 1..Len(stream[g].objs)
    BY <2>1
  <2>3. stream[g].objs[taken'[g]] \in Frame
    BY <2>2
  <2>4. ReaderOK'
    <3>. DEFINE x == stream[g].objs[taken'[g]]
    <3>1. [copy EXCEPT ![g].objs = Append(@, x)]
            = [copy EXCEPT ![g] = [copy[g] EXCEPT !.objs = Append(@, x)]]
      OBVIOUS
    <3>2. Append(copy[g].objs, x) \in Seq(Frame)
      BY <2>3
    <3>3. [copy[g] EXCEPT !.objs = Append(@, x)] \in Written
      BY <3>2 DEF Written
    <3>4. UNCHANGED copy \/ copy' = [copy EXCEPT ![g].objs = Append(@, x)]
      BY <1>2 DEF ForwardObject
    <3>. HIDE DEF x
    <3>. QED BY <3>1, <3>3, <3>4, ReaderKept, CopyWritten
  <2>5. RelayTypeOK'
    <3>1. task' \in [Group -> TaskState]
      BY <1>2 DEF ForwardObject, TaskState
    <3>. QED BY <2>2, <3>1 DEF RelayOK, RelayTypeOK, relay
  <2>. QED BY <2>4, <2>5 DEF RelayOK
<1>3. CASE EndOfStream(g)
  <2>1. ReaderOK'
    <3>1. [copy EXCEPT ![g].st = "fin"] = [copy EXCEPT ![g] = [copy[g] EXCEPT !.st = "fin"]]
      OBVIOUS
    <3>2. [copy[g] EXCEPT !.st = "fin"] \in Written
      BY DEF Written, StreamState
    <3>3. UNCHANGED copy \/ copy' = [copy EXCEPT ![g].st = "fin"]
      BY <1>3 DEF EndOfStream
    <3>. QED BY <3>1, <3>2, <3>3, ReaderKept, CopyWritten
  <2>2. RelayTypeOK'
    BY <1>3 DEF EndOfStream, RelayOK, RelayTypeOK, relay, TaskState
  <2>. QED BY <2>1, <2>2 DEF RelayOK
<1>. QED BY <1>1, <1>2, <1>3 DEF HandleStream

LEMMA RelayTyped ==
    ASSUME RelayOK, PublisherInv, Relay
    PROVE  RelayOK'
<1>1. ASSUME NEW c \in Conn, HandleConnection(c) PROVE RelayOK'
  <2>1. ReaderOK'
    BY <1>1, ReaderKept DEF HandleConnection, RelaySetup, RemoveSession, RegisterNamespace,
       ReceiveStream, HandleSubscribe, Clients, RelayOK
  <2>2. CASE RelaySetup(c) \/ RemoveSession(c) \/ RegisterNamespace
    BY <2>1, <2>2 DEF RelaySetup, RemoveSession, RegisterNamespace, RelayOK, RelayTypeOK, relay, data
  <2>3. ASSUME NEW g \in Group, ReceiveStream(g) PROVE RelayOK'
    BY <2>1, <2>3 DEF ReceiveStream, RelayOK, RelayTypeOK, relay, TaskState
  <2>4. CASE HandleSubscribe
    <3>1. handle' \in [Upstream -> HandleState]
      BY <2>4 DEF HandleSubscribe, Goto, RelayOK, RelayTypeOK, HandleState
    <3>. QED BY <2>1, <2>4, <3>1 DEF HandleSubscribe, RelayOK, RelayTypeOK, data
  <2>. QED BY <1>1, <2>2, <2>3, <2>4 DEF HandleConnection
<1>2. ASSUME NEW u \in Upstream, HandleRequest(u) PROVE RelayOK'
  <2>1. ReaderOK'
    BY <1>2, ReaderKept DEF HandleRequest, RecordSubscription, ForwardPublishDone, UpstreamLost,
       ForwardOk, Clients, RelayOK
  <2>2. handle' \in [Upstream -> HandleState]
    BY <1>2 DEF HandleRequest, RecordSubscription, ForwardPublishDone, UpstreamLost, ForwardOk,
       Goto, RelayOK, RelayTypeOK, HandleState
  <2>3. serving' \subseteq Upstream /\ UNCHANGED <<loop, registered, data>>
    BY <1>2 DEF HandleRequest, RecordSubscription, ForwardPublishDone, UpstreamLost, ForwardOk,
       RelayOK, RelayTypeOK
  <2>. QED BY <2>1, <2>2, <2>3 DEF RelayOK, RelayTypeOK, data
<1>. QED BY <1>1, <1>2, StreamServed DEF Relay

LEMMA RelayStep ==
    ASSUME RelayOK, PublisherInv, [Next]_vars
    PROVE  RelayOK'
<1>1. CASE OtherAsks
  <2>1. ReaderOK'
    BY <1>1, ReaderKept DEF OtherAsks, Clients, RelayOK
  <2>2. handle' \in [Upstream -> HandleState]
    BY <1>1 DEF OtherAsks, Goto, RelayOK, RelayTypeOK, HandleState
  <2>. QED BY <1>1, <2>1, <2>2 DEF OtherAsks, RelayOK, RelayTypeOK, data
<1>2. CASE (Subscriber \/ ReceiveTask) /\ UNCHANGED <<relay, data>>
  BY <1>2, ReaderMain, ReaderReads DEF Subscriber, RelayOK, RelayTypeOK, relay, data
<1>3. CASE UNCHANGED <<subscriber, copy, relay, data>>
  BY <1>3, ReaderKept DEF RelayOK, RelayTypeOK, relay, data
<1>. QED BY <1>1, <1>2, <1>3, RelayTyped DEF Next, Running, Clients, vars

----------------------------------------------------------------------------
(* The channel is never fuller than it may be. *)

LEMMA ChannelStep ==
    ASSUME ChannelOK, PublisherInv, [Next]_vars
    PROVE  ChannelOK'
<1>1. channel \in Seq(Frame) /\ input \in Nat /\ Room \in Nat
  BY PublisherAssumption DEF PublisherInv, PublisherTypeOK
<1>2. CASE BlockingSend
  <2>1. UNCHANGED channel \/ (Len(channel) < Room /\ channel' = Append(channel, input))
    BY <1>2 DEF BlockingSend
  <2>2. Len(Append(channel, input)) = Len(channel) + 1
    BY <1>1
  <2>. QED BY <1>1, <2>1, <2>2 DEF ChannelOK
<1>3. CASE RecvFrame
  <2>1. channel # << >> /\ channel' = Tail(channel)
    BY <1>3 DEF RecvFrame
  <2>2. Len(channel') = Len(channel) - 1
    BY <1>1, <2>1
  <2>. QED BY <1>1, <2>2 DEF ChannelOK
<1>4. UNCHANGED publisher => ChannelOK'
  BY DEF publisher, ChannelOK
<1>5. CASE StdinEnds \/ ReadFrame
  BY <1>5 DEF StdinEnds, ReadFrame, ChannelOK
<1>6. ASSUME NEW slept, NEW lingered, PublisherMain(slept, lingered), ~RecvFrame PROVE ChannelOK'
  <2>1. UNCHANGED channel
    BY <1>6 DEF PublisherMain, ConnectPublisher, PublishNamespace, NamespaceAnswered,
       TakeSubscribe, Accept, PublisherFails, OpenSubgroup, WriteFrame, ChannelClosed,
       WriteDemoObject, DemoSleeps, SendPublishDone, Linger, ExitPublisher, publisher
  <2>. QED BY <2>1 DEF ChannelOK
<1>. QED
  BY <1>2, <1>3, <1>4, <1>5, <1>6, RelayUnmoved
     DEF Next, Running, Publisher, StdinThread, OtherAsks, Clients, vars

----------------------------------------------------------------------------
LEMMA TypesStart == Init => TypeInv
<1>. SUFFICES ASSUME Init PROVE WiresOK /\ ReaderOK /\ RelayTypeOK /\ ChannelOK
  BY CountStarts DEF TypeInv
<1>1. WiresOK
  <2>. PICK used : SessionInit(used)
    BY DEF Init
  <2>1. LinkOK /\ SetupOK
    BY DEF SessionInit, LinkOK, SetupOK, LinkState, SetupState
  <2>2. <<Control>> \in Seq(Group \cup {Control}) /\ << >> \in Seq(Group \cup {Control})
    OBVIOUS
  <2>3. UniOK
    BY <2>2 DEF SessionInit, UniOK
  <2>4. RequestsOK
    BY DEF SessionInit, RequestsOK, FirstId
  <2>. QED BY <2>1, <2>3, <2>4 DEF WiresOK
<1>2. ReaderOK
  <2>1. NoCopy \in Written
    BY DEF NoCopy, Written, StreamState
  <2>. QED BY <2>1, StreamAssumption
           DEF Init, SubscriberInit, ReaderOK, SubscriberTypeOK, SubState, RecvState
<1>3. RelayTypeOK
  BY DEF Init, RelayTypeOK, HandleState, TaskState
<1>4. ChannelOK
  BY PublisherAssumption DEF Init, PublisherInit, ChannelOK
<1>. QED BY <1>1, <1>2, <1>3, <1>4

LEMMA TypesKept == TypeInv /\ [Next]_vars => TypeInv'
BY CountKept, WiresStep, RelayStep, ChannelStep DEF TypeInv, CountInv, RelayOK

\* TypeOK: the types of all variables, that a group is opened only if a frame is
\* there for it, and that the channel is never fuller than it may be.
THEOREM TypesCorrect == Spec => []TypeOK
<1>1. TypeInv => TypeOK
  BY DEF TypeInv, CountInv, PublisherInv, StreamInv, WiresOK, LinkOK, SetupOK, UniOK,
         RequestsOK, ReaderOK, ChannelOK, AnswersOK, TypeOK, SessionTypeOK
<1>. QED BY <1>1, TypesStart, TypesKept, PTL DEF Spec

----------------------------------------------------------------------------
(* What moqt-sub puts out: the inductive invariant *)

Distinct(s) == \A i, j \in 1..Len(s) : s[i] = s[j] => i = j

PrefixOf(s, t) == Len(s) <= Len(t) /\ \A i \in 1..Len(s) : s[i] = t[i]

\* The relay has opened a stream to moqt-sub for the group, or decided against it.
LookedUp(g) == task[g] \in {"copy", "drain", "over"}

\* A copy has the first objects of its stream, and as many as the relay has taken
\* while it copies.  Only a lost publisher ends one before its stream.
CopyOK(g) ==
    /\ ~LookedUp(g) => copy[g] = NoCopy /\ taken[g] = 0
    /\ task[g] = "copy" => copy[g].st = "open" /\ Len(copy[g].objs) = taken[g]
    /\ PrefixOf(copy[g].objs, Objs(g))
    /\ copy[g].st = "fin" /\ Up("pub") =>
           stream[g].st = "fin" /\ Len(copy[g].objs) = Len(Objs(g))

CopyInv == \A g \in Group : CopyOK(g)

Among(x, s) == \E i \in 1..Len(s) : s[i] = x

\* A group is opened once by moqt-pub, and its copy once by the relay.
OpenedOnce ==
    /\ Distinct(uni["pub"]["client"])
    /\ \A g \in Group :
           Among(g, uni["pub"]["client"]) => task[g] = "none" /\ stream[g].st # "none"

Taken(g) == Among(g, played)

CopiedOnce ==
    /\ Distinct(uni["sub"]["relay"])
    /\ \A g \in Group : Among(g, uni["sub"]["relay"]) => LookedUp(g) /\ ~Taken(g)

QueueInv ==
    /\ \A g \in Group : task[g] # "none" => stream[g].st # "none"
    /\ OpenedOnce
    /\ CopiedOnce

\* The group that is read is the last one taken; of the groups not taken nothing
\* is read.
ReadInv ==
    /\ Distinct(played)
    /\ \A g \in Group : Taken(g) => LookedUp(g)
    /\ \A g \in Group : ~Taken(g) => got[g] = 0
    /\ \A g \in Group : got[g] <= Len(copy[g].objs)
    /\ recv = "off" => played = << >>
    /\ sub \in {"connect", "subscribe"} => recv = "off"
    /\ recv = "read" => played # << >> /\ reading = played[Len(played)]

\* What was read of each group taken.
Pieces == [i \in 1..Len(played) |-> SubSeq(Objs(played[i]), 1, got[played[i]])]

OutInv == out = FlattenSeq(Pieces)

\* The group is done with: its stream is over, and all of it is read.
Finished(g) == stream[g].st = "fin" /\ got[g] = Len(Objs(g))

\* Only the last group taken may still be read.
Whole ==
    \A i \in 1..Len(played) : (recv = "read" /\ i = Len(played)) \/ Finished(played[i])

WholeInv == Undisturbed => Whole

PlayInv == TypeInv /\ CopyInv /\ QueueInv /\ ReadInv /\ OutInv /\ WholeInv

----------------------------------------------------------------------------
(* Streams only grow, and a connection that is down stays down. *)

\* What was written of a group stays, and a group that is over stays as it is.
Grown(g) ==
    /\ PrefixOf(Objs(g), Objs(g)')
    /\ stream[g].st # "none" => stream'[g].st # "none"
    /\ stream[g].st = "fin" => stream'[g] = stream[g]

\* Nothing is written.
LEMMA SameGrown ==
    ASSUME UNCHANGED stream, NEW g \in Group
    PROVE  Grown(g)
BY DEF Grown, PrefixOf, Objs

\* The stream of one group ends, opens or gets an object.
LEMMA OneGrown ==
    ASSUME PublisherTypeOK, NEW h \in Group, stream[h].st # "fin",
           \/ stream' = [stream EXCEPT ![h].st = "fin"]
           \/ stream' = [stream EXCEPT ![h].st = "open"]
           \/ \E x \in Frame, st \in {"open", "fin"} :
                 stream' = [stream EXCEPT ![h] = [st |-> st, objs |-> Append(stream[h].objs, x)]],
           NEW g \in Group
    PROVE  Grown(g)
<1>1. stream[g] \in Written /\ stream[h] \in Written /\ DOMAIN stream = Group
  BY DEF PublisherTypeOK
<1>2. CASE g # h
  <2>1. stream'[g] = stream[g]
    BY <1>1, <1>2
  <2> QED BY <2>1 DEF Grown, PrefixOf, Objs
<1>3. CASE stream' = [stream EXCEPT ![h].st = "fin"] \/ stream' = [stream EXCEPT ![h].st = "open"]
  <2>1. stream'[g].objs = stream[g].objs
    BY <1>1, <1>3 DEF Written
  <2>2. g = h => stream'[g].st # "none"
    BY <1>1, <1>3 DEF Written
  <2> QED BY <1>2, <2>1, <2>2 DEF Grown, PrefixOf, Objs
<1>4. ASSUME NEW x \in Frame, NEW st \in {"open", "fin"}, g = h,
             stream' = [stream EXCEPT ![h] = [st |-> st, objs |-> Append(stream[h].objs, x)]]
      PROVE  Grown(g)
  <2>1. stream'[g].st # "none" /\ stream'[g].objs = Append(stream[g].objs, x)
    BY <1>1, <1>4
  <2>2. stream[g].objs \in Seq(Frame)
    BY <1>1 DEF Written
  <2>3. PrefixOf(stream[g].objs, Append(stream[g].objs, x))
    BY <2>2 DEF PrefixOf
  <2> QED BY <1>4, <2>1, <2>3 DEF Grown, Objs
<1> QED BY <1>2, <1>3, <1>4

\* moqt-pub finishes a stream only when it is open, and writes to open ones only.
LEMMA PublisherGrows ==
    ASSUME PublisherInv, NEW slept, NEW lingered, StdinThread \/ PublisherMain(slept, lingered),
           NEW g \in Group
    PROVE  Grown(g)
<1> PublisherTypeOK /\ StreamInv
  BY DEF PublisherInv
<1>1. stream \in [Group -> Written] /\ currentGroup \in Group \cup {None}
      /\ \A h \in Group : Objs(h) \in Seq(Frame)
  BY DEF PublisherTypeOK, Written, Objs
<1>2. CASE FinishCurrent
  <2>1. CASE currentGroup = None
    BY <1>2, <2>1, SameGrown DEF FinishCurrent
  <2>2. CASE currentGroup # None
    <3>1. currentGroup \in Group /\ stream[currentGroup].st = "open"
      BY <1>1, <2>2 DEF StreamInv
    <3>2. stream' = [stream EXCEPT ![currentGroup].st = "fin"]
      BY <1>2, <2>2 DEF FinishCurrent
    <3> QED BY <3>1, <3>2, OneGrown
  <2> QED BY <2>1, <2>2
<1>3. CASE OpenSubgroup
  <2>1. /\ groupId \in Group /\ stream[groupId] = NoStream
        /\ stream' = [stream EXCEPT ![groupId].st = "open"]
    BY <1>3 DEF OpenSubgroup, StreamInv
  <2>2. stream[groupId].st # "fin"
    BY <2>1 DEF NoStream
  <2> QED BY <2>1, <2>2, OneGrown
<1>4. CASE WriteFrame
  <2>1. /\ currentGroup = groupId /\ frame \in Frame
        /\ stream' = [stream EXCEPT ![currentGroup].objs = Append(@, frame)]
    BY <1>4 DEF WriteFrame, StreamInv, PublisherInv, PipeInv, PublisherTypeOK, InHand, Frame
  <2>2. currentGroup \in Group /\ stream[currentGroup].st = "open"
    BY <1>1, <2>1, NoneAssumption DEF StreamInv, PublisherTypeOK
  <2>3. [stream EXCEPT ![currentGroup].objs = Append(@, frame)]
          = [stream EXCEPT ![currentGroup] =
               [st |-> "open", objs |-> Append(stream[currentGroup].objs, frame)]]
    <3> DEFINE w == stream[currentGroup]
               objs == Append(w.objs, frame)
    <3>1. w \in Written /\ w.st = "open"
      BY <1>1, <2>2
    <3>2. [w EXCEPT !.objs = objs] = [st |-> "open", objs |-> objs]
      BY <3>1 DEF Written
    <3>3. [stream EXCEPT ![currentGroup].objs = Append(@, frame)]
            = [stream EXCEPT ![currentGroup] = [w EXCEPT !.objs = objs]]
      BY <1>1, <2>2
    <3> QED BY <3>2, <3>3
  <2> QED BY <2>1, <2>2, <2>3, OneGrown
<1>5. CASE WriteDemoObject
  <2> DEFINE objs == Append(stream[groupId].objs, frame')
             st == IF Len(objs) = DemoObjects THEN "fin" ELSE "open"
  <2>1. /\ currentGroup = groupId /\ frame' = frame + 1
        /\ stream' = [stream EXCEPT ![groupId] = [st |-> st, objs |-> objs]]
    BY <1>5 DEF WriteDemoObject, StreamInv
  <2>2. groupId \in Group /\ stream[groupId].st = "open"
    BY <1>1, <2>1, NoneAssumption DEF StreamInv, PublisherTypeOK
  <2>3. frame' \in Frame
    <3>1. frame < groupId * DemoObjects + DemoObjects /\ frame \in Nat /\ groupId \in Nat
      BY <1>1, <1>5, <2>2, PublisherAssumption
         DEF WriteDemoObject, PublisherInv, DemoInv, PublisherTypeOK, Group
    <3>2. groupId * DemoObjects + DemoObjects <= MaxFrames
      BY <1>5, <3>1, DemoFits DEF WriteDemoObject, PublisherInv, DemoInv
    <3>3. groupId * DemoObjects \in Nat /\ DemoObjects \in Nat /\ MaxFrames \in Nat
      BY <3>1, PublisherAssumption
    <3> QED BY <2>1, <3>1, <3>2, <3>3 DEF Frame
  <2>4. st \in {"open", "fin"}
    OBVIOUS
  <2> HIDE DEF st
  <2> QED BY <2>1, <2>2, <2>3, <2>4, OneGrown
<1>6. CASE UNCHANGED stream
  BY <1>6, SameGrown
<1> QED BY <1>2, <1>3, <1>4, <1>5, <1>6
        DEF StdinThread, StdinEnds, ReadFrame, BlockingSend, StdinStep, PublisherMain,
            ConnectPublisher, PublishNamespace, NamespaceAnswered, TakeSubscribe, Accept,
            PublisherFails, RecvFrame, ChannelClosed, DemoSleeps, SendPublishDone, Linger,
            ExitPublisher, publisher, loopVars

\* No other step writes to them.
LEMMA StreamsGrow ==
    ASSUME PublisherInv, [Next]_vars
    PROVE  \A g \in Group : Grown(g)
<1>1. CASE UNCHANGED publisher
  BY <1>1, SameGrown DEF publisher, loopVars
<1>2. UNCHANGED vars => UNCHANGED publisher
  BY DEF vars
<1> QED BY <1>1, <1>2, PublisherGrows, RelayUnmoved
        DEF Next, Running, Publisher, OtherAsks, Clients

\* No step brings a connection up.
LEMMA LinksFall ==
    ASSUME LinkOK, PublisherTypeOK, [Next]_vars, NEW c \in Conn, Up(c)'
    PROVE  Up(c)
<1>1. ASSUME NEW d \in Conn, Close(d) PROVE Up(c)
  BY <1>1 DEF Close, LinkOK, Up
<1>2. CASE UNCHANGED link
  BY <1>2 DEF Up
<1>3. ASSUME NEW d \in scenario.breaks, LoseLink(d) PROVE Up(c)
  <2>1. d \in Conn
    BY DEF PublisherTypeOK, Scenario
  <2> QED BY <1>1, <1>3, <2>1 DEF LoseLink
<1>4. ASSUME NEW slept, NEW lingered, StdinThread \/ PublisherMain(slept, lingered) PROVE Up(c)
  BY <1>1, <1>2, <1>4, Ends
     DEF StdinThread, StdinEnds, ReadFrame, BlockingSend, StdinStep, PublisherMain,
         ConnectPublisher, PublishNamespace, NamespaceAnswered, TakeSubscribe, Accept,
         PublisherFails, RecvFrame, OpenSubgroup, WriteFrame, ChannelClosed, WriteDemoObject,
         DemoSleeps, SendPublishDone, Linger, ExitPublisher, Return, ReadSetup, session
<1>5. ASSUME NEW slept, SubscriberMain(slept) \/ ReceiveTask PROVE Up(c)
  BY <1>1, <1>2, <1>5, Ends
     DEF SubscriberMain, ConnectSubscriber, Subscribe, SubscribeAnswered, RecvPublishDone,
         SubscriberFails, CloseSubscriber, SubscriberEnds, LeaveMain, ReceiveTask, TakeGroup,
         ReceiveEnds, ReadObject, EndOfGroup, ReadSetup, session
<1>6. CASE Relay
  BY <1>2, <1>6
     DEF Relay, HandleConnection, RelaySetup, RemoveSession, RegisterNamespace, ReceiveStream,
         HandleSubscribe, HandleRequest, RecordSubscription, ForwardPublishDone, UpstreamLost,
         ForwardOk, HandleStream, LookUp, ForwardObject, EndOfStream, ReadSetup, session
<1>7. CASE OtherAsks \/ UNCHANGED vars
  BY <1>2, <1>7 DEF OtherAsks, vars, session
<1> QED BY <1>3, <1>4, <1>5, <1>6, <1>7 DEF Next, Running, Publisher, Subscriber, Faults

----------------------------------------------------------------------------
(* The copies *)

\* The first element is one of the elements.
LEMMA HeadAmong ==
    ASSUME NEW X, NEW s \in Seq(X), s # << >>
    PROVE  Among(Head(s), s)
<1>1. 1 \in 1..Len(s) /\ s[1] = Head(s)
  OBVIOUS
<1> QED BY <1>1 DEF Among

\* A prefix stays one when the whole grows.
LEMMA PrefixTrans ==
    ASSUME NEW X, NEW r \in Seq(X), NEW s \in Seq(X), NEW t \in Seq(X),
           PrefixOf(r, s), PrefixOf(s, t)
    PROVE  PrefixOf(r, t)
<1>1. Len(r) <= Len(s) /\ Len(s) <= Len(t) /\ Len(r) \in Nat /\ Len(s) \in Nat /\ Len(t) \in Nat
  BY DEF PrefixOf
<1>2. \A i \in 1..Len(r) : i \in 1..Len(s)
  BY <1>1
<1> QED BY <1>1, <1>2 DEF PrefixOf

\* The types of what is written and copied.
StreamTypes ==
    /\ stream \in [Group -> Written] /\ copy \in [Group -> Written]
    /\ taken \in [Group -> Nat] /\ task \in [Group -> TaskState]

\* The types of what is on its way from moqt-pub to moqt-sub.
LEMMA StreamsTyped == TypeInv => StreamTypes
BY DEF TypeInv, CountInv, PublisherInv, PublisherTypeOK, ReaderOK, SubscriberTypeOK, RelayTypeOK,
       StreamTypes

\* The relay's task stands still.
LEMMA CopyKept ==
    ASSUME StreamTypes, StreamTypes', NEW g \in Group, CopyOK(g), Grown(g), Up("pub")' => Up("pub"),
           copy'[g] = copy[g], taken'[g] = taken[g], LookedUp(g)' <=> LookedUp(g),
           task'[g] = "copy" <=> task[g] = "copy"
    PROVE  CopyOK(g)'
<1>1. /\ Objs(g) \in Seq(Frame) /\ Objs(g)' \in Seq(Frame) /\ copy[g].objs \in Seq(Frame)
  BY DEF StreamTypes, Written, Objs
<1>2. PrefixOf(copy[g].objs, Objs(g)')
  BY <1>1, PrefixTrans DEF CopyOK, Grown
<1>3. copy[g].st = "fin" /\ Up("pub")' =>
          stream'[g].st = "fin" /\ Len(copy[g].objs) = Len(Objs(g)')
  BY DEF CopyOK, Grown, Objs
<1> QED BY <1>2, <1>3 DEF CopyOK

\* The task of one group makes a step.
LEMMA CopyServed ==
    ASSUME StreamTypes, CopyInv, NEW g \in Group, HandleStream(g)
    PROVE  CopyInv'
<1>1. UNCHANGED <<stream, link>>
  BY DEF HandleStream, LookUp, ForwardObject, EndOfStream, Clients, publisher, loopVars, session
<1>2. \A h \in Group : h # g => UNCHANGED <<copy[h], taken[h], task[h]>>
  BY DEF HandleStream, LookUp, ForwardObject, EndOfStream, data, StreamTypes
<1>3. ASSUME NEW h \in Group, h # g PROVE CopyOK(h)'
  BY <1>1, <1>2, <1>3 DEF CopyInv, CopyOK, LookedUp, PrefixOf, Objs, Up
<1>4. CopyOK(g)'
  <2>1. /\ CopyOK(g) /\ copy[g] \in Written /\ copy[g].objs \in Seq(Frame)
        /\ Objs(g) \in Seq(Frame) /\ Objs(g)' = Objs(g) /\ taken[g] \in Nat
    BY <1>1 DEF CopyInv, StreamTypes, Written, Objs
  <2>2. CASE LookUp(g)
    <3>1. copy[g] = NoCopy /\ taken[g] = 0 /\ UNCHANGED taken
      BY <2>1, <2>2 DEF LookUp, CopyOK, LookedUp
    <3>2. \/ /\ copy'[g] = [copy[g] EXCEPT !.st = "open"]
             /\ task'[g] = "copy"
          \/ copy'[g] = copy[g] /\ task'[g] = "drain"
      BY <2>2 DEF LookUp, StreamTypes
    <3>3. copy'[g].objs = << >> /\ (task'[g] = "copy" => copy'[g].st = "open")
          /\ copy'[g].st # "fin" /\ LookedUp(g)'
      BY <3>1, <3>2 DEF NoCopy, LookedUp
    <3> QED BY <2>1, <3>1, <3>3 DEF CopyOK, PrefixOf
  <2>3. CASE ForwardObject(g)
    <3>1. task[g] = "copy" /\ taken[g] < Len(Objs(g)) /\ taken'[g] = taken[g] + 1
      BY <2>3 DEF ForwardObject, Objs, StreamTypes
    <3>2. CASE Up("sub")
      <4> DEFINE x == Objs(g)[taken[g] + 1]
      <4>1. copy'[g] = [copy[g] EXCEPT !.objs = Append(copy[g].objs, x)] /\ task'[g] = "copy"
        BY <2>3, <3>1, <3>2 DEF ForwardObject, Objs, StreamTypes
      <4>2. x \in Frame
        BY <2>1, <3>1
      <4>3. copy'[g].objs = Append(copy[g].objs, x) /\ copy'[g].st = copy[g].st
        BY <2>1, <4>1 DEF Written
      <4>4. copy[g].st = "open" /\ Len(copy[g].objs) = taken[g]
        BY <2>1, <3>1 DEF CopyOK
      <4>5. PrefixOf(Append(copy[g].objs, x), Objs(g))
        <5> HIDE DEF x
        <5>1. Len(Append(copy[g].objs, x)) = taken[g] + 1
          BY <2>1, <4>2, <4>4
        <5>2. ASSUME NEW i \in 1..(taken[g] + 1)
              PROVE  Append(copy[g].objs, x)[i] = Objs(g)[i]
          <6>1. CASE i = taken[g] + 1
            BY <2>1, <4>2, <4>4, <6>1 DEF x
          <6>2. CASE i # taken[g] + 1
            <7>1. i \in 1..Len(copy[g].objs)
              BY <2>1, <4>4, <6>2
            <7> QED BY <2>1, <4>2, <7>1 DEF CopyOK, PrefixOf
          <6> QED BY <6>1, <6>2
        <5> QED BY <2>1, <3>1, <5>1, <5>2 DEF PrefixOf
      <4>6. Len(copy'[g].objs) = taken'[g]
        BY <2>1, <3>1, <4>2, <4>3, <4>4
      <4>7. LookedUp(g)'
        BY <4>1 DEF LookedUp
      <4> QED BY <2>1, <4>1, <4>3, <4>4, <4>5, <4>6, <4>7 DEF CopyOK
    <3>3. CASE ~Up("sub")
      <4>1. UNCHANGED copy /\ task'[g] = "drain"
        BY <2>3, <3>3 DEF ForwardObject, StreamTypes
      <4> QED BY <1>1, <2>1, <4>1 DEF CopyOK, LookedUp, Up
    <3> QED BY <3>2, <3>3
  <2>4. CASE EndOfStream(g)
    <3>1. task'[g] = "over" /\ task[g] \in {"copy", "drain"}
      BY <2>4 DEF EndOfStream, StreamTypes
    <3>2. CASE task[g] = "copy" /\ Up("sub")
      <4>1. copy'[g].objs = copy[g].objs
        BY <2>1, <2>4, <3>2 DEF EndOfStream, Written, StreamTypes
      <4>2. Up("pub") => stream[g].st = "fin" /\ taken[g] = Len(Objs(g))
        BY <2>4, <3>2 DEF EndOfStream, AtEnd, Up, Down, Objs
      <4>3. Len(copy[g].objs) = taken[g]
        BY <2>1, <3>2 DEF CopyOK
      <4> QED BY <1>1, <2>1, <3>1, <4>1, <4>2, <4>3 DEF CopyOK, LookedUp, Up
    <3>3. CASE ~(task[g] = "copy" /\ Up("sub"))
      <4>1. UNCHANGED copy
        BY <2>4, <3>3 DEF EndOfStream
      <4> QED BY <1>1, <2>1, <3>1, <4>1 DEF CopyOK, LookedUp, Up
    <3> QED BY <3>2, <3>3
  <2> QED BY <2>2, <2>3, <2>4 DEF HandleStream
<1> QED BY <1>3, <1>4 DEF CopyInv

\* The relay takes the stream of a group from the queue once.
LEMMA ReceivedOnce ==
    ASSUME UniOK, OpenedOnce, NEW g \in Group, ReceiveStream(g)
    PROVE  task[g] = "none" /\ stream[g].st # "none"
<1> DEFINE q == uni["pub"]["client"]
<1>1. q \in Seq(Group \cup {Control}) /\ q # << >> /\ g = Head(q)
  BY Ends DEF ReceiveStream, NextStream, UniOK, Peer
<1>2. Among(g, q)
  BY <1>1, HeadAmong
<1> QED BY <1>2 DEF OpenedOnce

\* Every step keeps the copies right.
LEMMA CopyStep ==
    ASSUME TypeInv, TypeInv', CopyInv, OpenedOnce, [Next]_vars
    PROVE  CopyInv'
<1> StreamTypes /\ PublisherInv /\ LinkOK /\ UniOK /\ PublisherTypeOK
  BY StreamsTyped DEF TypeInv, CountInv, PublisherInv, WiresOK
<1> StreamTypes'
  BY StreamsTyped, PTL
<1>1. \A g \in Group : Grown(g)
  BY StreamsGrow
<1>2. Up("pub")' => Up("pub")
  BY LinksFall, Ends
<1>3. ASSUME UNCHANGED copy, UNCHANGED taken,
             \A g \in Group : task'[g] = task[g] \/ {task[g], task'[g]} = {"none", "lookup"}
      PROVE  CopyInv'
  <2>1. ASSUME NEW g \in Group PROVE CopyOK(g)'
    <3>1. (LookedUp(g)' <=> LookedUp(g)) /\ (task'[g] = "copy" <=> task[g] = "copy")
      BY <1>3 DEF LookedUp
    <3> QED BY <1>1, <1>2, <1>3, <3>1, CopyKept DEF CopyInv
  <2> QED BY <2>1 DEF CopyInv
<1>4. CASE UNCHANGED <<copy, data>>
  BY <1>3, <1>4 DEF data
<1>5. ASSUME NEW g \in Group, ReceiveStream(g) PROVE CopyInv'
  <2>1. task[g] = "none"
    BY <1>5, ReceivedOnce
  <2> QED BY <1>3, <1>5, <2>1 DEF ReceiveStream, StreamTypes
<1>6. ASSUME NEW c \in Conn, HandleConnection(c) PROVE CopyInv'
  BY <1>4, <1>5, <1>6 DEF HandleConnection, RelaySetup, RemoveSession, RegisterNamespace,
     HandleSubscribe
<1>7. ASSUME NEW u \in Upstream, HandleRequest(u) PROVE CopyInv'
  BY <1>4, <1>7 DEF HandleRequest, RecordSubscription, ForwardPublishDone, UpstreamLost, ForwardOk
<1>8. CASE (Subscriber \/ ReceiveTask) /\ UNCHANGED data
  <2>1. UNCHANGED copy
    BY <1>8 DEF Subscriber, SubscriberMain, ConnectSubscriber, Subscribe, SubscribeAnswered,
       RecvPublishDone, SubscriberFails, CloseSubscriber, SubscriberEnds, ReceiveTask, TakeGroup,
       ReceiveEnds, ReadObject, EndOfGroup
  <2> QED BY <1>4, <1>8, <2>1
<1> QED BY <1>4, <1>6, <1>7, <1>8, CopyServed DEF Next, Running, Relay, OtherAsks, vars

----------------------------------------------------------------------------
(* The queues of streams *)

\* Taking the first element of a sequence without repetitions.
LEMMA DistinctTail ==
    ASSUME NEW X, NEW s \in Seq(X), s # << >>, Distinct(s)
    PROVE  /\ Distinct(Tail(s))
           /\ \A x : Among(x, Tail(s)) => Among(x, s) /\ x # Head(s)
<1>1. Len(s) \in Nat /\ Len(s) > 0 /\ Len(Tail(s)) = Len(s) - 1
  OBVIOUS
<1>2. ASSUME NEW i \in 1..Len(Tail(s))
      PROVE  i + 1 \in 1..Len(s) /\ Tail(s)[i] = s[i + 1]
  <2>1. i \in 1..(Len(s) - 1)
    BY <1>1
  <2> QED BY <1>1, <2>1
<1>3. 1 \in 1..Len(s) /\ Head(s) = s[1]
  BY <1>1
<1>4. ASSUME NEW i \in 1..Len(Tail(s)) PROVE Tail(s)[i] # Head(s)
  <2>1. i + 1 # 1 /\ i \in Nat
    BY <1>1
  <2> QED BY <1>2, <1>3, <2>1 DEF Distinct
<1>5. ASSUME NEW i \in 1..Len(Tail(s)), NEW j \in 1..Len(Tail(s)), Tail(s)[i] = Tail(s)[j]
      PROVE  i = j
  <2>1. i + 1 = j + 1
    BY <1>2, <1>5 DEF Distinct
  <2>2. i \in Nat /\ j \in Nat
    BY <1>1
  <2> QED BY <2>1, <2>2
<1>6. ASSUME NEW x, Among(x, Tail(s)) PROVE Among(x, s) /\ x # Head(s)
  BY <1>2, <1>4, <1>6 DEF Among
<1> QED BY <1>5, <1>6 DEF Distinct

\* The elements of a sequence with one more.
LEMMA AmongAppend ==
    ASSUME NEW X, NEW s \in Seq(X), NEW x \in X
    PROVE  \A y : Among(y, Append(s, x)) <=> Among(y, s) \/ y = x
<1> DEFINE t == Append(s, x)
<1>1. Len(s) \in Nat /\ Len(t) = Len(s) + 1 /\ t[Len(s) + 1] = x
      /\ \A i \in 1..Len(s) : t[i] = s[i]
  OBVIOUS
<1> HIDE DEF t
<1>2. \A i \in 1..Len(t) : i = Len(s) + 1 \/ i \in 1..Len(s)
  BY <1>1
<1>3. Len(s) + 1 \in 1..Len(t) /\ \A i \in 1..Len(s) : i \in 1..Len(t)
  BY <1>1
<1>4. ASSUME NEW y, Among(y, t) PROVE Among(y, s) \/ y = x
  BY <1>1, <1>2, <1>4 DEF Among
<1>5. ASSUME NEW y, Among(y, s) \/ y = x PROVE Among(y, t)
  BY <1>1, <1>3, <1>5 DEF Among
<1> QED BY <1>4, <1>5 DEF t

\* Adding an element that is not there yet.
LEMMA DistinctAppend ==
    ASSUME NEW X, NEW s \in Seq(X), NEW x \in X, Distinct(s), ~Among(x, s)
    PROVE  Distinct(Append(s, x))
<1> DEFINE t == Append(s, x)
<1>1. Len(s) \in Nat /\ Len(t) = Len(s) + 1 /\ t[Len(s) + 1] = x
      /\ \A i \in 1..Len(s) : t[i] = s[i]
  OBVIOUS
<1> HIDE DEF t
<1>2. \A i \in 1..Len(t) : i = Len(s) + 1 \/ i \in 1..Len(s)
  BY <1>1
<1>3. ASSUME NEW i \in 1..Len(t), NEW j \in 1..Len(t), t[i] = t[j] PROVE i = j
  BY <1>1, <1>2, <1>3 DEF Distinct, Among
<1> QED BY <1>3 DEF Distinct, t

\* moqt-pub's queue, when it loses its first element or none.
LEMMA OpenedKept ==
    ASSUME UniOK, OpenedOnce, \A g \in Group : Grown(g),
           \/ uni'["pub"]["client"] = uni["pub"]["client"] /\ UNCHANGED task
           \/ /\ uni["pub"]["client"] # << >>
              /\ uni'["pub"]["client"] = Tail(uni["pub"]["client"])
              /\ \A g \in Group : g # Head(uni["pub"]["client"]) => task'[g] = task[g]
    PROVE  OpenedOnce'
<1> DEFINE q == uni["pub"]["client"]
<1>1. q \in Seq(Group \cup {Control}) /\ Distinct(q)
  BY Ends DEF UniOK, OpenedOnce
<1>2. \A g \in Group : Among(g, q) => task[g] = "none" /\ stream'[g].st # "none"
  BY DEF OpenedOnce, Grown
<1>3. CASE uni'["pub"]["client"] = q /\ UNCHANGED task
  BY <1>1, <1>2, <1>3 DEF OpenedOnce
<1>4. CASE /\ q # << >> /\ uni'["pub"]["client"] = Tail(q)
           /\ \A g \in Group : g # Head(q) => task'[g] = task[g]
  <2>1. Distinct(Tail(q)) /\ \A g : Among(g, Tail(q)) => Among(g, q) /\ g # Head(q)
    BY <1>1, <1>4, DistinctTail
  <2>2. \A g \in Group : Among(g, Tail(q)) => task'[g] = "none" /\ stream'[g].st # "none"
    BY <1>2, <1>4, <2>1
  <2> QED BY <1>4, <2>1, <2>2 DEF OpenedOnce
<1> QED BY <1>3, <1>4

\* The relay's queue, when it loses its first element, which may have been taken,
\* or none.
LEMMA CopiedKept ==
    ASSUME UniOK, played \in Seq(Group), CopiedOnce,
           \A g \in Group : LookedUp(g) => LookedUp(g)',
           \/ uni'["sub"]["relay"] = uni["sub"]["relay"] /\ UNCHANGED played
           \/ /\ uni["sub"]["relay"] # << >>
              /\ uni'["sub"]["relay"] = Tail(uni["sub"]["relay"])
              /\ \/ UNCHANGED played
                 \/ /\ Head(uni["sub"]["relay"]) \in Group
                    /\ played' = Append(played, Head(uni["sub"]["relay"]))
    PROVE  CopiedOnce'
<1> DEFINE q == uni["sub"]["relay"]
<1>1. q \in Seq(Group \cup {Control}) /\ Distinct(q)
  BY Ends DEF UniOK, CopiedOnce
<1>2. \A g \in Group : Among(g, q) => LookedUp(g)' /\ ~Taken(g)
  BY DEF CopiedOnce
<1>3. CASE uni'["sub"]["relay"] = q /\ UNCHANGED played
  BY <1>1, <1>2, <1>3 DEF CopiedOnce, Taken
<1>4. CASE /\ q # << >> /\ uni'["sub"]["relay"] = Tail(q)
           /\ \/ UNCHANGED played
              \/ Head(q) \in Group /\ played' = Append(played, Head(q))
  <2>1. Distinct(Tail(q)) /\ \A g : Among(g, Tail(q)) => Among(g, q) /\ g # Head(q)
    BY <1>1, <1>4, DistinctTail
  <2>2. \A g : Among(g, played') => Taken(g) \/ g = Head(q)
    <3> HIDE DEF q
    <3>1. CASE UNCHANGED played
      BY <3>1 DEF Taken
    <3>2. CASE Head(q) \in Group /\ played' = Append(played, Head(q))
      <4>1. \A g : Among(g, Append(played, Head(q))) <=> Among(g, played) \/ g = Head(q)
        BY <3>2, AmongAppend
      <4> QED BY <3>2, <4>1 DEF Taken
    <3> QED BY <1>4, <3>1, <3>2
  <2>3. \A g \in Group : Among(g, Tail(q)) => LookedUp(g)' /\ ~Among(g, played')
    BY <1>2, <2>1, <2>2
  <2> QED BY <1>4, <2>1, <2>3 DEF CopiedOnce, Taken
<1> QED BY <1>3, <1>4

\* What a step does to the two queues.
LEMMA UniTaken ==
    ASSUME UniOK, NEW c \in Conn, NEW e \in End, uni[c][e] # << >>,
           uni' = [uni EXCEPT ![c][e] = Tail(@)]
    PROVE  /\ \/ uni'["pub"]["client"] = uni["pub"]["client"]
              \/ /\ uni["pub"]["client"] # << >>
                 /\ uni'["pub"]["client"] = Tail(uni["pub"]["client"])
           /\ \/ uni'["sub"]["relay"] = uni["sub"]["relay"]
              \/ /\ uni["sub"]["relay"] # << >>
                 /\ uni'["sub"]["relay"] = Tail(uni["sub"]["relay"])
BY Ends DEF UniOK

\* The queues stand still.
LEMMA QueueKept ==
    ASSUME UniOK, played \in Seq(Group), QueueInv, \A g \in Group : Grown(g),
           UNCHANGED <<uni, task, played>>
    PROVE  QueueInv'
<1>1. \A g \in Group : LookedUp(g) => LookedUp(g)'
  BY DEF LookedUp
<1>2. OpenedOnce' /\ CopiedOnce'
  BY <1>1, OpenedKept, CopiedKept DEF QueueInv
<1> QED BY <1>2 DEF QueueInv, Grown

\* SETUP is read: the control stream, the first in its queue, is taken.
LEMMA QueueSetup ==
    ASSUME UniOK, played \in Seq(Group), QueueInv, \A g \in Group : Grown(g),
           NEW c \in Conn, NEW e \in End, ReadSetup(c, e), UNCHANGED <<task, played>>
    PROVE  QueueInv'
<1>1. \A g \in Group : LookedUp(g) => LookedUp(g)'
  BY DEF LookedUp
<1>2. Peer(e) \in End
  BY Ends
<1>3. /\ \/ uni'["pub"]["client"] = uni["pub"]["client"]
         \/ /\ uni["pub"]["client"] # << >>
            /\ uni'["pub"]["client"] = Tail(uni["pub"]["client"])
      /\ \/ uni'["sub"]["relay"] = uni["sub"]["relay"]
         \/ /\ uni["sub"]["relay"] # << >>
            /\ uni'["sub"]["relay"] = Tail(uni["sub"]["relay"])
  BY <1>2, UniTaken DEF ReadSetup
<1>4. OpenedOnce'
  BY <1>3, OpenedKept DEF QueueInv
<1>5. CopiedOnce'
  BY <1>1, <1>3, CopiedKept DEF QueueInv
<1> QED BY <1>4, <1>5 DEF QueueInv, Grown

\* moqt-pub opens a group it has not opened yet.
LEMMA QueueOpened ==
    ASSUME PublisherInv, StreamTypes, UniOK, played \in Seq(Group), QueueInv,
           \A g \in Group : Grown(g), OpenSubgroup, UNCHANGED <<task, played>>
    PROVE  QueueInv'
<1> DEFINE q == uni["pub"]["client"]
<1>1. /\ groupId \in Group /\ stream[groupId].st = "none"
      /\ stream' = [stream EXCEPT ![groupId].st = "open"]
      /\ uni' = [uni EXCEPT !["pub"]["client"] = Append(@, groupId)]
  BY DEF OpenSubgroup, OpenStream, PublisherInv, StreamInv, NoStream
<1>2. q \in Seq(Group \cup {Control}) /\ Distinct(q)
  BY Ends DEF UniOK, QueueInv, OpenedOnce
<1>3. uni'["pub"]["client"] = Append(q, groupId) /\ uni'["sub"]["relay"] = uni["sub"]["relay"]
  BY <1>1, Ends DEF UniOK
<1>4. task[groupId] = "none" /\ ~Among(groupId, q)
  BY <1>1 DEF QueueInv, OpenedOnce
<1>5. stream'[groupId].st # "none"
  BY <1>1 DEF StreamTypes, Written
<1>6. Distinct(Append(q, groupId))
  <2> HIDE DEF q
  <2> QED BY <1>1, <1>2, <1>4, DistinctAppend
<1>7. \A g : Among(g, Append(q, groupId)) <=> Among(g, q) \/ g = groupId
  <2> HIDE DEF q
  <2> QED BY <1>1, <1>2, AmongAppend
<1>8. OpenedOnce'
  BY <1>3, <1>4, <1>5, <1>6, <1>7 DEF QueueInv, OpenedOnce, Grown
<1>9. CopiedOnce'
  <2>1. \A g \in Group : LookedUp(g) => LookedUp(g)'
    BY DEF LookedUp
  <2> QED BY <1>3, <2>1, CopiedKept DEF QueueInv
<1> QED BY <1>8, <1>9 DEF QueueInv, Grown

\* The relay takes a group's stream, and looks its subscription up once.
LEMMA QueueReceived ==
    ASSUME StreamTypes, UniOK, played \in Seq(Group), QueueInv, NEW g \in Group, ReceiveStream(g)
    PROVE  QueueInv'
<1>1. task[g] = "none" /\ stream[g].st # "none"
  BY ReceivedOnce DEF QueueInv
<1>2. /\ UNCHANGED <<stream, played>> /\ task' = [task EXCEPT ![g] = "lookup"]
      /\ uni["pub"]["client"] # << >> /\ g = Head(uni["pub"]["client"])
      /\ uni' = [uni EXCEPT !["pub"]["client"] = Tail(@)]
  BY DEF ReceiveStream, NextStream, Peer, Clients, publisher, subscriber, loopVars, outVars
<1>3. uni'["pub"]["client"] = Tail(uni["pub"]["client"])
      /\ uni'["sub"]["relay"] = uni["sub"]["relay"]
  BY <1>2, Ends DEF UniOK
<1>4. \A h \in Group : h # g => task'[h] = task[h]
  BY <1>2 DEF StreamTypes
<1>5. \A h \in Group : Grown(h)
  BY <1>2, SameGrown
<1>6. \A h \in Group : LookedUp(h) => LookedUp(h)'
  BY <1>1, <1>4 DEF LookedUp
<1>7. OpenedOnce'
  BY <1>2, <1>3, <1>4, <1>5, OpenedKept DEF QueueInv
<1>8. CopiedOnce'
  BY <1>2, <1>3, <1>6, CopiedKept DEF QueueInv
<1>9. \A h \in Group : task'[h] # "none" => stream'[h].st # "none"
  BY <1>1, <1>2, <1>4 DEF QueueInv
<1> QED BY <1>7, <1>8, <1>9 DEF QueueInv

\* The relay works on a group: when it looks the subscription up, it may open a copy.
LEMMA QueueServed ==
    ASSUME StreamTypes, UniOK, played \in Seq(Group), QueueInv,
           \A h \in Group : Taken(h) => LookedUp(h), NEW g \in Group, HandleStream(g)
    PROVE  QueueInv'
<1>1. UNCHANGED <<stream, played>> /\ task[g] # "none"
  BY DEF HandleStream, LookUp, ForwardObject, EndOfStream, Clients, publisher, subscriber,
         loopVars, outVars
<1>2. /\ \A h \in Group : h # g => task'[h] = task[h]
      /\ LookedUp(g)'
  BY DEF HandleStream, LookUp, ForwardObject, EndOfStream, LookedUp, data, StreamTypes
<1>3. \A h \in Group : Grown(h)
  BY <1>1, SameGrown
<1>4. \A h \in Group : LookedUp(h) => LookedUp(h)'
  BY <1>2 DEF LookedUp
<1>5. \A h \in Group : task'[h] # "none" => stream'[h].st # "none"
  BY <1>1, <1>2 DEF QueueInv
<1>6. CASE UNCHANGED uni
  <2>1. OpenedOnce'
    BY <1>1, <1>2, <1>6 DEF QueueInv, OpenedOnce
  <2>2. CopiedOnce'
    BY <1>1, <1>4, <1>6, CopiedKept DEF QueueInv
  <2> QED BY <1>5, <2>1, <2>2 DEF QueueInv
<1>7. CASE LookUp(g) /\ OpenStream("sub", "relay", g)
  <2> DEFINE q == uni["sub"]["relay"]
  <2>1. q \in Seq(Group \cup {Control}) /\ Distinct(q)
    BY Ends DEF UniOK, QueueInv, CopiedOnce
  <2>2. uni'["sub"]["relay"] = Append(q, g) /\ uni'["pub"]["client"] = uni["pub"]["client"]
    BY <1>7, Ends DEF UniOK, OpenStream
  <2>3. ~LookedUp(g)
    BY <1>7 DEF LookUp, LookedUp
  <2>4. ~Among(g, q) /\ ~Taken(g)
    BY <2>3 DEF QueueInv, CopiedOnce
  <2>5. Distinct(Append(q, g))
    <3> HIDE DEF q
    <3> QED BY <2>1, <2>4, DistinctAppend
  <2>6. \A h : Among(h, Append(q, g)) <=> Among(h, q) \/ h = g
    <3> HIDE DEF q
    <3> QED BY <2>1, AmongAppend
  <2>7. CopiedOnce'
    BY <1>1, <1>2, <1>4, <2>2, <2>4, <2>5, <2>6 DEF QueueInv, CopiedOnce, Taken
  <2>8. OpenedOnce'
    BY <1>1, <1>2, <2>2 DEF QueueInv, OpenedOnce
  <2> QED BY <1>5, <2>7, <2>8 DEF QueueInv
<1>8. UNCHANGED uni \/ (LookUp(g) /\ OpenStream("sub", "relay", g))
  BY DEF HandleStream, LookUp, ForwardObject, EndOfStream, session
<1> QED BY <1>6, <1>7, <1>8

\* moqt-sub takes the next group.
LEMMA QueueTaken ==
    ASSUME UniOK, played \in Seq(Group), QueueInv, NEW g \in Group, TakeGroup(g),
           UNCHANGED <<stream, task>>
    PROVE  QueueInv' /\ LookedUp(g) /\ ~Taken(g)
<1>1. /\ uni["sub"]["relay"] # << >> /\ g = Head(uni["sub"]["relay"])
      /\ uni' = [uni EXCEPT !["sub"]["relay"] = Tail(@)] /\ played' = Append(played, g)
  BY DEF TakeGroup, NextStream, Peer
<1>2. uni["sub"]["relay"] \in Seq(Group \cup {Control})
  BY Ends DEF UniOK
<1>3. Among(g, uni["sub"]["relay"])
  BY <1>1, <1>2, HeadAmong
<1>4. uni'["pub"]["client"] = uni["pub"]["client"]
      /\ uni'["sub"]["relay"] = Tail(uni["sub"]["relay"])
  BY <1>1, Ends DEF UniOK
<1>5. \A h \in Group : Grown(h)
  BY SameGrown
<1>6. \A h \in Group : LookedUp(h) => LookedUp(h)'
  BY DEF LookedUp
<1>7. OpenedOnce'
  BY <1>4, <1>5, OpenedKept DEF QueueInv
<1>8. CopiedOnce'
  BY <1>1, <1>4, <1>6, CopiedKept DEF QueueInv
<1>9. LookedUp(g) /\ ~Taken(g)
  BY <1>3 DEF QueueInv, CopiedOnce
<1> QED BY <1>7, <1>8, <1>9 DEF QueueInv

\* The steps of moqt-pub, moqt-sub and the relay.
LEMMA PublisherQueues ==
    ASSUME PublisherInv, StreamTypes, UniOK, played \in Seq(Group), QueueInv,
           \A g \in Group : Grown(g), UNCHANGED <<task, played>>,
           NEW slept, NEW lingered, StdinThread \/ PublisherMain(slept, lingered)
    PROVE  QueueInv'
<1>1. CASE UNCHANGED uni
  BY <1>1, QueueKept
<1>2. CASE ConnectPublisher
  BY <1>2, Ends, QueueSetup DEF ConnectPublisher
<1>3. CASE OpenSubgroup
  BY <1>3, QueueOpened
<1> QED BY <1>1, <1>2, <1>3
        DEF StdinThread, StdinEnds, ReadFrame, BlockingSend, StdinStep, PublisherMain,
            PublishNamespace, NamespaceAnswered, TakeSubscribe, Accept, PublisherFails,
            RecvFrame, WriteFrame, ChannelClosed, WriteDemoObject, DemoSleeps, SendPublishDone,
            Linger, ExitPublisher, session

\* moqt-sub takes the copies in turn.
LEMMA SubscriberQueues ==
    ASSUME UniOK, played \in Seq(Group), QueueInv, UNCHANGED <<stream, task>>,
           NEW slept, SubscriberMain(slept) \/ ReceiveTask
    PROVE  QueueInv'
<1> \A g \in Group : Grown(g)
  BY SameGrown
<1>1. CASE UNCHANGED <<uni, played>>
  BY <1>1, QueueKept
<1>2. CASE ConnectSubscriber
  BY <1>2, Ends, QueueSetup DEF ConnectSubscriber, subscriber, outVars
<1>3. ASSUME NEW g \in Stream, TakeGroup(g) PROVE QueueInv'
  BY <1>3, QueueTaken, StreamAssumption
<1> QED BY <1>1, <1>2, <1>3
        DEF SubscriberMain, Subscribe, SubscribeAnswered, RecvPublishDone, SubscriberFails,
            CloseSubscriber, SubscriberEnds, ReceiveTask, ReceiveEnds, ReadObject, EndOfGroup,
            session, subscriber, outVars

\* The relay only writes to the copies.
LEMMA RelayLeavesSubscriber == Relay => UNCHANGED subscriber
BY DEF Relay, HandleConnection, RelaySetup, RemoveSession, RegisterNamespace, ReceiveStream,
       HandleSubscribe, HandleRequest, RecordSubscription, ForwardPublishDone, UpstreamLost,
       ForwardOk, HandleStream, LookUp, ForwardObject, EndOfStream, Clients

\* The relay takes groups from one queue and puts copies into the other.
LEMMA RelayQueues ==
    ASSUME StreamTypes, UniOK, played \in Seq(Group), QueueInv,
           \A h \in Group : Taken(h) => LookedUp(h), Relay
    PROVE  QueueInv'
<1> UNCHANGED <<stream, played>>
  <2>1. UNCHANGED publisher
    BY RelayUnmoved
  <2>2. UNCHANGED subscriber
    BY RelayLeavesSubscriber
  <2> QED BY <2>1, <2>2 DEF publisher, subscriber, loopVars, outVars
<1> \A g \in Group : Grown(g)
  BY SameGrown
<1>1. CASE UNCHANGED <<uni, task>>
  BY <1>1, QueueKept
<1>2. ASSUME NEW c \in Conn, HandleConnection(c) PROVE QueueInv'
  <2>1. CASE RelaySetup(c)
    BY <2>1, Ends, QueueSetup DEF RelaySetup, data
  <2>2. ASSUME NEW g \in Group, ReceiveStream(g) PROVE QueueInv'
    BY <2>2, QueueReceived
  <2> QED BY <1>1, <1>2, <2>1, <2>2
          DEF HandleConnection, RemoveSession, RegisterNamespace, HandleSubscribe, data
<1>3. ASSUME NEW u \in Upstream, HandleRequest(u) PROVE QueueInv'
  BY <1>1, <1>3 DEF HandleRequest, RecordSubscription, ForwardPublishDone, UpstreamLost, ForwardOk,
     data
<1>4. ASSUME NEW g \in Group, HandleStream(g) PROVE QueueInv'
  BY <1>4, QueueServed
<1> QED BY <1>2, <1>3, <1>4 DEF Relay

\* Every step keeps the queues right.
LEMMA QueueStep ==
    ASSUME TypeInv, QueueInv, ReadInv, [Next]_vars
    PROVE  QueueInv'
<1> PublisherInv /\ StreamTypes /\ UniOK /\ played \in Seq(Group)
    /\ \A h \in Group : Taken(h) => LookedUp(h)
  BY StreamsTyped DEF TypeInv, CountInv, WiresOK, ReaderOK, SubscriberTypeOK, ReadInv
<1>1. \A g \in Group : Grown(g)
  BY StreamsGrow
<1>2. CASE (StdinThread \/ Publisher) /\ UNCHANGED <<subscriber, copy, relay, data>>
  <2>1. UNCHANGED <<task, played>>
    BY <1>2 DEF subscriber, outVars, data
  <2> QED BY <1>1, <1>2, <2>1, PublisherQueues DEF Publisher
<1>3. CASE (Subscriber \/ ReceiveTask) /\ UNCHANGED <<publisher, relay, data>>
  <2>1. UNCHANGED <<stream, task>>
    BY <1>3 DEF publisher, loopVars, data
  <2> QED BY <1>3, <2>1, SubscriberQueues DEF Subscriber
<1>4. CASE UNCHANGED <<uni, Clients, data>>
  BY <1>1, <1>4, QueueKept DEF Clients, subscriber, outVars, data
<1>5. OtherAsks \/ (Faults /\ UNCHANGED <<Clients, data>>) \/ UNCHANGED vars
        => UNCHANGED <<uni, Clients, data>>
  BY DEF OtherAsks, Faults, LoseLink, vars, session, Clients, data
<1> QED BY <1>2, <1>3, <1>4, <1>5, RelayQueues DEF Next, Running

----------------------------------------------------------------------------
(* What is read *)

\* The relay's work on a copy: it is looked up once, and only gets longer.
CopyGrown(g) ==
    /\ LookedUp(g) => LookedUp(g)'
    /\ Len(copy[g].objs) <= Len(copy'[g].objs)

\* Every step keeps that.
LEMMA CopiesGrow ==
    ASSUME StreamTypes, CopyInv, UniOK, OpenedOnce, [Next]_vars
    PROVE  \A g \in Group : CopyGrown(g)
<1>1. \A g \in Group : copy[g].objs \in Seq(Frame) /\ Len(copy[g].objs) \in Nat
  BY DEF StreamTypes, Written
<1>2. CASE UNCHANGED copy /\ \A g \in Group : LookedUp(g) => LookedUp(g)'
  BY <1>1, <1>2 DEF CopyGrown
<1>3. ASSUME NEW g \in Group, HandleStream(g), NEW h \in Group PROVE CopyGrown(h)
  <2>1. LookedUp(h) => LookedUp(h)'
    BY <1>3 DEF HandleStream, LookUp, ForwardObject, EndOfStream, LookedUp, data, StreamTypes
  <2>2. \/ copy'[h].objs = copy[h].objs
        \/ \E x \in Frame : copy'[h].objs = Append(copy[h].objs, x)
    <3>1. CASE LookUp(g) \/ EndOfStream(g)
      <4>1. \/ UNCHANGED copy
            \/ \E st \in {"open", "fin"} : copy' = [copy EXCEPT ![g].st = st]
        BY <1>3, <3>1 DEF LookUp, EndOfStream
      <4>2. ASSUME NEW st, copy' = [copy EXCEPT ![g].st = st]
            PROVE  copy'[h].objs = copy[h].objs
        <5>1. copy[g] \in Written
          BY <1>3 DEF StreamTypes
        <5>2. copy'[h] = IF h = g THEN [copy[g] EXCEPT !.st = st] ELSE copy[h]
          BY <1>3, <4>2 DEF StreamTypes
        <5> QED BY <5>1, <5>2 DEF Written
      <4> QED BY <4>1, <4>2
    <3>2. CASE ForwardObject(g)
      <4> DEFINE x == stream[g].objs[taken'[g]]
      <4>1. /\ taken'[g] \in 1..Len(stream[g].objs)
            /\ \/ UNCHANGED copy
               \/ copy' = [copy EXCEPT ![g].objs = Append(@, x)]
        BY <1>3, <3>2 DEF ForwardObject, StreamTypes
      <4>2. x \in Frame
        <5>1. stream[g].objs \in Seq(Frame)
          BY <1>3 DEF StreamTypes, Written
        <5> QED BY <4>1, <5>1
      <4> HIDE DEF x
      <4>3. copy'[h].objs = copy[h].objs \/ copy'[h].objs = Append(copy[h].objs, x)
        <5>1. copy[g] \in Written
          BY <1>3 DEF StreamTypes
        <5>2. CASE copy' = [copy EXCEPT ![g].objs = Append(@, x)]
          <6>1. copy'[h] = IF h = g THEN [copy[g] EXCEPT !.objs = Append(copy[g].objs, x)]
                                    ELSE copy[h]
            BY <1>3, <5>2 DEF StreamTypes
          <6> QED BY <5>1, <6>1 DEF Written
        <5> QED BY <4>1, <5>2
      <4> QED BY <4>2, <4>3
    <3> QED BY <1>3, <3>1, <3>2 DEF HandleStream
  <2>3. Len(copy[h].objs) <= Len(copy'[h].objs)
    <3>1. ASSUME NEW x \in Frame PROVE Len(Append(copy[h].objs, x)) = Len(copy[h].objs) + 1
      BY <1>1, <1>3
    <3> QED BY <1>1, <1>3, <2>2, <3>1
  <2> QED BY <2>1, <2>3 DEF CopyGrown
<1>4. CASE UNCHANGED <<copy, data>>
  BY <1>2, <1>4 DEF data, LookedUp
<1>5. ASSUME NEW c \in Conn, HandleConnection(c) PROVE \A g \in Group : CopyGrown(g)
  <2>1. ASSUME NEW g \in Group, ReceiveStream(g) PROVE \A h \in Group : CopyGrown(h)
    <3>1. task[g] = "none"
      BY <2>1, ReceivedOnce
    <3> QED BY <1>2, <2>1, <3>1 DEF ReceiveStream, LookedUp, StreamTypes
  <2> QED BY <1>4, <1>5, <2>1 DEF HandleConnection, RelaySetup, RemoveSession, RegisterNamespace,
     HandleSubscribe
<1>6. ASSUME NEW u \in Upstream, HandleRequest(u) PROVE \A g \in Group : CopyGrown(g)
  BY <1>4, <1>6 DEF HandleRequest, RecordSubscription, ForwardPublishDone, UpstreamLost, ForwardOk
<1>7. CASE (Subscriber \/ ReceiveTask) /\ UNCHANGED data
  <2>1. UNCHANGED copy
    BY <1>7 DEF Subscriber, SubscriberMain, ConnectSubscriber, Subscribe, SubscribeAnswered,
       RecvPublishDone, SubscriberFails, CloseSubscriber, SubscriberEnds, ReceiveTask, TakeGroup,
       ReceiveEnds, ReadObject, EndOfGroup
  <2> QED BY <1>4, <1>7, <2>1
<1> QED BY <1>3, <1>4, <1>5, <1>6, <1>7 DEF Next, Running, Relay, OtherAsks, vars

\* A step that puts nothing out and takes no group.
Passes ==
    /\ UNCHANGED outVars
    /\ recv' = "off" => recv = "off"
    /\ recv' = "read" => recv = "read"
    /\ sub' \in {"connect", "subscribe"} => recv' = "off"

\* The receive task stands still, or has read a group to its end.
LEMMA ReadKept ==
    ASSUME ReaderOK, StreamTypes, StreamTypes', ReadInv, \A g \in Group : CopyGrown(g), Passes
    PROVE  ReadInv'
<1>1. \A g \in Group : /\ got[g] \in Nat /\ Len(copy[g].objs) \in Nat /\ Len(copy'[g].objs) \in Nat
  BY DEF ReaderOK, SubscriberTypeOK, StreamTypes, Written
<1>2. \A g \in Group : got[g] <= Len(copy'[g].objs)
  BY <1>1 DEF ReadInv, CopyGrown
<1> QED BY <1>2 DEF ReadInv, CopyGrown, Passes, Taken, outVars

\* It takes a group, which was not taken before.
LEMMA ReadTaken ==
    ASSUME ReaderOK, ReadInv, NEW g \in Group, LookedUp(g), ~Taken(g), TakeGroup(g), UNCHANGED task
    PROVE  ReadInv'
<1>1. /\ recv = "next" /\ recv' = "read" /\ reading' = g /\ played' = Append(played, g)
      /\ UNCHANGED <<sub, got, out, copy>> /\ played \in Seq(Group)
  BY DEF TakeGroup, ReaderOK, SubscriberTypeOK
<1>2. Distinct(played')
  BY <1>1, DistinctAppend DEF ReadInv, Taken
<1>3. \A h : Taken(h)' <=> Taken(h) \/ h = g
  BY <1>1, AmongAppend DEF Taken
<1>4. played' # << >> /\ played'[Len(played')] = g
  BY <1>1
<1> QED BY <1>1, <1>2, <1>3, <1>4 DEF ReadInv, LookedUp

\* The group that is read is one of those taken.
LEMMA LastTaken ==
    ASSUME ReaderOK, ReadInv, recv = "read"
    PROVE  reading \in Group /\ Taken(reading)
<1>1. played # << >> /\ played \in Seq(Group) /\ reading = played[Len(played)]
  BY DEF ReaderOK, SubscriberTypeOK, ReadInv
<1>2. Len(played) \in 1..Len(played)
  BY <1>1
<1> QED BY <1>1, <1>2 DEF Taken, Among

\* It reads an object.
LEMMA ReadRead ==
    ASSUME ReaderOK, StreamTypes, ReadInv, ReadObject, UNCHANGED task
    PROVE  ReadInv'
<1>1. /\ recv = "read" /\ got' = [got EXCEPT ![reading] = @ + 1]
      /\ got[reading] < Len(copy[reading].objs)
      /\ UNCHANGED <<sub, recv, reading, played, copy>>
  BY DEF ReadObject
<1>2. reading \in Group /\ Taken(reading)
  BY <1>1, LastTaken
<1>3. \A g \in Group : got[g] \in Nat /\ Len(copy[g].objs) \in Nat
  BY DEF ReaderOK, SubscriberTypeOK, StreamTypes, Written
<1>4. \A g \in Group : got'[g] = IF g = reading THEN got[g] + 1 ELSE got[g]
  BY <1>1, <1>2 DEF ReaderOK, SubscriberTypeOK
<1>5. \A g \in Group : got'[g] <= Len(copy[g].objs)
  BY <1>1, <1>2, <1>3, <1>4 DEF ReadInv
<1> QED BY <1>1, <1>2, <1>4, <1>5 DEF ReadInv, LookedUp, Taken

----------------------------------------------------------------------------
(* What is put out *)

\* The first n of what was written to a stream stay the same.
LEMMA PieceKept ==
    ASSUME StreamTypes, StreamTypes', NEW g \in Group, Grown(g), NEW n \in Nat, n <= Len(Objs(g))
    PROVE  SubSeq(Objs(g)', 1, n) = SubSeq(Objs(g), 1, n) /\ n <= Len(Objs(g)')
<1>1. Objs(g) \in Seq(Frame) /\ Objs(g)' \in Seq(Frame)
  BY DEF StreamTypes, Written, Objs
<1>2. Len(Objs(g)) <= Len(Objs(g)') /\ \A i \in 1..Len(Objs(g)) : Objs(g)[i] = Objs(g)'[i]
  BY DEF Grown, PrefixOf
<1>3. \A i \in 1..n : Objs(g)[i] = Objs(g)'[i]
  BY <1>1, <1>2
<1> QED BY <1>1, <1>2, <1>3

\* Of every group no more was read than was written.
LEMMA ReadWritten ==
    ASSUME ReaderOK, StreamTypes, CopyInv, ReadInv, NEW g \in Group
    PROVE  got[g] \in Nat /\ got[g] <= Len(Objs(g))
<1>1. got[g] \in Nat /\ Len(copy[g].objs) \in Nat /\ Len(Objs(g)) \in Nat
  BY DEF ReaderOK, SubscriberTypeOK, StreamTypes, Written, Objs
<1> QED BY <1>1 DEF CopyInv, CopyOK, ReadInv, PrefixOf

\* The pieces are sequences of frames, one for each group taken.
LEMMA PiecesTyped ==
    ASSUME ReaderOK, StreamTypes, CopyInv, ReadInv
    PROVE  /\ Pieces \in Seq(Seq(Frame)) /\ Len(Pieces) = Len(played)
           /\ \A i \in 1..Len(played) : Pieces[i] = SubSeq(Objs(played[i]), 1, got[played[i]])
<1>1. played \in Seq(Group) /\ \A g \in Group : Objs(g) \in Seq(Frame)
  BY DEF ReaderOK, SubscriberTypeOK, StreamTypes, Written, Objs
<1>2. ASSUME NEW i \in 1..Len(played)
      PROVE  SubSeq(Objs(played[i]), 1, got[played[i]]) \in Seq(Frame)
  <2>1. played[i] \in Group
    BY <1>1
  <2>2. got[played[i]] \in Nat /\ got[played[i]] <= Len(Objs(played[i]))
    BY <2>1, ReadWritten
  <2> QED BY <1>1, <2>1, <2>2
<1>3. Len(played) \in Nat
  BY <1>1
<1> QED BY <1>2, <1>3 DEF Pieces

\* Nothing is put out: what was written of a group before is still its beginning.
LEMMA OutKept ==
    ASSUME ReaderOK, StreamTypes, StreamTypes', CopyInv, ReadInv, OutInv,
           \A g \in Group : Grown(g), UNCHANGED <<played, got, out>>
    PROVE  OutInv'
<1>1. ASSUME NEW i \in 1..Len(played)
      PROVE  SubSeq(Objs(played[i])', 1, got'[played'[i]])
                 = SubSeq(Objs(played[i]), 1, got[played[i]])
  <2>1. PICK g \in Group : g = played[i]
    BY DEF ReaderOK, SubscriberTypeOK
  <2>2. got[g] \in Nat /\ got[g] <= Len(Objs(g))
    BY ReadWritten
  <2> QED BY <2>1, <2>2, PieceKept DEF Objs
<1>2. Pieces' = Pieces
  BY <1>1 DEF Pieces
<1> QED BY <1>2 DEF OutInv

\* A group is taken, and nothing of it is read yet.
LEMMA OutTaken ==
    ASSUME ReaderOK, StreamTypes, CopyInv, ReadInv, OutInv, NEW g \in Group, ~Taken(g),
           TakeGroup(g), UNCHANGED stream
    PROVE  OutInv'
<1> DEFINE n == Len(played)
           more == Append(Pieces, << >>)
<1>1. /\ played' = Append(played, g) /\ UNCHANGED <<got, out>>
      /\ played \in Seq(Group) /\ out \in Seq(Frame) /\ got[g] = 0
  BY DEF TakeGroup, ReaderOK, SubscriberTypeOK, ReadInv
<1>2. /\ Pieces \in Seq(Seq(Frame)) /\ Len(Pieces) = n
      /\ \A i \in 1..n : Pieces[i] = SubSeq(Objs(played[i]), 1, got[played[i]])
  BY PiecesTyped
<1>3. Pieces' = more
  <2>1. n \in Nat /\ Len(played') = n + 1 /\ played'[n + 1] = g
        /\ \A i \in 1..n : played'[i] = played[i]
    BY <1>1
  <2>2. Pieces' = [i \in 1..(n + 1) |-> SubSeq(Objs(played'[i]), 1, got[played'[i]])]
    BY <1>1, <2>1 DEF Pieces, Objs
  <2>3. SubSeq(Objs(g), 1, 0) = << >>
    <3>1. Objs(g) \in Seq(Frame)
      BY DEF StreamTypes, Written, Objs
    <3> QED BY <3>1
  <2>4. /\ Len(more) = n + 1 /\ more[n + 1] = << >> /\ \A i \in 1..n : more[i] = Pieces[i]
        /\ more = [i \in 1..(n + 1) |-> more[i]]
    <3> DEFINE none == << >>
               pieces == Pieces
    <3>1. none \in Seq(Frame) /\ n \in Nat /\ Len(pieces) = n /\ pieces \in Seq(Seq(Frame))
      BY <1>2, <2>1
    <3> HIDE DEF n, none, pieces
    <3>2. /\ Len(Append(pieces, none)) = n + 1 /\ Append(pieces, none)[n + 1] = none
          /\ \A i \in 1..n : Append(pieces, none)[i] = pieces[i]
      BY <3>1
    <3>3. Append(pieces, none) \in Seq(Seq(Frame))
      BY <3>1
    <3>4. Append(pieces, none) = [i \in 1..(n + 1) |-> Append(pieces, none)[i]]
      <4> DEFINE w == Append(pieces, none)
      <4>1. w \in Seq(Seq(Frame)) /\ Len(w) = n + 1
        BY <3>2, <3>3
      <4> HIDE DEF w
      <4>2. w = [i \in 1..(n + 1) |-> w[i]]
        BY <4>1
      <4> QED BY <4>2 DEF w
    <3> QED BY <3>2, <3>4 DEF none, pieces
  <2> HIDE DEF n, more
  <2>5. ASSUME NEW i \in 1..(n + 1)
        PROVE  SubSeq(Objs(played'[i]), 1, got[played'[i]]) = more[i]
    <3>1. CASE i = n + 1
      BY <1>1, <2>1, <2>3, <2>4, <3>1
    <3>2. CASE i \in 1..n
      BY <1>2, <2>1, <2>4, <3>2
    <3> QED BY <2>1, <3>1, <3>2
  <2> QED BY <2>2, <2>4, <2>5
<1>4. << >> \in Seq(Frame) /\ out \o << >> = out
  BY <1>1
<1>5. FlattenSeq(Append(Pieces, << >>)) = FlattenSeq(Pieces) \o << >>
  BY <1>2, <1>4, FlattenAppend
<1> QED BY <1>1, <1>3, <1>4, <1>5 DEF OutInv

\* An object is read, of the group taken last: the next one of those written.
LEMMA OutRead ==
    ASSUME ReaderOK, StreamTypes, CopyInv, ReadInv, OutInv, ReadObject, UNCHANGED stream
    PROVE  OutInv'
<1> DEFINE n == Len(played)
           o == Objs(reading)
           k == got[reading]
           front == SubSeq(Pieces, 1, n - 1)
           x == o[k + 1]
           piece == SubSeq(o, 1, k)
<1>1. /\ recv = "read" /\ got' = [got EXCEPT ![reading] = @ + 1]
      /\ got[reading] < Len(copy[reading].objs) /\ UNCHANGED played
      /\ out' = Append(out, copy[reading].objs[got'[reading]])
  BY DEF ReadObject
<1>2. /\ reading \in Group /\ played # << >> /\ played \in Seq(Group)
      /\ reading = played[n] /\ n \in Nat \ {0} /\ out \in Seq(Frame) /\ Distinct(played)
  BY <1>1, LastTaken DEF ReaderOK, SubscriberTypeOK, ReadInv
<1>3. got'[reading] = k + 1 /\ k \in Nat
      /\ \A g \in Group : g # reading => got'[g] = got[g]
  BY <1>1, <1>2 DEF ReaderOK, SubscriberTypeOK
<1>4. o \in Seq(Frame) /\ copy[reading].objs \in Seq(Frame)
  BY <1>2 DEF StreamTypes, Written, Objs
<1>5. k + 1 <= Len(o) /\ copy[reading].objs[k + 1] = x /\ x \in Frame
  <2> HIDE DEF k, o
  <2>1. Len(copy[reading].objs) <= Len(o)
        /\ \A i \in 1..Len(copy[reading].objs) : copy[reading].objs[i] = o[i]
    BY <1>2 DEF CopyInv, CopyOK, PrefixOf, o
  <2>2. k + 1 \in 1..Len(copy[reading].objs)
    BY <1>1, <1>3, <1>4 DEF k
  <2>3. k + 1 \in 1..Len(o)
    BY <1>4, <2>1, <2>2
  <2> QED BY <1>4, <2>1, <2>2, <2>3
<1>6. /\ Pieces \in Seq(Seq(Frame)) /\ Len(Pieces) = n
      /\ \A i \in 1..n : Pieces[i] = SubSeq(Objs(played[i]), 1, got[played[i]])
  BY PiecesTyped
<1>7. out' = Append(out, x)
  BY <1>1, <1>3, <1>5
<1>8. piece \in Seq(Frame) /\ SubSeq(o, 1, k + 1) = Append(piece, x)
  <2> HIDE DEF o, k
  <2> QED BY <1>3, <1>4, <1>5
<1>9. front \in Seq(Seq(Frame)) /\ Len(front) = n - 1
      /\ \A i \in 1..(n - 1) : front[i] = Pieces[i]
  <2> HIDE DEF n
  <2> QED BY <1>2, <1>6
<1>10. Pieces[n] = piece
  BY <1>2, <1>6
<1>11. Pieces = Append(front, piece)
  <2> HIDE DEF n, piece, front
  <2> QED BY <1>2, <1>6, <1>8, <1>9, <1>10
<1>12. Pieces' = Append(front, Append(piece, x))
  <2> DEFINE next == Append(front, Append(piece, x))
  <2>1. Pieces' = [i \in 1..n |-> SubSeq(Objs(played[i]), 1, got'[played[i]])]
    BY <1>1 DEF Pieces, Objs
  <2>2. Append(piece, x) \in Seq(Frame)
    <3> HIDE DEF piece, x
    <3> QED BY <1>5, <1>8
  <2>3. /\ Len(next) = n /\ next[n] = Append(piece, x) /\ \A i \in 1..(n - 1) : next[i] = front[i]
        /\ next = [i \in 1..n |-> next[i]]
    <3> DEFINE p == Append(piece, x)
    <3> HIDE DEF p, n, front
    <3> QED BY <1>2, <1>9, <2>2 DEF p
  <2>4. ASSUME NEW i \in 1..n
        PROVE  SubSeq(Objs(played[i]), 1, got'[played[i]]) = next[i]
    <3>1. CASE i = n
      BY <1>2, <1>3, <1>8, <2>3, <3>1
    <3>2. CASE i # n
      <4>1. i \in 1..(n - 1) /\ n \in 1..n /\ played[i] \in Group
        BY <1>2, <3>2
      <4>2. played[i] # reading
        BY <1>2, <3>2, <4>1 DEF Distinct
      <4>3. got'[played[i]] = got[played[i]]
        BY <1>3, <4>1, <4>2
      <4>4. next[i] = Pieces[i]
        BY <1>9, <2>3, <4>1
      <4> QED BY <1>6, <4>3, <4>4
    <3> QED BY <3>1, <3>2
  <2> DEFINE F(i) == SubSeq(Objs(played[i]), 1, got'[played[i]])
  <2>5. Pieces' = [i \in 1..n |-> F(i)] /\ \A i \in 1..n : F(i) = next[i]
    BY <2>1, <2>4
  <2> HIDE DEF F, next, n
  <2>6. [i \in 1..n |-> F(i)] = [i \in 1..n |-> next[i]]
    BY <2>5
  <2>7. Pieces' = next
    BY <2>3, <2>5, <2>6
  <2> QED BY <2>7 DEF next
<1>13. FlattenSeq(Append(front, piece)) = FlattenSeq(front) \o piece
  <2> HIDE DEF front, piece
  <2> QED BY <1>8, <1>9, FlattenAppend
<1>14. FlattenSeq(Append(front, Append(piece, x))) = FlattenSeq(front) \o Append(piece, x)
  <2>1. Append(piece, x) \in Seq(Frame)
    <3> HIDE DEF piece, x
    <3> QED BY <1>5, <1>8
  <2> HIDE DEF front, piece, x
  <2> QED BY <1>9, <2>1, FlattenAppend
<1>15. FlattenSeq(front) \in Seq(Frame)
  BY <1>9, FlatTyped
<1>16. FlattenSeq(front) \o Append(piece, x) = Append(FlattenSeq(front) \o piece, x)
  <2> DEFINE f == FlattenSeq(front)
  <2> HIDE DEF f, piece, x
  <2>1. f \in Seq(Frame) /\ piece \in Seq(Frame) /\ x \in Frame
    BY <1>5, <1>8, <1>15 DEF f
  <2>2. f \o Append(piece, x) = Append(f \o piece, x)
    BY <2>1
  <2> QED BY <2>2 DEF f
<1> QED BY <1>7, <1>11, <1>12, <1>13, <1>14, <1>16 DEF OutInv

\* Everyone else leaves moqt-sub alone.
LEMMA OthersPass ==
    ASSUME [Next]_vars
    PROVE  \/ /\ Subscriber \/ ReceiveTask
              /\ UNCHANGED <<publisher, relay, data>>
           \/ UNCHANGED subscriber
BY RelayLeavesSubscriber DEF Next, Running, OtherAsks, vars, Clients

\* Every step keeps what was put out right.
LEMMA OutStep ==
    ASSUME TypeInv, TypeInv', CopyInv, QueueInv, ReadInv, OutInv, [Next]_vars
    PROVE  OutInv'
<1> ReaderOK /\ StreamTypes /\ StreamTypes' /\ UniOK /\ played \in Seq(Group)
  <2>1. ReaderOK /\ StreamTypes /\ UniOK /\ played \in Seq(Group)
    BY StreamsTyped DEF TypeInv, CountInv, WiresOK, ReaderOK, SubscriberTypeOK
  <2>2. StreamTypes'
    BY StreamsTyped, PTL
  <2> QED BY <2>1, <2>2
<1>1. \A g \in Group : Grown(g)
  BY StreamsGrow DEF TypeInv, CountInv
<1>2. CASE UNCHANGED <<played, got, out>>
  BY <1>1, <1>2, OutKept
<1>3. ASSUME NEW g \in Stream, TakeGroup(g), UNCHANGED <<stream, task>> PROVE OutInv'
  <2>1. g \in Group /\ ~Taken(g)
    BY <1>3, QueueTaken, StreamAssumption
  <2> QED BY <1>3, <2>1, OutTaken
<1>4. CASE ReadObject /\ UNCHANGED stream
  BY <1>4, OutRead
<1>5. UNCHANGED subscriber => UNCHANGED <<played, got, out>>
  BY DEF subscriber, outVars
<1>6. CASE (Subscriber \/ ReceiveTask) /\ UNCHANGED <<publisher, relay, data>>
  <2>1. UNCHANGED <<stream, task>>
    BY <1>6 DEF publisher, loopVars, data
  <2>2. CASE SubscriberMain(scenario.timely => (SubscriberDrained \/ Down("sub")))
    BY <1>2, <1>5, <2>2
       DEF SubscriberMain, ConnectSubscriber, Subscribe, SubscribeAnswered, RecvPublishDone,
           SubscriberFails, CloseSubscriber, SubscriberEnds, outVars
  <2> QED BY <1>2, <1>3, <1>4, <1>6, <2>1, <2>2
          DEF Subscriber, ReceiveTask, ReceiveEnds, EndOfGroup, outVars
<1> QED BY <1>2, <1>5, <1>6, OthersPass

----------------------------------------------------------------------------
(* What is whole *)

\* No step undoes that.
LEMMA FinishedKept ==
    ASSUME NEW g \in Group, Grown(g), Finished(g), got'[g] = got[g]
    PROVE  Finished(g)'
BY DEF Finished, Grown, Objs

\* The end of a copy is the end of its stream.
EndsRight ==
    \A g \in Group : copy[g].st = "fin" =>
        stream[g].st = "fin" /\ Len(copy[g].objs) = Len(Objs(g))

\* The receive task stands still.
LEMMA WholeKept ==
    ASSUME ReaderOK, Whole, \A g \in Group : Grown(g), UNCHANGED <<played, got>>,
           (recv = "read" => recv' = "read") \/ played = << >>
    PROVE  Whole'
<1> SUFFICES ASSUME NEW i \in 1..Len(played)
             PROVE  (recv' = "read" /\ i = Len(played)) \/ Finished(played[i])'
  BY DEF Whole, Finished, Objs
<1>1. played[i] \in Group /\ played # << >>
  BY DEF ReaderOK, SubscriberTypeOK
<1>2. (recv = "read" /\ i = Len(played)) \/ Finished(played[i])
  BY DEF Whole, Finished
<1>3. PICK g \in Group : g = played[i]
  BY <1>1
<1>4. Finished(g) => Finished(g)'
  BY FinishedKept
<1> QED BY <1>1, <1>2, <1>3, <1>4 DEF Finished, Objs

\* The next group is taken only when the last one is done with.
LEMMA WholeTaken ==
    ASSUME ReaderOK, Whole, NEW g \in Group, TakeGroup(g), UNCHANGED stream
    PROVE  Whole'
<1>1. /\ recv = "next" /\ recv' = "read" /\ played' = Append(played, g)
      /\ UNCHANGED got /\ played \in Seq(Group)
  BY DEF TakeGroup, ReaderOK, SubscriberTypeOK
<1>2. Len(played') = Len(played) + 1 /\ Len(played) \in Nat
      /\ \A i \in 1..Len(played) : played'[i] = played[i]
  BY <1>1
<1> SUFFICES ASSUME NEW i \in 1..Len(played')
             PROVE  i = Len(played') \/ Finished(played[i])'
  BY <1>1 DEF Whole, Finished, Objs
<1>3. CASE i \in 1..Len(played)
  <2>1. Finished(played[i])
    BY <1>1, <1>3 DEF Whole, Finished
  <2> QED BY <1>1, <1>2, <1>3, <2>1 DEF Finished, Objs
<1> QED BY <1>2, <1>3

\* Reading disturbs only the last.
LEMMA WholeRead ==
    ASSUME ReaderOK, ReadInv, Whole, ReadObject, UNCHANGED stream
    PROVE  Whole'
<1>1. /\ recv = "read" /\ got' = [got EXCEPT ![reading] = @ + 1]
      /\ UNCHANGED <<recv, played>>
  BY DEF ReadObject
<1>2. reading \in Group /\ played \in Seq(Group) /\ played # << >> /\ Distinct(played)
      /\ reading = played[Len(played)] /\ got \in [Group -> Nat]
  BY <1>1, LastTaken DEF ReadInv, ReaderOK, SubscriberTypeOK
<1> SUFFICES ASSUME NEW i \in 1..Len(played), i # Len(played)
             PROVE  Finished(played[i])'
  BY <1>1 DEF Whole, Finished, Objs
<1>3. played[i] # reading /\ played[i] \in Group
  BY <1>2 DEF Distinct
<1>4. got'[played[i]] = got[played[i]]
  BY <1>1, <1>2, <1>3
<1>5. Finished(played[i])
  BY DEF Whole, Finished
<1> QED BY <1>1, <1>4, <1>5 DEF Finished, Objs

\* A group is left after its last object, if the connection is not down.
LEMMA WholeEnded ==
    ASSUME ReaderOK, ReadInv, EndsRight, Whole, Up("sub"), EndOfGroup, UNCHANGED stream
    PROVE  Whole'
<1>1. /\ recv = "read" /\ UNCHANGED <<played, got>>
      /\ copy[reading].st = "fin" /\ got[reading] = Len(copy[reading].objs)
  BY DEF EndOfGroup, outVars, Up, Down
<1>2. reading \in Group /\ played # << >> /\ reading = played[Len(played)]
  BY <1>1, LastTaken DEF ReadInv
<1> SUFFICES ASSUME NEW i \in 1..Len(played)
             PROVE  Finished(played[i])'
  BY <1>1 DEF Whole, Finished, Objs
<1>3. CASE i = Len(played)
  <2>1. Finished(reading)
    BY <1>1, <1>2 DEF EndsRight, Finished
  <2> QED BY <1>1, <1>2, <1>3, <2>1 DEF Finished, Objs
<1>4. CASE i # Len(played)
  <2>1. Finished(played[i])
    BY <1>4 DEF Whole, Finished
  <2> QED BY <1>1, <2>1 DEF Finished, Objs
<1> QED BY <1>3, <1>4

----------------------------------------------------------------------------
(* The steps *)

\* The main task of moqt-sub puts nothing out.  When it leaves, its connection
\* goes down with it.
LEMMA MainPasses ==
    ASSUME LinkOK, ReadInv, NEW slept, SubscriberMain(slept)
    PROVE  /\ Passes
           /\ Up("sub")' => (recv = "read" => recv' = "read") \/ played = << >>
<1>1. sub \in {"connect", "subscribe"} => recv = "off" /\ played = << >>
  BY DEF ReadInv
<1>2. Close("sub") => ~Up("sub")'
  BY Ends DEF Close, LinkOK, Up
<1>3. CASE ConnectSubscriber \/ Subscribe
  BY <1>1, <1>3 DEF ConnectSubscriber, Subscribe, subscriber, Passes
<1>4. CASE SubscribeAnswered
  BY <1>1, <1>4 DEF SubscribeAnswered, LeaveMain, Passes
<1>5. CASE RecvPublishDone \/ SubscriberFails \/ CloseSubscriber(slept) \/ SubscriberEnds
  BY <1>2, <1>5
     DEF RecvPublishDone, SubscriberFails, CloseSubscriber, SubscriberEnds, LeaveMain, Passes
<1> QED BY <1>3, <1>4, <1>5 DEF SubscriberMain

\* Every step keeps the order of the groups, and what was read of them.
LEMMA ReadStep ==
    ASSUME TypeInv, TypeInv', CopyInv, QueueInv, ReadInv, [Next]_vars
    PROVE  ReadInv'
<1> ReaderOK /\ StreamTypes /\ StreamTypes' /\ UniOK /\ LinkOK /\ played \in Seq(Group)
  <2>1. ReaderOK /\ StreamTypes /\ UniOK /\ LinkOK /\ played \in Seq(Group)
    BY StreamsTyped DEF TypeInv, CountInv, WiresOK, ReaderOK, SubscriberTypeOK
  <2>2. StreamTypes'
    BY StreamsTyped, PTL
  <2> QED BY <2>1, <2>2
<1>1. \A g \in Group : CopyGrown(g)
  BY CopiesGrow DEF QueueInv
<1>2. CASE Passes
  BY <1>1, <1>2, ReadKept
<1>3. CASE UNCHANGED subscriber
  BY <1>2, <1>3 DEF subscriber, Passes, ReadInv
<1>4. CASE (Subscriber \/ ReceiveTask) /\ UNCHANGED <<publisher, relay, data>>
  <2>1. UNCHANGED <<stream, task>>
    BY <1>4 DEF publisher, loopVars, data
  <2>2. ASSUME NEW g \in Stream, TakeGroup(g) PROVE ReadInv'
    <3>1. g \in Group /\ LookedUp(g) /\ ~Taken(g)
      BY <2>1, <2>2, QueueTaken, StreamAssumption
    <3> QED BY <2>1, <2>2, <3>1, ReadTaken
  <2>3. CASE ReadObject
    BY <2>1, <2>3, ReadRead
  <2>4. CASE ReceiveEnds \/ EndOfGroup
    BY <1>2, <2>4 DEF ReceiveEnds, EndOfGroup, Passes, ReadInv
  <2> QED BY <1>2, <1>4, <2>2, <2>3, <2>4, MainPasses DEF Subscriber, ReceiveTask
<1> QED BY <1>3, <1>4, OthersPass

\* Every step keeps the groups whole, but the last, while moqt-sub's connection
\* is up and copies end where their streams end.
LEMMA WholeStep ==
    ASSUME TypeInv, ReadInv, EndsRight, Whole, Up("sub")', [Next]_vars
    PROVE  Whole'
<1> ReaderOK /\ LinkOK /\ PublisherInv /\ PublisherTypeOK
  BY DEF TypeInv, CountInv, WiresOK, PublisherInv
<1>1. \A g \in Group : Grown(g)
  BY StreamsGrow
<1>2. Up("sub")
  BY LinksFall, Ends
<1>3. CASE UNCHANGED subscriber
  BY <1>1, <1>3, WholeKept DEF subscriber, outVars
<1>4. CASE (Subscriber \/ ReceiveTask) /\ UNCHANGED <<publisher, relay, data>>
  <2>1. UNCHANGED stream
    BY <1>4 DEF publisher, loopVars
  <2>2. CASE Subscriber
    <3>1. Passes /\ ((recv = "read" => recv' = "read") \/ played = << >>)
      BY <2>2, MainPasses DEF Subscriber
    <3> QED BY <1>1, <3>1, WholeKept DEF Passes, outVars
  <2>3. ASSUME NEW g \in Stream, TakeGroup(g) PROVE Whole'
    BY <2>1, <2>3, WholeTaken, StreamAssumption
  <2>4. CASE ReadObject
    BY <2>1, <2>4, WholeRead
  <2>5. CASE EndOfGroup
    BY <1>2, <2>1, <2>5, WholeEnded
  <2>6. CASE ReceiveEnds
    BY <1>1, <2>6, WholeKept DEF ReceiveEnds, outVars
  <2> QED BY <1>4, <2>2, <2>3, <2>4, <2>5, <2>6 DEF ReceiveTask
<1> QED BY <1>3, <1>4, OthersPass

\* The invariant holds at first.
LEMMA PlayStarts == Init => PlayInv
<1> SUFFICES ASSUME Init PROVE PlayInv
  OBVIOUS
<1>1. TypeInv
  BY TypesStart
<1>2. /\ stream = [g \in Group |-> NoStream] /\ copy = [g \in Group |-> NoCopy]
      /\ task = [g \in Group |-> "none"] /\ taken = [g \in Group |-> 0]
      /\ got = [g \in Group |-> 0] /\ played = << >> /\ out = << >> /\ recv = "off"
      /\ \A c \in Conn, e \in End : uni[c][e] = <<Control>> \/ uni[c][e] = << >>
  BY StreamAssumption DEF Init, PublisherInit, SubscriberInit, SessionInit, Group
<1>3. CopyInv
  BY <1>2 DEF CopyInv, CopyOK, LookedUp, PrefixOf, NoCopy, Objs
<1>4. ReadInv
  BY <1>2 DEF ReadInv, Distinct, Taken, Among, NoCopy
<1>5. ASSUME NEW s, s = <<Control>> \/ s = << >>
      PROVE  Distinct(s) /\ \A g \in Group : ~Among(g, s)
  <2>1. Control \notin Group
    BY NoneAssumption DEF Group
  <2>2. ASSUME NEW i \in 1..Len(s) PROVE i = 1 /\ s[i] = Control
    <3>1. CASE s = << >>
      BY <3>1
    <3>2. CASE s = <<Control>>
      BY <3>2
    <3> QED BY <1>5, <3>1, <3>2
  <2> QED BY <2>1, <2>2 DEF Distinct, Among
<1>6. QueueInv
  <2>1. uni["pub"]["client"] = <<Control>> \/ uni["pub"]["client"] = << >>
    BY <1>2, Ends
  <2>2. uni["sub"]["relay"] = <<Control>> \/ uni["sub"]["relay"] = << >>
    BY <1>2, Ends
  <2> QED BY <1>2, <1>5, <2>1, <2>2 DEF QueueInv, OpenedOnce, CopiedOnce
<1>7. OutInv
  <2>1. Pieces = << >>
    BY <1>2 DEF Pieces
  <2> QED BY <1>2, <2>1 DEF OutInv, FlattenSeq
<1>8. WholeInv
  BY <1>2 DEF WholeInv, Whole
<1> QED BY <1>1, <1>3, <1>4, <1>6, <1>7, <1>8 DEF PlayInv

\* Every step keeps it.
LEMMA PlayKept == PlayInv /\ [Next]_vars => PlayInv'
<1> SUFFICES ASSUME PlayInv, [Next]_vars PROVE PlayInv'
  OBVIOUS
<1> USE DEF PlayInv
<1>1. TypeInv'
  BY TypesKept
<1>2. CopyInv'
  BY <1>1, CopyStep DEF QueueInv
<1>3. QueueInv'
  BY QueueStep
<1>4. ReadInv'
  BY <1>1, ReadStep
<1>5. OutInv'
  BY <1>1, OutStep
<1>6. WholeInv'
  <2> SUFFICES ASSUME Undisturbed' PROVE Whole'
    BY DEF WholeInv
  <2>1. Undisturbed
    BY LinksFall, Ends DEF Undisturbed, TypeInv, CountInv, PublisherInv, WiresOK
  <2>2. EndsRight
    BY <2>1 DEF EndsRight, CopyInv, CopyOK, Undisturbed
  <2> QED BY <2>1, <2>2, WholeStep DEF WholeInv, Undisturbed
<1> QED BY <1>1, <1>2, <1>3, <1>4, <1>5, <1>6

\* And it says what it is for.
LEMMA PlayImplies == PlayInv => PlayedInTurn
<1> SUFFICES ASSUME PlayInv PROVE PlayedInTurn
  OBVIOUS
<1>1. played \in Seq(Group) /\ Distinct(played)
  BY DEF PlayInv, TypeInv, ReaderOK, SubscriberTypeOK, ReadInv
<1>2. IsInjective(played)
  BY <1>1 DEF IsInjective, Distinct
<1>3. out = FlattenSeq([i \in 1..Len(played) |-> SubSeq(Objs(played[i]), 1, got[played[i]])])
  BY DEF PlayInv, OutInv, Pieces
<1> QED BY <1>2, <1>3 DEF PlayedInTurn, PlayInv, WholeInv, Whole, Finished

\* moqt-sub puts out the groups it takes one after the other, each once, of each
\* the first objects moqt-pub wrote, and unless a connection is down it leaves none
\* before its end: receive_loop with the relay's copies in between.
THEOREM InTurn == Spec => []PlayedInTurn
<1>1. Spec => []PlayInv
  BY PlayStarts, PlayKept, PTL DEF Spec
<1> QED BY <1>1, PlayImplies, PTL
----------------------------------------------------------------------------
(* The end of a calm track *)

\* Pipe mode, with long sleeps and no faults.
Calm == scenario.mode = "pipe" /\ scenario.timely /\ scenario.breaks = {}

Gone == main \in {"returned", "exited"}     \* moqt-pub has closed its connection
Left == sub \in {"closing", "ended"}        \* and moqt-sub its own

ToPublisher == bidi["pub"]["relay"]         \* SUBSCRIBEs on their way to moqt-pub
FromSub     == bidi["sub"]["client"]        \* moqt-sub's on its way to the relay
Said        == answers["upstream"]          \* what moqt-pub has answered
Heard       == answers["subscribe"]         \* and what the relay has told moqt-sub

\* Each closes its own connection, moqt-pub when the relay has read all it wrote.
LeaveInv ==
    /\ Down("pub") => Gone /\ Flushed /\ request # None /\ handle[request] = "over"
    /\ Down("sub") <=> Left

\* moqt-sub subscribes once, and waits for what becomes of it.
AskInv ==
    /\ request = None <=> main \in {"connect", "announce", "await"}
    /\ sub = "connect" => FromSub = << >> /\ handle["upstream"] = "none"
    /\ FromSub # << >> =>
           Len(FromSub) = 1 /\ handle["upstream"] = "none" /\ sub = "subscribe"
    /\ handle["upstream"] = "none" =>
           request # "upstream" /\ ~Among("upstream", ToPublisher) /\ Heard = << >>
    /\ handle["upstream"] = "awaitOk" => sub = "subscribe" /\ Heard = << >>
    /\ request = None => Said = << >>
    /\ request = None /\ Among("upstream", ToPublisher) => handle["upstream"] = "awaitOk"

FirstIs(s, type) == s # << >> /\ Head(s).type = type

\* What moqt-pub has said of the end.
SaidDone(s) == IF main = "linger" THEN FirstIs(s, "DONE") /\ Tail(s) = << >> ELSE s = << >>

\* Where the task of the relay, moqt-pub and moqt-sub stand while they handle the
\* SUBSCRIBE that moqt-pub took.
AwaitsOk ==
    /\ handle["upstream"] = "awaitOk" /\ ~Gone
    /\ IF main = "accept" THEN Said = << >> ELSE FirstIs(Said, "OK") /\ SaidDone(Tail(Said))

ForwardsOk ==
    /\ handle["upstream"] = "forwardOk" /\ main # "accept" /\ ~Gone
    /\ SaidDone(Said)
    /\ sub = "subscribe" /\ Heard = << >> /\ "upstream" \in serving

AwaitsDone ==
    /\ handle["upstream"] = "awaitDone" /\ main # "accept" /\ ~Gone
    /\ SaidDone(Said)
    /\ \/ sub = "subscribe" /\ FirstIs(Heard, "OK") /\ Tail(Heard) = << >>
       \/ sub = "await" /\ Heard = << >>
    /\ "upstream" \in serving

Over ==
    /\ handle["upstream"] = "over" /\ main \in {"linger", "returned", "exited"}
    /\ \/ sub = "subscribe" /\ FirstIs(Heard, "OK") /\ FirstIs(Tail(Heard), "DONE")
       \/ sub = "await" /\ FirstIs(Heard, "DONE")
       \/ sub = "linger" \/ Left

ServedInv == request = "upstream" => AwaitsOk \/ ForwardsOk \/ AwaitsDone \/ Over

\* A copy waits to be taken, or was.
CopyWaits ==
    \A g \in Group : copy[g].st # "none" => Taken(g) \/ Among(g, uni["sub"]["relay"])

\* moqt-sub leaves when it has put out whole all that was copied.
EndedInv ==
    request = "upstream" /\ Left =>
        \A g \in Group : /\ ~Among(g, uni["sub"]["relay"])
                         /\ copy[g].st # "none" => Taken(g)
                         /\ Taken(g) => Finished(g)

\* The parts about a calm track.
CalmInv ==
    Calm => LeaveInv /\ AskInv /\ ServedInv /\ EndsRight /\ (~Left => Whole) /\ EndedInv

\* What the invariant on the SUBSCRIBE and its answers is about.
ControlVars == <<link, request, sub, handle, serving, ToPublisher, FromSub, Said, Heard>>

\* And what its types are.
CalmTypes ==
    /\ link \in [Conn -> LinkState] /\ handle \in [Upstream -> HandleState]
    /\ serving \subseteq Upstream /\ request \in Upstream \cup {None}
    /\ main \in MainState /\ sub \in SubState
    /\ ToPublisher \in Seq(Request) /\ FromSub \in Seq(Request)
    /\ Said \in Seq(MessageTypes) /\ Heard \in Seq(MessageTypes)
    /\ None \notin Upstream

\* The invariant on who stands where, and what it needs of the others.
ControlInv == LeaveInv /\ AskInv /\ ServedInv

\* What every lemma on a control step starts from.
CalmHyp ==
    /\ Calm /\ CalmTypes /\ LinkOK /\ AnswersOK /\ RequestsOK /\ ControlInv
    /\ main # "sleep"

\* The types the control steps need.
LEMMA CalmTyped == TypeInv => CalmTypes
<1> SUFFICES ASSUME TypeInv PROVE CalmTypes
  OBVIOUS
<1>1. AnswersOK /\ RequestsOK /\ LinkOK /\ RelayTypeOK /\ PublisherTypeOK /\ SubscriberTypeOK
  BY DEF TypeInv, CountInv, WiresOK, ReaderOK, PublisherInv
<1>2. "upstream" \in Request /\ "subscribe" \in Request
  BY DEF Request, Upstream
<1>3. None \notin Upstream
  BY RequestAssumption DEF Request
<1>4. ToPublisher \in Seq(Request) /\ FromSub \in Seq(Request)
  BY <1>1, Ends DEF RequestsOK, ToPublisher, FromSub
<1>5. Said \in Seq(MessageTypes) /\ Heard \in Seq(MessageTypes)
  BY <1>1, <1>2 DEF AnswersOK, Said, Heard
<1> QED BY <1>1, <1>3, <1>4, <1>5
        DEF CalmTypes, LinkOK, RelayTypeOK, PublisherTypeOK, SubscriberTypeOK

\* Sequences of messages.
LEMMA FirstAppended ==
    ASSUME NEW X, NEW s \in Seq(X), NEW x \in X
    PROVE  /\ s # << >> => /\ Append(s, x) # << >> /\ Head(Append(s, x)) = Head(s)
                           /\ Tail(Append(s, x)) = Append(Tail(s), x)
           /\ s = << >> => /\ Append(s, x) # << >> /\ Head(Append(s, x)) = x
                           /\ Tail(Append(s, x)) = << >>
<1> DEFINE t == Append(s, x)
<1>1. /\ t \in Seq(X) /\ Len(t) = Len(s) + 1 /\ t[Len(s) + 1] = x
      /\ \A i \in 1..Len(s) : t[i] = s[i]
  OBVIOUS
<1>2. t # << >> /\ Head(t) = t[1]
  BY <1>1
<1>3. CASE s = << >>
  <2>1. t = <<x>>
    BY <1>3
  <2> QED BY <1>3, <2>1
<1>4. CASE s # << >>
  <2>1. Head(t) = Head(s)
    BY <1>1, <1>2, <1>4
  <2>2. Tail(t) = Append(Tail(s), x)
    BY <1>4
  <2> QED BY <1>2, <1>4, <2>1, <2>2
<1> QED BY <1>3, <1>4

\* What is left of a sequence was in it.
LEMMA TailAmong ==
    ASSUME NEW X, NEW s \in Seq(X), s # << >>, NEW x, Among(x, Tail(s))
    PROVE  Among(x, s)
<1>1. PICK i \in 1..Len(Tail(s)) : Tail(s)[i] = x
  BY DEF Among
<1>2. i + 1 \in 1..Len(s) /\ Tail(s)[i] = s[i + 1]
  <2>1. Len(Tail(s)) = Len(s) - 1 /\ Len(s) \in Nat
    OBVIOUS
  <2>2. i \in 1..(Len(s) - 1)
    BY <2>1
  <2> QED BY <2>1, <2>2
<1> QED BY <1>1, <1>2 DEF Among

\* Taking the only element leaves nothing.
LEMMA OneLeft ==
    ASSUME NEW X, NEW s \in Seq(X), Len(s) = 1
    PROVE  Tail(s) = << >>
<1>1. Tail(s) \in Seq(X) /\ Len(Tail(s)) = 0
  OBVIOUS
<1> DEFINE t == Tail(s)
<1> HIDE DEF t
<1>2. t \in Seq(X) /\ Len(t) = 0
  BY <1>1 DEF t
<1>3. t = << >>
  BY <1>2
<1> QED BY <1>3 DEF t

\* A message is one.
LEMMA MessagesTyped ==
    \A type \in {"OK", "ERROR", "DONE", "FIN"}, n \in Nat :
        Message(type, n) \in MessageTypes /\ Message(type, n).type = type
BY DEF Message, MessageTypes

\* Nobody moves, or only moqt-pub, between steps that say nothing.
LEMMA ControlKept ==
    ASSUME CalmTypes, ControlInv, UNCHANGED ControlVars, Gone /\ Flushed => Flushed',
           \/ UNCHANGED main
           \/ {main, main'} \subseteq {"connect", "announce", "await"}
           \/ {main, main'} \subseteq {"recv", "open", "write", "done"}
           \/ {main, main'} \subseteq {"returned", "exited"}
    PROVE  ControlInv'
<1> USE DEF ControlInv, ControlVars
<1>1. LeaveInv'
  BY DEF LeaveInv, Down, Gone, Left
<1>2. AskInv'
  BY DEF AskInv
<1>3. ServedInv'
  <2> SUFFICES ASSUME request = "upstream" PROVE (AwaitsOk \/ ForwardsOk \/ AwaitsDone \/ Over)'
    BY DEF ServedInv
  <2>1. main \notin {"connect", "announce", "await"} /\ request # None
    BY DEF AskInv, CalmTypes, Upstream
  <2> QED BY <2>1
          DEF ServedInv, AwaitsOk, ForwardsOk, AwaitsDone, Over, Gone, SaidDone, FirstIs, Left
<1> QED BY <1>1, <1>2, <1>3

\* moqt-pub takes a SUBSCRIBE: the one for moqt-sub has its task waiting.
LEMMA TakesSubscribe ==
    ASSUME CalmHyp, NEW r \in Upstream, TakeSubscribe(r), UNCHANGED <<subscriber, relay>>
    PROVE  ControlInv'
<1> USE DEF ControlInv
<1>1. /\ main = "await" /\ main' = "accept" /\ request' = r
      /\ ToPublisher # << >> /\ r = Head(ToPublisher) /\ ToPublisher' = Tail(ToPublisher)
      /\ UNCHANGED <<link, sub, handle, serving, FromSub, Said, Heard>>
  BY Ends DEF TakeSubscribe, NextRequest, Peer, CalmHyp, RequestsOK, ToPublisher, FromSub, Said,
     Heard, subscriber, relay
<1>2. request = None /\ Up("pub") /\ CalmTypes
  BY <1>1, Ends DEF CalmHyp, AskInv, LeaveInv, Gone, Up, Down, LinkOK, LinkState
<1>3. LeaveInv'
  BY <1>1, <1>2 DEF CalmHyp, LeaveInv, Down, Up, Gone, Left
<1>4. r = "upstream" => handle["upstream"] = "awaitOk"
  BY <1>1, <1>2, HeadAmong DEF CalmHyp, AskInv, CalmTypes
<1>5. AskInv'
  <2>1. Among("upstream", Tail(ToPublisher)) => Among("upstream", ToPublisher)
    BY <1>1, <1>2, TailAmong DEF CalmTypes
  <2>2. r # None
    BY <1>2 DEF CalmTypes
  <2> QED BY <1>1, <1>2, <1>4, <2>1, <2>2 DEF CalmHyp, AskInv
<1>6. ServedInv'
  BY <1>1, <1>2, <1>4 DEF CalmHyp, AskInv, ServedInv, AwaitsOk, Gone
<1> QED BY <1>3, <1>5, <1>6

\* SUBSCRIBE_OK is the first thing moqt-pub says.
LEMMA Accepts ==
    ASSUME CalmHyp, Accept, UNCHANGED <<subscriber, relay>>
    PROVE  ControlInv'
<1> DEFINE m == Message("OK", 0)
<1> USE DEF ControlInv
<1>1. /\ main = "accept" /\ main' = "recv" /\ Up("pub")
      /\ UNCHANGED <<link, request, sub, handle, serving, ToPublisher, FromSub>>
      /\ Answer(request, m)
  BY DEF Accept, CalmHyp, Calm, ToPublisher, FromSub, requests, subscriber, relay
<1>2. request \in Upstream /\ m \in MessageTypes /\ m.type = "OK"
  BY <1>1, MessagesTyped DEF CalmHyp, AskInv, CalmTypes
<1>3. answers' = [answers EXCEPT ![request] = Append(@, m)]
  BY <1>1, <1>2 DEF Answer, ConnOf, Upstream
<1>4. Heard' = Heard /\ Said' = IF request = "upstream" THEN Append(Said, m) ELSE Said
  BY <1>2, <1>3 DEF Heard, Said, CalmHyp, AnswersOK, Request, Upstream
<1> HIDE DEF m
<1>5. LeaveInv'
  BY <1>1 DEF CalmHyp, LeaveInv, Down, Up, Gone, Left
<1>6. AskInv'
  BY <1>1, <1>2, <1>4 DEF CalmHyp, AskInv, CalmTypes
<1>7. ASSUME request = "upstream" PROVE AwaitsOk'
  <2>1. handle["upstream"] = "awaitOk" /\ Said = << >>
    BY <1>1, <1>7 DEF CalmHyp, ServedInv, AwaitsOk, ForwardsOk, AwaitsDone, Over
  <2>2. FirstIs(Said', "OK") /\ Tail(Said') = << >>
    BY <1>2, <1>4, <1>7, <2>1, FirstAppended DEF FirstIs, CalmHyp, CalmTypes
  <2> QED BY <1>1, <2>1, <2>2 DEF AwaitsOk, FirstIs, SaidDone, Gone
<1> QED BY <1>1, <1>5, <1>6, <1>7 DEF ServedInv

\* PUBLISH_DONE is the last.
LEMMA SaysDone ==
    ASSUME CalmHyp, SendPublishDone, Announced \in Nat, UNCHANGED <<subscriber, relay>>
    PROVE  ControlInv'
<1> DEFINE m == Message("DONE", Announced)
<1> USE DEF ControlInv
<1>1. /\ main = "done" /\ main' = "linger" /\ Up("pub")
      /\ UNCHANGED <<link, request, sub, handle, serving, ToPublisher, FromSub>>
      /\ Answer(request, m)
  BY DEF SendPublishDone, CalmHyp, Calm, ToPublisher, FromSub, requests, subscriber, relay
<1>2. request \in Upstream /\ m \in MessageTypes /\ m.type = "DONE"
  BY <1>1, MessagesTyped DEF CalmHyp, AskInv, CalmTypes
<1>3. answers' = [answers EXCEPT ![request] = Append(@, m)]
  BY <1>1, <1>2 DEF Answer, ConnOf, Upstream
<1>4. Heard' = Heard /\ Said' = IF request = "upstream" THEN Append(Said, m) ELSE Said
  BY <1>2, <1>3 DEF Heard, Said, CalmHyp, AnswersOK, Request, Upstream
<1> HIDE DEF m
<1>5. LeaveInv'
  BY <1>1 DEF CalmHyp, LeaveInv, Down, Up, Gone, Left
<1>6. AskInv'
  BY <1>1, <1>2, <1>4 DEF CalmHyp, AskInv, CalmTypes
<1>7. ASSUME request = "upstream" PROVE (AwaitsOk \/ ForwardsOk \/ AwaitsDone)'
  <2>1. Said \in Seq(MessageTypes) /\ Said' = Append(Said, m)
    BY <1>4, <1>7 DEF CalmHyp, CalmTypes
  <2>2. CASE AwaitsOk
    <3>1. FirstIs(Said, "OK") /\ Tail(Said) = << >>
      BY <1>1, <2>2 DEF AwaitsOk, SaidDone
    <3>2. FirstIs(Said', "OK") /\ Tail(Said') = Append(<< >>, m)
      BY <1>2, <2>1, <3>1, FirstAppended DEF FirstIs
    <3>3. FirstIs(Append(<< >>, m), "DONE") /\ Tail(Append(<< >>, m)) = << >>
      BY <1>2, FirstAppended DEF FirstIs
    <3> QED BY <1>1, <2>2, <3>2, <3>3 DEF AwaitsOk, SaidDone, Gone, FirstIs
  <2>3. CASE ForwardsOk \/ AwaitsDone
    <3>1. Said = << >>
      BY <1>1, <2>3 DEF ForwardsOk, AwaitsDone, SaidDone
    <3>2. FirstIs(Said', "DONE") /\ Tail(Said') = << >>
      BY <1>2, <2>1, <3>1, FirstAppended DEF FirstIs
    <3>3. SaidDone(Said)'
      BY <1>1, <3>2 DEF SaidDone, FirstIs
    <3> QED BY <1>1, <1>4, <2>3, <3>3 DEF ForwardsOk, AwaitsDone, Gone, FirstIs
  <2> QED BY <1>1, <1>7, <2>2, <2>3 DEF CalmHyp, ServedInv, Over
<1> QED BY <1>1, <1>5, <1>6, <1>7 DEF ServedInv

\* moqt-pub leaves when the relay has read all it has written.
LEMMA Lingers ==
    ASSUME CalmHyp, NEW l, Linger(l), l => PublisherFlushed \/ Down("pub"),
           UNCHANGED <<subscriber, relay, data>>
    PROVE  ControlInv'
<1> USE DEF ControlInv
<1>1. /\ main = "linger" /\ main' = "returned" /\ l
      /\ UNCHANGED <<request, sub, handle, serving, ToPublisher, FromSub, Said, Heard>>
      /\ UNCHANGED <<stream, task>>
      /\ link' = [link EXCEPT !["pub"] = "down"]
  BY DEF Linger, Return, Close, ToPublisher, FromSub, Said, Heard, requests, subscriber, relay,
     data, loopVars
<1>2. ~Down("pub") /\ (Down("sub")' <=> Down("sub"))
  BY <1>1, Ends DEF CalmHyp, LeaveInv, Gone, Down, LinkOK
<1>3. Flushed' /\ handle[request] = "over" /\ request # None
  BY <1>1, <1>2 DEF PublisherFlushed, Flushed, CalmHyp, AskInv
<1>4. LeaveInv'
  BY <1>1, <1>2, <1>3 DEF CalmHyp, LeaveInv, Gone, Left
<1>5. AskInv'
  BY <1>1, <1>3 DEF CalmHyp, AskInv
<1>6. ServedInv'
  BY <1>1, <1>3 DEF CalmHyp, ServedInv, AwaitsOk, ForwardsOk, AwaitsDone, Over, Gone, Left
<1> QED BY <1>4, <1>5, <1>6

\* What moqt-pub does.
LEMMA PublisherControls ==
    ASSUME CalmHyp, Announced \in Nat, Gone /\ Flushed => Flushed', StdinThread \/ Publisher,
           UNCHANGED <<subscriber, relay, data>>
    PROVE  ControlInv'
<1> CalmTypes /\ UNCHANGED <<sub, handle, serving>>
  BY DEF CalmHyp, subscriber, relay
<1>1. CASE UNCHANGED <<session, main, request>>
  BY <1>1, ControlKept
     DEF CalmHyp, ControlInv, ControlVars, session, ToPublisher, FromSub, Said, Heard
<1>2. CASE ConnectPublisher
  BY <1>2, ControlKept
     DEF ConnectPublisher, ReadSetup, publisher, requests, CalmHyp, ControlVars, ToPublisher,
         FromSub, Said, Heard
<1>3. CASE PublishNamespace \/ NamespaceAnswered
  <2>1. {main, main'} \subseteq {"connect", "announce", "await"} /\ UNCHANGED <<link, request>>
    BY <1>3 DEF PublishNamespace, NamespaceAnswered
  <2>2. UNCHANGED <<ToPublisher, FromSub>>
    <3>1. CASE PublishNamespace
      <4>1. bidi' = [bidi EXCEPT !["pub"]["client"] = Append(@, "announce")]
        BY <3>1 DEF PublishNamespace, OpenRequest, ConnOf, From, Upstream
      <4> QED BY <4>1, Ends DEF ToPublisher, FromSub, CalmHyp, RequestsOK
    <3>2. CASE NamespaceAnswered
      BY <3>2 DEF NamespaceAnswered, requests, ToPublisher, FromSub
    <3> QED BY <1>3, <3>1, <3>2
  <2>3. UNCHANGED <<Said, Heard>>
    BY <1>3 DEF PublishNamespace, NamespaceAnswered, Read, Said, Heard, CalmHyp, AnswersOK, Request,
       Upstream
  <2> QED BY <2>1, <2>2, <2>3, ControlKept DEF CalmHyp, ControlVars
<1>4. CASE RecvFrame \/ OpenSubgroup \/ WriteFrame \/ ChannelClosed \/ ExitPublisher
  <2>1. \/ {main, main'} \subseteq {"recv", "open", "write", "done"}
        \/ {main, main'} \subseteq {"returned", "exited"}
    BY <1>4 DEF RecvFrame, OpenSubgroup, WriteFrame, ChannelClosed, ExitPublisher
  <2>2. UNCHANGED <<link, request, bidi, answers>>
    BY <1>4 DEF RecvFrame, OpenSubgroup, WriteFrame, ChannelClosed, ExitPublisher, session, requests
  <2> QED BY <2>1, <2>2, ControlKept DEF CalmHyp, ControlVars, ToPublisher, FromSub, Said, Heard
<1>5. ASSUME NEW l, l => PublisherFlushed \/ Down("pub"), Linger(l) PROVE ControlInv'
  BY <1>5, Lingers
<1>6. ~PublisherFails /\ ~WriteDemoObject /\ \A slept : ~DemoSleeps(slept)
  BY DEF PublisherFails, WriteDemoObject, DemoSleeps, CalmHyp, Calm, ControlInv, LeaveInv, Gone
<1>7. StdinThread => UNCHANGED <<session, main, request>>
  BY DEF StdinThread, StdinEnds, ReadFrame, BlockingSend, StdinStep
<1> DEFINE l == scenario.timely => (PublisherFlushed \/ Down("pub"))
<1>8. l => PublisherFlushed \/ Down("pub")
  BY DEF CalmHyp, Calm
<1> HIDE DEF l
<1>9. CASE \E slept : PublisherMain(slept, l)
  BY <1>2, <1>3, <1>4, <1>5, <1>6, <1>8, <1>9, TakesSubscribe, Accepts, SaysDone DEF PublisherMain
<1> QED BY <1>1, <1>7, <1>9 DEF Publisher, l

\* moqt-sub subscribes.
LEMMA Subscribes ==
    ASSUME CalmHyp, Gone /\ Flushed => Flushed', Subscribe, UNCHANGED <<publisher, relay>>
    PROVE  ControlInv'
<1> USE DEF ControlInv
<1>1. /\ sub = "connect" /\ sub' = "subscribe" /\ FromSub = << >>
      /\ handle["upstream"] = "none"
      /\ UNCHANGED <<link, main, request, handle, serving, Said, Heard>>
  BY DEF Subscribe, CalmHyp, AskInv, Said, Heard, publisher, relay
<1>2. ToPublisher' = ToPublisher /\ FromSub' = Append(FromSub, "subscribe")
  <2>1. bidi' = [bidi EXCEPT !["sub"]["client"] = Append(@, "subscribe")]
    BY DEF Subscribe, OpenRequest, ConnOf, From, Upstream
  <2> QED BY <2>1, Ends DEF ToPublisher, FromSub, CalmHyp, RequestsOK
<1>3. Len(FromSub') = 1
  BY <1>1, <1>2
<1>4. LeaveInv'
  BY <1>1 DEF CalmHyp, LeaveInv, Down, Gone, Left
<1>5. AskInv'
  BY <1>1, <1>2, <1>3 DEF CalmHyp, AskInv
<1>6. ServedInv'
  BY <1>1 DEF CalmHyp, ServedInv, AwaitsOk, ForwardsOk, AwaitsDone, Over, Left, AskInv
<1> QED BY <1>4, <1>5, <1>6

\* moqt-sub reads what the relay tells it.
LEMMA Hears ==
    ASSUME CalmHyp, Gone /\ Flushed => Flushed', SubscribeAnswered \/ RecvPublishDone,
           UNCHANGED <<publisher, relay>>
    PROVE  ControlInv' /\ (request = "upstream" => ~Left')
<1> USE DEF ControlInv
<1>1. /\ UNCHANGED <<main, request, handle, serving, ToPublisher, FromSub, Said>>
      /\ Heard # << >> /\ Heard' = Tail(Heard)
  <2>1. /\ answers["subscribe"] # << >>
        /\ answers' = [answers EXCEPT !["subscribe"] = Tail(@)]
        /\ UNCHANGED <<bidi, main, request, handle, serving>>
    BY DEF SubscribeAnswered, RecvPublishDone, Read, requests, publisher, relay
  <2> QED BY <2>1 DEF ToPublisher, FromSub, Said, Heard, CalmHyp, AnswersOK, Request, Upstream
<1>2. \/ /\ sub = "subscribe" /\ Head(Heard).type = "OK" /\ sub' = "await" /\ UNCHANGED link
      \/ /\ sub = "await" /\ Head(Heard).type = "DONE" /\ sub' = "linger" /\ UNCHANGED link
      \/ /\ sub = "subscribe" /\ Head(Heard).type # "OK" /\ LeaveMain
      \/ /\ sub = "await" /\ Head(Heard).type # "DONE" /\ LeaveMain
  BY DEF SubscribeAnswered, RecvPublishDone, Heard
<1>3. LeaveMain => Left' /\ (Down("pub")' <=> Down("pub")) /\ Down("sub")'
  BY Ends DEF LeaveMain, Close, Left, Down, CalmHyp, LinkOK
<1>4. LeaveInv'
  <2>1. CASE LeaveMain
    BY <1>1, <1>3, <2>1 DEF CalmHyp, LeaveInv, Gone
  <2> QED BY <1>1, <1>2, <2>1 DEF CalmHyp, LeaveInv, Down, Gone, Left
<1>5. AskInv'
  BY <1>1, <1>2 DEF CalmHyp, AskInv, LeaveMain
<1>6. ASSUME request = "upstream" PROVE (AwaitsDone \/ Over)' /\ ~Left'
  <2>1. AwaitsDone \/ Over
    BY <1>1, <1>6 DEF CalmHyp, AskInv, ServedInv, AwaitsOk, ForwardsOk
  <2>2. CASE AwaitsDone
    <3>1. sub = "subscribe" /\ FirstIs(Heard, "OK") /\ Tail(Heard) = << >>
      BY <1>1, <2>2 DEF AwaitsDone
    <3>2. sub' = "await" /\ Heard' = << >>
      BY <1>1, <1>2, <3>1 DEF FirstIs
    <3> QED BY <1>1, <2>2, <3>2 DEF AwaitsDone, SaidDone, Gone, Left
  <2>3. CASE Over
    <3>1. \/ sub = "subscribe" /\ FirstIs(Heard, "OK") /\ FirstIs(Tail(Heard), "DONE")
          \/ sub = "await" /\ FirstIs(Heard, "DONE")
      BY <1>2, <2>3 DEF Over, Left
    <3>2. (sub' = "await" /\ FirstIs(Heard', "DONE")) \/ sub' = "linger"
      BY <1>1, <1>2, <3>1 DEF FirstIs
    <3> QED BY <1>1, <2>3, <3>2 DEF Over, Left, FirstIs
  <2> QED BY <2>1, <2>2, <2>3
<1> QED BY <1>1, <1>4, <1>5, <1>6 DEF ServedInv

\* moqt-sub leaves after PUBLISH_DONE.
LEMMA Closes ==
    ASSUME CalmHyp, Gone /\ Flushed => Flushed',
           NEW slept, CloseSubscriber(slept) \/ SubscriberEnds, UNCHANGED <<publisher, relay>>
    PROVE  ControlInv'
<1> USE DEF ControlInv
<1>1. /\ UNCHANGED <<main, request, handle, serving, ToPublisher, FromSub, Said, Heard>>
      /\ sub \in {"linger", "closing"} /\ Left'
      /\ \/ sub = "closing" /\ UNCHANGED link
         \/ link' = [link EXCEPT !["sub"] = "down"]
  BY DEF CloseSubscriber, SubscriberEnds, Close, session, requests, publisher, relay, ToPublisher,
         FromSub, Said, Heard, Left
<1>2. (Down("pub")' <=> Down("pub")) /\ Down("sub")'
  BY <1>1, Ends DEF Down, CalmHyp, LinkOK, LeaveInv, Left
<1>3. LeaveInv'
  BY <1>1, <1>2 DEF CalmHyp, LeaveInv, Gone
<1>4. AskInv'
  BY <1>1 DEF CalmHyp, AskInv, Left
<1>5. ServedInv'
  <2> SUFFICES ASSUME request = "upstream" PROVE Over'
    BY <1>1 DEF ServedInv
  <2>1. Over
    BY <1>1 DEF CalmHyp, AskInv, ServedInv, AwaitsOk, ForwardsOk, AwaitsDone
  <2> QED BY <1>1, <2>1 DEF Over
<1> QED BY <1>3, <1>4, <1>5

\* What moqt-sub does.
LEMMA SubscriberControls ==
    ASSUME CalmHyp, Gone /\ Flushed => Flushed', Subscriber \/ ReceiveTask,
           UNCHANGED <<publisher, relay>>
    PROVE  ControlInv'
<1> CalmTypes /\ ControlInv /\ UNCHANGED <<main, request, handle, serving>>
  BY DEF CalmHyp, publisher, relay
<1>1. CASE UNCHANGED <<link, sub, bidi, answers>>
  BY <1>1, ControlKept DEF ControlVars, ToPublisher, FromSub, Said, Heard
<1>2. ~SubscriberFails
  BY DEF SubscriberFails, CalmHyp, ControlInv, LeaveInv, Left
<1> QED BY <1>1, <1>2, Subscribes, Hears, Closes
        DEF Subscriber, SubscriberMain, ConnectSubscriber, ReadSetup, ReceiveTask, TakeGroup,
            ReceiveEnds, ReadObject, EndOfGroup, requests, session, subscriber

\* Neither leaves.
LEMMA LeaveKept ==
    ASSUME LeaveInv, Gone /\ Flushed => Flushed', UNCHANGED <<link, main, request, sub>>,
           Down("pub") => handle'[request] = handle[request]
    PROVE  LeaveInv'
BY DEF LeaveInv, Down, Gone, Left

\* What is told to moqt-sub, and nothing else.
LEMMA HeardMore ==
    ASSUME CalmHyp, NEW m \in MessageTypes, Answer("subscribe", m)
    PROVE  Said' = Said /\ (Heard' = Heard \/ (Up("sub") /\ Heard' = Append(Heard, m)))
           /\ (Up("sub") => Heard' = Append(Heard, m))
<1>1. "subscribe" \in Request /\ "upstream" \in Request /\ ConnOf("subscribe") = "sub"
  BY DEF Request, Upstream, ConnOf
<1> QED BY <1>1 DEF Answer, Said, Heard, CalmHyp, AnswersOK

\* What follows PUBLISH_DONE does not hide it.
LEMMA OverKept ==
    ASSUME CalmTypes, Over, NEW m \in MessageTypes, UNCHANGED <<main, sub, handle>>,
           Heard' = Heard \/ Heard' = Append(Heard, m)
    PROVE  Over'
<1>1. Heard \in Seq(MessageTypes) /\ (Heard # << >> => Tail(Heard) \in Seq(MessageTypes))
  BY DEF CalmTypes
<1>2. \A type : FirstIs(Heard, type) => FirstIs(Heard', type)
  BY <1>1, FirstAppended DEF FirstIs
<1>3. \A type : FirstIs(Heard, "OK") /\ FirstIs(Tail(Heard), type) => FirstIs(Tail(Heard'), type)
  <2> TAKE type
  <2> HAVE FirstIs(Heard, "OK") /\ FirstIs(Tail(Heard), type)
  <2>1. CASE Heard' = Append(Heard, m)
    <3>1. Tail(Heard') = Append(Tail(Heard), m)
      BY <1>1, <2>1, FirstAppended DEF FirstIs
    <3>2. Tail(Heard) \in Seq(MessageTypes) /\ Tail(Heard) # << >> /\ Head(Tail(Heard)).type = type
      BY <1>1 DEF FirstIs
    <3> DEFINE t == Tail(Heard)
    <3>3. Append(t, m) # << >> /\ Head(Append(t, m)) = Head(t)
      BY <3>2, FirstAppended
    <3> QED BY <3>1, <3>2, <3>3 DEF FirstIs
  <2> QED BY <2>1
<1>4. Over => Over'
  <2>1. \/ FirstIs(Heard, "OK") /\ FirstIs(Tail(Heard), "DONE") /\ FirstIs(Heard', "OK")
           /\ FirstIs(Tail(Heard'), "DONE") /\ sub = "subscribe"
        \/ sub = "await" /\ FirstIs(Heard', "DONE")
        \/ sub = "linger" \/ Left
    BY <1>2, <1>3 DEF Over
  <2> QED BY <2>1 DEF Over, Left, FirstIs
<1> QED BY <1>4

\* remove_session, when one of the two has left: a request dropped then comes after PUBLISH_DONE.
LEMMA Removes ==
    ASSUME CalmHyp, Gone /\ Flushed => Flushed', NEW c \in Conn, RemoveSession(c)
    PROVE  ControlInv'
<1> USE DEF ControlInv
<1> DEFINE m == Message("FIN", 0)
<1>1. /\ UNCHANGED <<link, main, request, sub, handle, ToPublisher, FromSub>> /\ Down(c)
      /\ \/ UNCHANGED answers
         \/ handle["upstream"] = "over" /\ Answer("subscribe", m)
  <2>1. UNCHANGED <<link, bidi, main, request, sub, handle>> /\ Down(c)
    BY DEF RemoveSession, requests, Clients, publisher, subscriber
  <2>2. \/ UNCHANGED answers
        \/ handle["upstream"] = "over" /\ Answer("subscribe", m)
    BY DEF RemoveSession, DropRequest
  <2> QED BY <2>1, <2>2 DEF ToPublisher, FromSub
<1>2. m \in MessageTypes
  BY MessagesTyped
<1> HIDE DEF m
<1>3. /\ Said' = Said /\ (Heard' = Heard \/ Heard' = Append(Heard, m))
      /\ handle["upstream"] # "over" => Heard' = Heard
  BY <1>1, <1>2, HeardMore DEF Said, Heard
<1>4. LeaveInv'
  BY <1>1, LeaveKept DEF CalmHyp
<1>5. AskInv'
  BY <1>1, <1>3 DEF CalmHyp, AskInv
<1>6. ASSUME request = "upstream" PROVE Over'
  <2>1. Gone \/ Left
    BY <1>1 DEF CalmHyp, LeaveInv, Conn
  <2>2. Over
    BY <1>6, <2>1 DEF CalmHyp, AskInv, ServedInv, AwaitsOk, ForwardsOk, AwaitsDone, Left
  <2> QED BY <1>1, <1>2, <1>3, <2>2, OverKept DEF CalmHyp
<1> QED BY <1>1, <1>4, <1>5, <1>6 DEF ServedInv

\* The relay takes moqt-sub's SUBSCRIBE; moqt-pub has none for it yet.
LEMMA HandlesSubscribe ==
    ASSUME CalmHyp, Gone /\ Flushed => Flushed', HandleSubscribe
    PROVE  ControlInv'
<1> USE DEF ControlInv
<1>1. /\ UNCHANGED <<link, main, request, sub, serving, Said>> /\ FromSub # << >>
  <2>1. UNCHANGED answers \/ \E m : Answer("subscribe", m)
    BY DEF HandleSubscribe
  <2>2. UNCHANGED Said
    BY <2>1 DEF Answer, Said, CalmHyp, AnswersOK, Request, Upstream
  <2> QED BY <2>2 DEF HandleSubscribe, Clients, publisher, subscriber, FromSub
<1>2. /\ Len(FromSub) = 1 /\ handle["upstream"] = "none" /\ sub = "subscribe" /\ Heard = << >>
      /\ request # "upstream" /\ ~Among("upstream", ToPublisher)
  BY <1>1 DEF CalmHyp, AskInv
<1> DEFINE left == [bidi EXCEPT !["sub"]["client"] = Tail(@)]
<1>3. /\ left \in [Conn -> [End -> Seq(Request)]]
      /\ left["sub"]["client"] = << >> /\ left["pub"]["relay"] = ToPublisher
  <2>1. bidi["sub"]["client"] \in Seq(Request) /\ FromSub = bidi["sub"]["client"]
    BY Ends DEF CalmHyp, RequestsOK, FromSub
  <2>2. Tail(bidi["sub"]["client"]) \in Seq(Request) /\ Tail(bidi["sub"]["client"]) = << >>
    <3>1. FromSub \in Seq(Request) /\ Len(FromSub) = 1
      BY <1>2, <2>1
    <3>2. Tail(FromSub) = << >>
      BY <3>1, OneLeft
    <3>3. << >> \in Seq(Request)
      OBVIOUS
    <3>4. Tail(bidi["sub"]["client"]) = << >>
      BY <2>1, <3>2, Zenon
    <3> QED BY <3>3, <3>4, Zenon
  <2>3. left = [bidi EXCEPT !["sub"]["client"] = Tail(bidi["sub"]["client"])]
    OBVIOUS
  <2>4. left \in [Conn -> [End -> Seq(Request)]]
    BY <2>2, <2>3, PutAt, Ends DEF CalmHyp, RequestsOK
  <2> QED BY <2>2, <2>3, <2>4, Ends DEF CalmHyp, RequestsOK, ToPublisher
<1>4. CASE registered /\ Up("pub")
  <2>1. /\ handle' = [handle EXCEPT !["upstream"] = "awaitOk"] /\ UNCHANGED answers
        /\ bidi' = [left EXCEPT !["pub"]["relay"] = Append(@, "upstream")]
    BY <1>4 DEF HandleSubscribe, Goto
  <2> HIDE DEF left
  <2>2. FromSub' = << >> /\ Heard' = Heard
    BY <1>3, <2>1, Ends DEF FromSub, Heard
  <2>3. handle'["upstream"] = "awaitOk"
    BY <2>1 DEF CalmHyp, CalmTypes, Upstream
  <2>4. LeaveInv'
    BY <1>1, <1>4, LeaveKept DEF CalmHyp, Up, Down
  <2>5. AskInv'
    BY <1>1, <1>2, <2>2, <2>3 DEF CalmHyp, AskInv
  <2> QED BY <1>1, <1>2, <2>4, <2>5 DEF ServedInv
<1>5. CASE ~(registered /\ Up("pub"))
  <2>1. handle' = [handle EXCEPT !["upstream"] = "over"] /\ bidi' = left
    BY <1>5 DEF HandleSubscribe, Goto
  <2> HIDE DEF left
  <2>2. FromSub' = << >> /\ ToPublisher' = ToPublisher
    BY <1>3, <2>1 DEF FromSub, ToPublisher
  <2>3. handle'["upstream"] = "over" /\ (request \in Upstream => handle'[request] = handle[request])
    BY <1>2, <2>1 DEF CalmHyp, CalmTypes, Upstream
  <2>4. LeaveInv'
    BY <1>1, <2>3, LeaveKept DEF CalmHyp, CalmTypes, LeaveInv
  <2>5. AskInv'
    BY <1>1, <1>2, <2>2, <2>3 DEF CalmHyp, AskInv
  <2> QED BY <1>1, <1>2, <2>4, <2>5 DEF ServedInv
<1> QED BY <1>4, <1>5

\* A task that is not over moves on.
LEMMA GoesOn ==
    ASSUME CalmHyp, NEW u \in Upstream, handle[u] # "over", NEW w, Goto(u, w)
    PROVE  /\ Down("pub") => handle'[request] = handle[request]
           /\ handle'["upstream"] = IF u = "upstream" THEN w ELSE handle["upstream"]
<1>1. "upstream" \in Upstream /\ handle \in [Upstream -> HandleState]
  BY DEF Upstream, CalmHyp, CalmTypes
<1>2. Down("pub") => request \in Upstream /\ request # u
  BY DEF CalmHyp, CalmTypes, ControlInv, LeaveInv
<1> QED BY <1>1, <1>2 DEF Goto

\* What the relay does for the other subscriber.
LEMMA OtherControls ==
    ASSUME CalmHyp, Gone /\ Flushed => Flushed',
           UNCHANGED <<link, main, request, sub, FromSub, Said, Heard>>,
           Down("pub") => handle'[request] = handle[request],
           handle'["upstream"] = handle["upstream"],
           "upstream" \in serving' <=> "upstream" \in serving,
           ToPublisher' = ToPublisher \/ ToPublisher' = Append(ToPublisher, "other")
    PROVE  ControlInv'
<1> USE DEF ControlInv
<1>1. LeaveInv'
  BY LeaveKept DEF CalmHyp
<1>2. Among("upstream", ToPublisher') => Among("upstream", ToPublisher)
  <2>1. ToPublisher \in Seq(Request) /\ "other" \in Request
    BY DEF CalmHyp, CalmTypes, Request, Upstream
  <2>2. Among("upstream", Append(ToPublisher, "other")) => Among("upstream", ToPublisher)
    BY <2>1, AmongAppend
  <2> QED BY <2>2
<1>3. AskInv'
  BY <1>2 DEF CalmHyp, AskInv
<1>4. ServedInv'
  BY DEF CalmHyp, ServedInv, AwaitsOk, ForwardsOk, AwaitsDone, Over, Gone, Left, SaidDone, FirstIs
<1> QED BY <1>1, <1>3, <1>4

\* The subscription is recorded before SUBSCRIBE_OK is forwarded.
LEMMA RecordsSubscription ==
    ASSUME CalmHyp, Gone /\ Flushed => Flushed', NEW u \in Upstream, RecordSubscription(u)
    PROVE  ControlInv'
<1> USE DEF ControlInv
<1>1. /\ UNCHANGED <<link, main, request, sub, ToPublisher, FromSub>>
      /\ handle[u] = "awaitOk" /\ serving' = serving \cup {u}
      /\ Goto(u, IF u = "upstream" THEN "forwardOk" ELSE "awaitDone")
      /\ answers[u] # << >> /\ Head(answers[u]) = Message("OK", 0)
      /\ answers' = [answers EXCEPT ![u] = Tail(@)]
  BY DEF RecordSubscription, Read, requests, Clients, publisher, subscriber, ToPublisher, FromSub
<1>2. /\ Down("pub") => handle'[request] = handle[request]
      /\ handle'["upstream"] = IF u = "upstream" THEN "forwardOk" ELSE handle["upstream"]
  BY <1>1, GoesOn
<1>3. Heard' = Heard /\ Said' = IF u = "upstream" THEN Tail(Said) ELSE Said
  BY <1>1 DEF Heard, Said, CalmHyp, AnswersOK, Request, Upstream
<1>4. CASE u # "upstream"
  BY <1>1, <1>2, <1>3, <1>4, OtherControls
<1>5. CASE u = "upstream"
  <2>1. Said # << >>
    BY <1>1, <1>5 DEF Said
  <2>2. LeaveInv'
    BY <1>1, <1>2, LeaveKept DEF CalmHyp
  <2>3. AskInv'
    BY <1>1, <1>2, <1>3, <1>5, <2>1 DEF CalmHyp, AskInv
  <2>4. ASSUME request = "upstream" PROVE ForwardsOk'
    <3>1. AwaitsOk /\ main # "accept" /\ SaidDone(Tail(Said))
      BY <1>1, <1>5, <2>1, <2>4
         DEF CalmHyp, ServedInv, AwaitsOk, ForwardsOk, AwaitsDone, Over
    <3>2. sub = "subscribe" /\ Heard = << >>
      BY <3>1 DEF AwaitsOk, CalmHyp, AskInv
    <3>3. SaidDone(Said)'
      BY <1>1, <1>3, <1>5, <3>1 DEF SaidDone, FirstIs
    <3> QED BY <1>1, <1>2, <1>3, <1>5, <3>1, <3>2, <3>3 DEF AwaitsOk, ForwardsOk, Gone
  <2> QED BY <1>1, <2>2, <2>3, <2>4 DEF ServedInv
<1> QED BY <1>4, <1>5

\* SUBSCRIBE_OK reaches moqt-sub first.
LEMMA ForwardsSubscribeOk ==
    ASSUME CalmHyp, Gone /\ Flushed => Flushed', ForwardOk
    PROVE  ControlInv'
<1> USE DEF ControlInv
<1> DEFINE m == Message("OK", 0)
<1>1. /\ UNCHANGED <<link, main, request, sub, serving, ToPublisher, FromSub>>
      /\ handle["upstream"] = "forwardOk" /\ "upstream" \in Upstream
  BY DEF ForwardOk, requests, Clients, publisher, subscriber, ToPublisher, FromSub, Upstream
<1>2. m \in MessageTypes /\ m.type = "OK"
  BY MessagesTyped
<1>3. CASE Up("sub")
  <2>1. Goto("upstream", "awaitDone") /\ Answer("subscribe", m)
    BY <1>3 DEF ForwardOk
  <2> HIDE DEF m
  <2>2. Said' = Said /\ Heard' = Append(Heard, m)
    BY <1>2, <1>3, <2>1, HeardMore
  <2>3. /\ Down("pub") => handle'[request] = handle[request]
        /\ handle'["upstream"] = "awaitDone"
    BY <1>1, <2>1, GoesOn
  <2>4. LeaveInv'
    BY <1>1, <2>3, LeaveKept DEF CalmHyp
  <2>5. AskInv'
    BY <1>1, <2>2, <2>3 DEF CalmHyp, AskInv
  <2>6. ASSUME request = "upstream" PROVE AwaitsDone'
    <3>1. ForwardsOk
      BY <1>1, <2>6 DEF CalmHyp, ServedInv, AwaitsOk, AwaitsDone, Over
    <3>2. FirstIs(Heard', "OK") /\ Tail(Heard') = << >>
      BY <1>2, <2>2, <3>1, FirstAppended DEF ForwardsOk, FirstIs, CalmHyp, CalmTypes
    <3> QED BY <1>1, <2>2, <2>3, <3>1, <3>2 DEF ForwardsOk, AwaitsDone, Gone, SaidDone, FirstIs
  <2> QED BY <1>1, <2>4, <2>5, <2>6 DEF ServedInv
<1>4. CASE ~Up("sub")
  <2>1. Goto("upstream", "over") /\ UNCHANGED <<Said, Heard>>
    BY <1>4 DEF ForwardOk, Said, Heard
  <2>2. /\ Down("pub") => handle'[request] = handle[request]
        /\ handle'["upstream"] = "over"
    BY <1>1, <2>1, GoesOn
  <2>3. LeaveInv'
    BY <1>1, <2>2, LeaveKept DEF CalmHyp
  <2>4. AskInv'
    BY <1>1, <2>1, <2>2 DEF CalmHyp, AskInv
  <2>5. request # "upstream"
    <3>1. Left
      BY <1>4, Ends DEF CalmHyp, LeaveInv, LinkOK, LinkState, Up, Down
    <3> QED BY <1>1, <3>1 DEF CalmHyp, ServedInv, AwaitsOk, ForwardsOk, AwaitsDone, Over, Left
  <2> QED BY <1>1, <2>3, <2>4, <2>5 DEF ServedInv
<1> QED BY <1>3, <1>4

\* PUBLISH_DONE reaches moqt-sub, which is still there.
LEMMA ForwardsDone ==
    ASSUME CalmHyp, Gone /\ Flushed => Flushed', NEW u \in Upstream, ForwardPublishDone(u)
    PROVE  ControlInv'
<1> USE DEF ControlInv
<1> DEFINE m == IF u \in serving THEN Head(answers[u]) ELSE Message("FIN", 0)
<1>1. /\ UNCHANGED <<link, main, request, sub, serving, ToPublisher, FromSub>>
      /\ handle[u] = "awaitDone" /\ Goto(u, "over") /\ answers[u] # << >>
  BY DEF ForwardPublishDone, requests, Clients, publisher, subscriber, ToPublisher, FromSub
<1>2. /\ Down("pub") => handle'[request] = handle[request]
      /\ handle'["upstream"] = IF u = "upstream" THEN "over" ELSE handle["upstream"]
  BY <1>1, GoesOn
<1>3. /\ Said' = IF u = "upstream" THEN Tail(Said) ELSE Said
      /\ Heard' = IF u = "upstream" /\ Up("sub") THEN Append(Heard, m) ELSE Heard
  <2>1. "upstream" \in Request /\ "subscribe" \in Request /\ u # "subscribe"
    BY DEF Request, Upstream
  <2> QED BY <2>1 DEF ForwardPublishDone, Said, Heard
<1>4. CASE u # "upstream"
  BY <1>1, <1>2, <1>3, <1>4, OtherControls
<1>5. CASE u = "upstream"
  <2>1. Said # << >> /\ Said \in Seq(MessageTypes)
    BY <1>1, <1>5 DEF Said, CalmHyp, CalmTypes
  <2>2. LeaveInv'
    BY <1>1, <1>2, LeaveKept DEF CalmHyp
  <2>3. AskInv'
    BY <1>1, <1>2, <1>3, <1>5, <2>1 DEF CalmHyp, AskInv
  <2>4. ASSUME request = "upstream" PROVE Over'
    <3>1. AwaitsDone /\ main = "linger" /\ FirstIs(Said, "DONE")
      BY <1>1, <1>5, <2>1, <2>4
         DEF CalmHyp, ServedInv, AwaitsOk, ForwardsOk, AwaitsDone, Over, SaidDone
    <3>2. m = Head(Said) /\ m \in MessageTypes /\ m.type = "DONE"
      <4>1. m = Head(Said)
        BY <1>5, <3>1 DEF AwaitsDone, Said
      <4>2. Head(Said) \in MessageTypes
        BY <2>1
      <4> QED BY <3>1, <4>1, <4>2 DEF FirstIs
    <3> HIDE DEF m
    <3>3. Up("sub")
      BY <3>1, Ends DEF AwaitsDone, CalmHyp, LeaveInv, LinkOK, LinkState, Up, Down, Left
    <3>4. Heard' = Append(Heard, m) /\ Heard \in Seq(MessageTypes)
      BY <1>3, <1>5, <3>3 DEF CalmHyp, CalmTypes
    <3>5. CASE sub = "subscribe" /\ FirstIs(Heard, "OK") /\ Tail(Heard) = << >>
      <4>1. FirstIs(Heard', "OK") /\ Tail(Heard') = Append(<< >>, m)
        <5>1. /\ Append(Heard, m) # << >> /\ Head(Append(Heard, m)) = Head(Heard)
              /\ Tail(Append(Heard, m)) = Append(Tail(Heard), m)
          BY <3>2, <3>4, <3>5, FirstAppended DEF FirstIs
        <5> QED BY <3>4, <3>5, <5>1 DEF FirstIs
      <4>2. FirstIs(Append(<< >>, m), "DONE")
        BY <3>2, FirstAppended DEF FirstIs
      <4> QED BY <1>1, <1>2, <1>5, <3>1, <3>5, <4>1, <4>2 DEF Over, FirstIs
    <3>6. CASE sub = "await" /\ Heard = << >>
      <4>1. FirstIs(Heard', "DONE")
        BY <3>2, <3>4, <3>6, FirstAppended DEF FirstIs
      <4> QED BY <1>1, <1>2, <1>5, <3>1, <3>6, <4>1 DEF Over, FirstIs
    <3> QED BY <3>1, <3>5, <3>6 DEF AwaitsDone
  <2> QED BY <1>1, <2>2, <2>3, <2>4 DEF ServedInv
<1> QED BY <1>4, <1>5

\* moqt-pub has left: the request that is lost is not the one it took.
LEMMA LosesUpstream ==
    ASSUME CalmHyp, Gone /\ Flushed => Flushed', NEW u \in Upstream, UpstreamLost(u)
    PROVE  ControlInv'
<1> USE DEF ControlInv
<1> DEFINE m == Message("FIN", 0)
<1>1. /\ UNCHANGED <<link, main, request, sub, serving, ToPublisher, FromSub>> /\ Down("pub")
      /\ handle[u] \in {"awaitOk", "awaitDone"} /\ Goto(u, "over")
  BY DEF UpstreamLost, requests, Clients, publisher, subscriber, ToPublisher, FromSub
<1>2. /\ Down("pub") => handle'[request] = handle[request]
      /\ handle'["upstream"] = IF u = "upstream" THEN "over" ELSE handle["upstream"]
  BY <1>1, GoesOn
<1>3. UNCHANGED answers \/ (u = "upstream" /\ Answer("subscribe", m))
  BY DEF UpstreamLost, DropRequest
<1>4. CASE u # "upstream"
  BY <1>1, <1>2, <1>3, <1>4, OtherControls DEF Said, Heard
<1>5. CASE u = "upstream"
  <2>1. m \in MessageTypes
    BY MessagesTyped
  <2> HIDE DEF m
  <2>2. Said' = Said
    BY <1>3, <2>1, HeardMore DEF Said
  <2>3. LeaveInv'
    BY <1>1, <1>2, LeaveKept DEF CalmHyp
  <2>4. request # None /\ Gone
    BY <1>1 DEF CalmHyp, LeaveInv
  <2>5. request # "upstream"
    BY <1>1, <1>5, <2>4 DEF CalmHyp, ServedInv, AwaitsOk, ForwardsOk, AwaitsDone, Over
  <2>6. AskInv'
    BY <1>1, <1>2, <1>5, <2>2, <2>4, <2>5 DEF CalmHyp, AskInv
  <2> QED BY <1>1, <2>3, <2>5, <2>6 DEF ServedInv
<1> QED BY <1>4, <1>5

\* Someone else asks for another track.
LEMMA AsksOther ==
    ASSUME CalmHyp, Gone /\ Flushed => Flushed', OtherAsks
    PROVE  ControlInv'
<1>1. /\ UNCHANGED <<link, main, request, sub, serving, answers>>
      /\ handle["other"] = "none" /\ Goto("other", "awaitOk") /\ "other" \in Upstream
  BY DEF OtherAsks, Clients, publisher, subscriber, Upstream
<1>2. FromSub' = FromSub /\ ToPublisher' = Append(ToPublisher, "other")
  <2>1. bidi' = [bidi EXCEPT !["pub"]["relay"] = Append(@, "other")]
    BY DEF OtherAsks, OpenRequest, ConnOf, From, Upstream
  <2> QED BY <2>1, Ends DEF ToPublisher, FromSub, CalmHyp, RequestsOK
<1>3. /\ Down("pub") => handle'[request] = handle[request]
      /\ handle'["upstream"] = handle["upstream"]
  BY <1>1, GoesOn
<1> QED BY <1>1, <1>2, <1>3, OtherControls DEF Said, Heard

\* What the relay does without a word to either about the SUBSCRIBE.
LEMMA RelayControls ==
    ASSUME CalmHyp, Gone /\ Flushed => Flushed', Relay
    PROVE  ControlInv'
<1>1. ASSUME UNCHANGED <<link, main, request, sub, handle, serving>>,
             UNCHANGED <<ToPublisher, FromSub, Said, Heard>>
      PROVE  ControlInv'
  BY <1>1, ControlKept DEF CalmHyp, ControlVars
<1>2. ASSUME NEW c \in Conn, RelaySetup(c) PROVE ControlInv'
  <2>1. UNCHANGED <<link, bidi, answers, main, request, sub, handle, serving>>
    BY <1>2 DEF RelaySetup, ReadSetup, requests, Clients, publisher, subscriber, relay
  <2> QED BY <1>1, <2>1 DEF ToPublisher, FromSub, Said, Heard
<1>3. CASE RegisterNamespace
  <2>1. UNCHANGED <<link, main, request, sub, handle, serving>>
    BY <1>3 DEF RegisterNamespace, Clients, publisher, subscriber
  <2>2. UNCHANGED <<ToPublisher, FromSub>>
    <3>1. bidi' = [bidi EXCEPT !["pub"]["client"] = Tail(@)]
      BY <1>3 DEF RegisterNamespace, NextRequest, Peer
    <3> QED BY <3>1, Ends DEF ToPublisher, FromSub, CalmHyp, RequestsOK
  <2>3. UNCHANGED <<Said, Heard>>
    BY <1>3 DEF RegisterNamespace, Answer, Said, Heard, CalmHyp, AnswersOK, Request, Upstream
  <2> QED BY <1>1, <2>1, <2>2, <2>3
<1>4. ASSUME NEW g \in Group, ReceiveStream(g) \/ HandleStream(g) PROVE ControlInv'
  <2>1. UNCHANGED <<link, bidi, answers, main, request, sub, handle, serving>>
    BY <1>4 DEF ReceiveStream, HandleStream, LookUp, ForwardObject, EndOfStream, requests, Clients,
       publisher, subscriber, relay, session
  <2> QED BY <1>1, <2>1 DEF ToPublisher, FromSub, Said, Heard
<1>5. ASSUME NEW c \in Conn, HandleConnection(c) PROVE ControlInv'
  BY <1>2, <1>3, <1>4, <1>5, Removes, HandlesSubscribe DEF HandleConnection
<1>6. ASSUME NEW u \in Upstream, HandleRequest(u) PROVE ControlInv'
  BY <1>6, RecordsSubscription, ForwardsSubscribeOk, ForwardsDone, LosesUpstream DEF HandleRequest
<1> QED BY <1>4, <1>5, <1>6 DEF Relay

\* moqt-pub writes nothing after it has left, and the relay reads nothing more.
LEMMA FlushedKept ==
    ASSUME TypeInv, QueueInv, [Next]_vars, Gone, Flushed
    PROVE  Flushed'
<1> UniOK /\ UNCHANGED stream
  <2>1. UniOK
    BY DEF TypeInv, WiresOK
  <2>2. UNCHANGED publisher => UNCHANGED stream
    BY DEF publisher, loopVars
  <2>3. StdinThread \/ Publisher => UNCHANGED stream
    <3>1. StdinThread => UNCHANGED stream
      BY DEF StdinThread, StdinEnds, ReadFrame, BlockingSend, StdinStep, loopVars
    <3>2. ASSUME NEW slept, NEW lingered, PublisherMain(slept, lingered) PROVE UNCHANGED stream
      BY <3>2 DEF Gone, PublisherMain, ConnectPublisher, PublishNamespace, NamespaceAnswered,
         TakeSubscribe, Accept, PublisherFails, RecvFrame, OpenSubgroup, WriteFrame, ChannelClosed,
         WriteDemoObject, DemoSleeps, SendPublishDone, Linger, ExitPublisher, publisher, loopVars
    <3> QED BY <3>1, <3>2 DEF Publisher
  <2> QED BY <2>1, <2>2, <2>3, RelayUnmoved DEF Next, Running, OtherAsks, Clients, vars
<1>1. UNCHANGED task => Flushed'
  BY DEF Flushed
<1>2. ASSUME NEW g \in Group PROVE ~ReceiveStream(g) /\ ~HandleStream(g)
  <2>1. ~ReceiveStream(g)
    BY ReceivedOnce DEF QueueInv, Flushed
  <2>2. task[g] \in {"none", "over"}
    BY DEF QueueInv, Flushed
  <2> QED BY <2>1, <2>2 DEF HandleStream, LookUp, ForwardObject, EndOfStream
<1>3. UNCHANGED task
  <2>1. ASSUME NEW c \in Conn, HandleConnection(c) PROVE UNCHANGED task
    BY <1>2, <2>1 DEF HandleConnection, RelaySetup, RemoveSession, RegisterNamespace,
       HandleSubscribe, data
  <2>2. ASSUME NEW u \in Upstream, HandleRequest(u) PROVE UNCHANGED task
    BY <2>2 DEF HandleRequest, RecordSubscription, ForwardPublishDone, UpstreamLost, ForwardOk, data
  <2>3. Relay => UNCHANGED task
    BY <1>2, <2>1, <2>2 DEF Relay
  <2> QED BY <2>3 DEF Next, Running, OtherAsks, data, vars
<1> QED BY <1>1, <1>3

\* The lemmas above ask for no more than the invariant says.
LEMMA CalmHolds == TypeInv /\ Calm /\ ControlInv => CalmHyp
<1> SUFFICES ASSUME TypeInv, Calm, ControlInv PROVE CalmHyp
  OBVIOUS
<1>1. main # "sleep"
  BY DEF TypeInv, CountInv, PublisherInv, PipeInv, Calm
<1> QED BY <1>1, CalmTyped DEF CalmHyp, TypeInv, CountInv, WiresOK

\* Who stands where in a calm track, after any step.
LEMMA ControlStep ==
    ASSUME TypeInv, QueueInv, Calm, ControlInv, [Next]_vars
    PROVE  ControlInv'
<1>1. CalmHyp
  BY CalmHolds
<1>2. Gone /\ Flushed => Flushed'
  BY FlushedKept
<1>3. Announced \in Nat
  <2>1. streamCount \in Nat
    BY DEF TypeInv, CountInv, PublisherInv, PublisherTypeOK
  <2> QED BY <2>1 DEF Announced, Calm
<1>4. CASE UNCHANGED vars
  <2>1. UNCHANGED ControlVars /\ UNCHANGED main
    BY <1>4 DEF vars, ControlVars, session, publisher, subscriber, relay, ToPublisher, FromSub,
       Said, Heard
  <2> QED BY <1>1, <1>2, <2>1, ControlKept DEF CalmHyp
<1>5. ~Faults
  BY DEF Faults, Calm
<1> QED BY <1>1, <1>2, <1>3, <1>4, <1>5, PublisherControls, SubscriberControls, RelayControls,
        AsksOther DEF Next, Running

\* Taking the first element leaves the others.
LEMMA OthersAmong ==
    ASSUME NEW X, NEW s \in Seq(X), s # << >>, NEW x, Among(x, s), x # Head(s)
    PROVE  Among(x, Tail(s))
<1>1. PICK i \in 1..Len(s) : s[i] = x
  BY DEF Among
<1>2. i # 1 /\ Len(s) \in Nat /\ Len(Tail(s)) = Len(s) - 1 /\ i \in Nat
  BY <1>1
<1>3. i - 1 \in 1..Len(Tail(s)) /\ Tail(s)[i - 1] = s[(i - 1) + 1]
  <2>1. i - 1 \in 1..(Len(s) - 1)
    BY <1>2
  <2> QED BY <1>2, <2>1
<1>4. (i - 1) + 1 = i
  BY <1>2
<1> QED BY <1>1, <1>3, <1>4 DEF Among

\* Copies that were opened before wait, or are taken.
LEMMA WaitsKept ==
    ASSUME UniOK, played \in Seq(Group), CopyWaits,
           \A g \in Group : copy'[g].st # "none" => copy[g].st # "none",
           \/ uni'["sub"]["relay"] = uni["sub"]["relay"] /\ UNCHANGED played
           \/ /\ uni["sub"]["relay"] # << >>
              /\ uni'["sub"]["relay"] = Tail(uni["sub"]["relay"])
              /\ \/ Head(uni["sub"]["relay"]) \notin Group /\ UNCHANGED played
                 \/ /\ Head(uni["sub"]["relay"]) \in Group
                    /\ played' = Append(played, Head(uni["sub"]["relay"]))
    PROVE  CopyWaits'
<1> SUFFICES ASSUME NEW g \in Group, copy[g].st # "none"
             PROVE  Taken(g)' \/ Among(g, uni'["sub"]["relay"])
  BY DEF CopyWaits
<1> DEFINE q == uni["sub"]["relay"]
<1>1. q \in Seq(Group \cup {Control}) /\ (Taken(g) \/ Among(g, q))
  BY Ends DEF UniOK, CopyWaits
<1>2. CASE uni'["sub"]["relay"] = q /\ UNCHANGED played
  BY <1>1, <1>2 DEF Taken
<1>3. CASE q # << >> /\ uni'["sub"]["relay"] = Tail(q) /\ Head(q) \notin Group /\ UNCHANGED played
  <2>1. Among(g, q) => Among(g, Tail(q))
    BY <1>1, <1>3, OthersAmong
  <2> QED BY <1>1, <1>3, <2>1 DEF Taken
<1>4. CASE /\ q # << >> /\ uni'["sub"]["relay"] = Tail(q)
           /\ Head(q) \in Group /\ played' = Append(played, Head(q))
  <2>1. Among(g, q) => Among(g, Tail(q)) \/ g = Head(q)
    BY <1>1, <1>4, OthersAmong
  <2> HIDE DEF q
  <2>2. Among(g, Append(played, Head(q))) <=> Among(g, played) \/ g = Head(q)
    BY <1>4, AmongAppend
  <2> QED BY <1>1, <1>4, <2>1, <2>2 DEF Taken
<1> QED BY <1>2, <1>3, <1>4

\* Reading SETUP takes no group.
LEMMA WaitsSetup ==
    ASSUME UniOK, played \in Seq(Group), CopyWaits, UNCHANGED <<copy, played>>,
           NEW c \in Conn, NEW e \in End, ReadSetup(c, e)
    PROVE  CopyWaits'
<1> DEFINE q == uni["sub"]["relay"]
<1>1. Control \notin Group
  BY NoneAssumption DEF Group
<1>2. Peer(e) \in End
  BY DEF Peer, End
<1>3. CASE c = "sub" /\ Peer(e) = "relay"
  <2>1. q # << >> /\ Head(q) = Control /\ uni' = [uni EXCEPT !["sub"]["relay"] = Tail(@)]
    BY <1>3 DEF ReadSetup
  <2>2. uni'["sub"]["relay"] = Tail(q)
    BY <2>1, Ends DEF UniOK
  <2> QED BY <1>1, <2>1, <2>2, WaitsKept
<1>4. CASE ~(c = "sub" /\ Peer(e) = "relay")
  <2>1. uni' = [uni EXCEPT ![c][Peer(e)] = Tail(@)]
    BY DEF ReadSetup
  <2>2. uni'["sub"]["relay"] = q
    BY <1>2, <1>4, <2>1, Ends DEF UniOK
  <2> QED BY <2>2, WaitsKept
<1> QED BY <1>3, <1>4

\* The relay puts each copy it opens into the queue.
LEMMA WaitsServed ==
    ASSUME StreamTypes, UniOK, played \in Seq(Group), CopyInv, CopyWaits,
           NEW g \in Group, HandleStream(g)
    PROVE  CopyWaits'
<1>1. UNCHANGED played
  BY DEF HandleStream, LookUp, ForwardObject, EndOfStream, Clients, subscriber, outVars
<1>2. \A h \in Group : h # g => copy'[h] = copy[h]
  BY DEF HandleStream, LookUp, ForwardObject, EndOfStream, StreamTypes
<1>3. CASE UNCHANGED uni /\ (copy'[g].st = copy[g].st \/ copy[g].st # "none")
  BY <1>1, <1>2, <1>3, WaitsKept
<1>4. CASE LookUp(g) /\ OpenStream("sub", "relay", g)
  <2> DEFINE q == uni["sub"]["relay"]
  <2>1. q \in Seq(Group \cup {Control}) /\ uni'["sub"]["relay"] = Append(q, g)
    BY <1>4, Ends DEF UniOK, OpenStream
  <2> HIDE DEF q
  <2>2. \A h : Among(h, Append(q, g)) <=> Among(h, q) \/ h = g
    BY <2>1, AmongAppend
  <2> QED BY <1>1, <1>2, <2>1, <2>2 DEF CopyWaits, Taken, q
<1>5. ASSUME EndOfStream(g) PROVE UNCHANGED uni /\ (copy'[g].st = copy[g].st \/ copy[g].st # "none")
  BY <1>5 DEF EndOfStream, session, CopyInv, CopyOK
<1>6. ASSUME ForwardObject(g) PROVE UNCHANGED uni /\ copy'[g].st = copy[g].st
  <2>1. \/ UNCHANGED copy
        \/ \E x : copy' = [copy EXCEPT ![g].objs = Append(@, x)]
    BY <1>6 DEF ForwardObject
  <2>2. copy[g] \in Written /\ DOMAIN copy = Group
    BY DEF StreamTypes
  <2>3. copy'[g].st = copy[g].st
    BY <2>1, <2>2 DEF Written
  <2> QED BY <1>6, <2>3 DEF ForwardObject, session
<1>7. LookUp(g) => OpenStream("sub", "relay", g) \/ UNCHANGED <<uni, copy>>
  BY DEF LookUp
<1> QED BY <1>3, <1>4, <1>5, <1>6, <1>7 DEF HandleStream

\* Every copy waits, or is taken.
LEMMA WaitsStep ==
    ASSUME TypeInv, CopyInv, CopyWaits, [Next]_vars
    PROVE  CopyWaits'
<1> StreamTypes /\ UniOK /\ PublisherInv /\ played \in Seq(Group)
  BY StreamsTyped DEF TypeInv, CountInv, WiresOK, ReaderOK, SubscriberTypeOK
<1>1. CASE uni'["sub"]["relay"] = uni["sub"]["relay"] /\ UNCHANGED <<copy, played>>
  BY <1>1, WaitsKept
<1>2. CASE (StdinThread \/ Publisher) /\ UNCHANGED <<subscriber, copy>>
  <2>1. UNCHANGED <<copy, played>>
    BY <1>2 DEF subscriber, outVars
  <2>2. CASE ConnectPublisher
    BY <2>1, <2>2, Ends, WaitsSetup DEF ConnectPublisher
  <2>3. CASE OpenSubgroup
    <3>1. uni'["sub"]["relay"] = uni["sub"]["relay"]
      BY <2>3, Ends DEF OpenSubgroup, OpenStream, UniOK
    <3> QED BY <1>1, <2>1, <3>1
  <2>4. CASE UNCHANGED uni
    BY <1>1, <2>1, <2>4
  <2>5. StdinThread => UNCHANGED uni
    BY DEF StdinThread, StdinEnds, ReadFrame, BlockingSend, StdinStep, session
  <2>6. ASSUME NEW slept, NEW lingered, PublisherMain(slept, lingered)
        PROVE  ConnectPublisher \/ OpenSubgroup \/ UNCHANGED uni
    BY <2>6 DEF PublisherMain, PublishNamespace, NamespaceAnswered, TakeSubscribe, Accept,
       PublisherFails, RecvFrame, WriteFrame, ChannelClosed, WriteDemoObject, DemoSleeps,
       SendPublishDone, Linger, ExitPublisher, session
  <2> QED BY <1>2, <2>2, <2>3, <2>4, <2>5, <2>6 DEF Publisher
<1>3. CASE Subscriber \/ ReceiveTask
  <2>1. CASE ConnectSubscriber
    BY <2>1, Ends, WaitsSetup DEF ConnectSubscriber, subscriber, outVars
  <2>2. ASSUME NEW g \in Stream, TakeGroup(g) PROVE CopyWaits'
    <3>1. /\ uni["sub"]["relay"] # << >> /\ g = Head(uni["sub"]["relay"]) /\ g \in Group
          /\ uni' = [uni EXCEPT !["sub"]["relay"] = Tail(@)]
          /\ played' = Append(played, g) /\ UNCHANGED copy
      BY <2>2, StreamAssumption DEF TakeGroup, NextStream, Peer
    <3>2. uni'["sub"]["relay"] = Tail(uni["sub"]["relay"])
      BY <3>1, Ends DEF UniOK
    <3> QED BY <3>1, <3>2, WaitsKept
  <2>3. Subscriber => ConnectSubscriber \/ UNCHANGED <<uni, copy, played>>
    BY DEF Subscriber, SubscriberMain, Subscribe, SubscribeAnswered, RecvPublishDone,
       SubscriberFails, CloseSubscriber, SubscriberEnds, session, outVars
  <2>4. ReceiveTask => (\E g \in Stream : TakeGroup(g)) \/ UNCHANGED <<uni, copy, played>>
    BY DEF ReceiveTask, ReceiveEnds, ReadObject, EndOfGroup, session, outVars
  <2> QED BY <1>1, <1>3, <2>1, <2>2, <2>3, <2>4
<1>4. CASE Relay
  <2>1. UNCHANGED played
    BY <1>4, RelayLeavesSubscriber DEF subscriber, outVars
  <2>2. ASSUME NEW c \in Conn, RelaySetup(c) PROVE CopyWaits'
    BY <2>1, <2>2, Ends, WaitsSetup DEF RelaySetup
  <2>3. ASSUME NEW g \in Group, ReceiveStream(g) PROVE CopyWaits'
    <3>1. uni' = [uni EXCEPT !["pub"]["client"] = Tail(@)] /\ UNCHANGED copy
      BY <2>3 DEF ReceiveStream, NextStream, Peer
    <3>2. uni'["sub"]["relay"] = uni["sub"]["relay"]
      BY <3>1, Ends DEF UniOK
    <3> QED BY <1>1, <2>1, <3>1, <3>2
  <2>4. ASSUME NEW g \in Group, HandleStream(g) PROVE CopyWaits'
    BY <2>4, WaitsServed
  <2>5. ASSUME NEW c \in Conn, HandleConnection(c) PROVE CopyWaits'
    BY <1>1, <2>1, <2>2, <2>3, <2>5
       DEF HandleConnection, RemoveSession, RegisterNamespace, HandleSubscribe
  <2>6. ASSUME NEW u \in Upstream, HandleRequest(u) PROVE CopyWaits'
    BY <1>1, <2>1, <2>6
       DEF HandleRequest, RecordSubscription, ForwardPublishDone, UpstreamLost, ForwardOk
  <2> QED BY <1>4, <2>4, <2>5, <2>6 DEF Relay
<1>5. OtherAsks \/ (Faults /\ UNCHANGED <<Clients, copy>>) \/ UNCHANGED vars
        => UNCHANGED <<uni, copy, played>>
  BY DEF OtherAsks, Faults, LoseLink, vars, session, Clients, subscriber, outVars
<1> QED BY <1>1, <1>2, <1>3, <1>4, <1>5 DEF Next, Running

\* No step changes the scenario.
LEMMA ScenarioKept == [Next]_vars => UNCHANGED scenario
<1>1. StdinThread => UNCHANGED scenario
  BY DEF StdinThread, StdinEnds, ReadFrame, BlockingSend, StdinStep
<1>2. ASSUME NEW slept, NEW lingered, PublisherMain(slept, lingered) PROVE UNCHANGED scenario
  BY <1>2 DEF PublisherMain, ConnectPublisher, PublishNamespace, NamespaceAnswered, TakeSubscribe,
     Accept, PublisherFails, RecvFrame, OpenSubgroup, WriteFrame, ChannelClosed, WriteDemoObject,
     DemoSleeps, SendPublishDone, Linger, ExitPublisher, publisher
<1>3. UNCHANGED publisher => UNCHANGED scenario
  BY DEF publisher
<1> QED BY <1>1, <1>2, <1>3, RelayUnmoved DEF Next, Running, Publisher, OtherAsks, Clients, vars

\* In a calm track no copy ends before its stream: moqt-pub leaves when none is open.
LEMMA EndsStep ==
    ASSUME TypeInv, CopyInv, QueueInv, LeaveInv, EndsRight, [Next]_vars
    PROVE  EndsRight'
<1> StreamTypes /\ PublisherInv /\ LinkOK /\ UniOK
  BY StreamsTyped DEF TypeInv, CountInv, WiresOK
<1>1. \A g \in Group : Grown(g)
  BY StreamsGrow
<1>2. ASSUME NEW g \in Group, copy'[g] = copy[g], copy[g].st = "fin"
      PROVE  stream'[g].st = "fin" /\ Len(copy'[g].objs) = Len(Objs(g)')
  BY <1>1, <1>2 DEF EndsRight, Grown, Objs
<1>3. CASE UNCHANGED copy
  BY <1>2, <1>3 DEF EndsRight
<1>4. ASSUME NEW g \in Group, HandleStream(g) PROVE EndsRight'
  <2>1. UNCHANGED stream /\ task[g] \in {"lookup", "copy", "drain"}
    BY <1>4 DEF HandleStream, LookUp, ForwardObject, EndOfStream, Clients, publisher, loopVars
  <2>2. Up("pub")
    BY <2>1, Ends DEF QueueInv, LeaveInv, Flushed, LinkOK, LinkState, Up, Down
  <2>3. \A h \in Group : h # g => copy'[h] = copy[h]
    BY <1>4 DEF HandleStream, LookUp, ForwardObject, EndOfStream, StreamTypes
  <2>4. /\ CopyOK(g) /\ copy[g] \in Written /\ DOMAIN copy = Group /\ stream[g] \in Written
        /\ taken[g] \in Nat
    BY DEF CopyInv, StreamTypes
  <2>5. ASSUME copy'[g].st = "fin", copy'[g] # copy[g]
        PROVE  stream[g].st = "fin" /\ Len(copy'[g].objs) = Len(Objs(g))
    <3>1. ~LookUp(g)
      BY <2>4, <2>5 DEF LookUp, Written
    <3>2. ~ForwardObject(g)
      <4> SUFFICES ASSUME ForwardObject(g) PROVE FALSE
        OBVIOUS
      <4>1. copy[g].st = "open" /\ \E x : copy' = [copy EXCEPT ![g].objs = Append(@, x)]
        BY <2>4, <2>5 DEF ForwardObject, CopyOK
      <4> QED BY <2>4, <2>5, <4>1 DEF Written
    <3>3. EndOfStream(g) /\ task[g] = "copy" /\ copy' = [copy EXCEPT ![g].st = "fin"]
      BY <1>4, <2>5, <3>1, <3>2 DEF HandleStream, EndOfStream
    <3>4. AtEnd(g)
      BY <2>2, <3>3 DEF EndOfStream, Up, Down
    <3>5. copy'[g].objs = copy[g].objs /\ Len(copy[g].objs) = taken[g]
      BY <2>4, <3>3 DEF CopyOK, Written
    <3> QED BY <3>4, <3>5 DEF AtEnd, Objs
  <2> QED BY <1>2, <2>1, <2>3, <2>5 DEF EndsRight, Objs
<1>5. Subscriber \/ ReceiveTask => UNCHANGED copy
  BY DEF Subscriber, SubscriberMain, ConnectSubscriber, Subscribe, SubscribeAnswered,
     RecvPublishDone, SubscriberFails, CloseSubscriber, SubscriberEnds, ReceiveTask, TakeGroup,
     ReceiveEnds, ReadObject, EndOfGroup
<1>6. ASSUME NEW c \in Conn, HandleConnection(c) PROVE UNCHANGED copy
  BY <1>6 DEF HandleConnection, RelaySetup, RemoveSession, RegisterNamespace, ReceiveStream,
     HandleSubscribe
<1>7. ASSUME NEW u \in Upstream, HandleRequest(u) PROVE UNCHANGED copy
  BY <1>7 DEF HandleRequest, RecordSubscription, ForwardPublishDone, UpstreamLost, ForwardOk
<1> QED BY <1>3, <1>4, <1>5, <1>6, <1>7 DEF Next, Running, Relay, OtherAsks, vars

\* When moqt-sub closes its connection it has read all that was copied to it.
LEMMA EndedFirst ==
    ASSUME TypeInv, CalmHyp, CopyWaits, Whole, ~Left, NEW slept, CloseSubscriber(slept),
           slept => SubscriberDrained \/ Down("sub"), UNCHANGED publisher
    PROVE  EndedInv'
<1> played \in Seq(Group) /\ LeaveInv
  BY DEF TypeInv, ReaderOK, SubscriberTypeOK, CalmHyp, ControlInv
<1>1. SubscriberDrained
  BY DEF CloseSubscriber, LeaveInv
<1>2. UNCHANGED <<uni, copy, played, got, stream>>
  BY DEF CloseSubscriber, outVars, publisher, loopVars
<1>3. \A g \in Group : ~Among(g, uni["sub"]["relay"])
  BY <1>1 DEF SubscriberDrained, Among
<1>4. \A g \in Group : Taken(g) => Finished(g)
  BY <1>1 DEF SubscriberDrained, Whole, Taken, Among
<1> QED BY <1>2, <1>3, <1>4 DEF EndedInv, CopyWaits, Taken, Finished, Objs

\* After that the relay copies nothing more.
LEMMA EndedKept ==
    ASSUME TypeInv, CopyInv, QueueInv, ReadInv, LeaveInv, EndedInv, request = "upstream", Left,
           [Next]_vars
    PROVE  EndedInv'
<1> /\ StreamTypes /\ PublisherInv /\ LinkOK /\ UniOK /\ ReaderOK /\ played \in Seq(Group)
    /\ got \in [Group -> Nat]
  BY StreamsTyped DEF TypeInv, CountInv, WiresOK, ReaderOK, SubscriberTypeOK
<1> DEFINE q == uni["sub"]["relay"]
<1>1. \A g \in Group : Grown(g)
  BY StreamsGrow
<1>2. Down("sub") /\ ~Up("sub") /\ q \in Seq(Group \cup {Control})
  BY Ends DEF LeaveInv, Up, Down, UniOK
<1>3. ASSUME UNCHANGED <<got, played>>, q' = q \/ (q # << >> /\ q' = Tail(q)),
             \A g \in Group : copy'[g].st # "none" => copy[g].st # "none"
      PROVE  EndedInv'
  <2> SUFFICES ASSUME NEW g \in Group
               PROVE  /\ ~Among(g, q') /\ (copy'[g].st # "none" => Taken(g)')
                      /\ Taken(g)' => Finished(g)'
    BY DEF EndedInv
  <2>1. ~Among(g, q')
    BY <1>2, <1>3, TailAmong DEF EndedInv
  <2>2. (Taken(g)' <=> Taken(g)) /\ (Finished(g) => Finished(g)')
    BY <1>1, <1>3, FinishedKept DEF Taken
  <2> QED BY <1>3, <2>1, <2>2 DEF EndedInv
<1>4. CASE UNCHANGED <<copy, got, played>> /\ q' = q
  BY <1>3, <1>4
<1>5. ASSUME UNCHANGED <<copy, got, played>>, NEW c \in Conn, NEW e \in End, ReadSetup(c, e)
      PROVE  EndedInv'
  <2>1. Peer(e) \in End
    BY DEF Peer, End
  <2>2. uni[c][Peer(e)] # << >> /\ uni' = [uni EXCEPT ![c][Peer(e)] = Tail(@)]
    BY <1>5 DEF ReadSetup
  <2>3. q' = q \/ (q # << >> /\ q' = Tail(q))
    BY <2>1, <2>2, UniTaken
  <2> QED BY <1>3, <1>5, <2>3
<1>6. CASE (StdinThread \/ Publisher) /\ UNCHANGED <<subscriber, copy>>
  <2>1. UNCHANGED <<copy, got, played>>
    BY <1>6 DEF subscriber, outVars
  <2>2. OpenSubgroup => q' = q
    BY Ends DEF OpenSubgroup, OpenStream, UniOK
  <2>3. StdinThread => UNCHANGED uni
    BY DEF StdinThread, StdinEnds, ReadFrame, BlockingSend, StdinStep, session
  <2>4. ASSUME NEW slept, NEW lingered, PublisherMain(slept, lingered)
        PROVE  ReadSetup("pub", "client") \/ OpenSubgroup \/ UNCHANGED uni
    BY <2>4 DEF PublisherMain, ConnectPublisher, PublishNamespace, NamespaceAnswered, TakeSubscribe,
       Accept, PublisherFails, RecvFrame, WriteFrame, ChannelClosed, WriteDemoObject, DemoSleeps,
       SendPublishDone, Linger, ExitPublisher, session
  <2> QED BY <1>4, <1>5, <1>6, <2>1, <2>2, <2>3, <2>4, Ends DEF Publisher
<1>7. CASE Subscriber \/ ReceiveTask
  <2>1. Subscriber => UNCHANGED <<uni, copy, got, played>>
    BY DEF Subscriber, SubscriberMain, ConnectSubscriber, Subscribe, SubscribeAnswered,
       RecvPublishDone, SubscriberFails, CloseSubscriber, SubscriberEnds, session, outVars, Left
  <2>2. ASSUME NEW g \in Stream, TakeGroup(g) PROVE FALSE
    <3>1. q # << >> /\ g = Head(q) /\ g \in Group
      BY <2>2, StreamAssumption DEF TakeGroup, NextStream, Peer
    <3> QED BY <1>2, <3>1, HeadAmong DEF EndedInv
  <2>3. ~ReadObject
    <3> SUFFICES ASSUME ReadObject PROVE FALSE
      OBVIOUS
    <3>1. /\ reading \in Group /\ played # << >> /\ reading = played[Len(played)]
          /\ got[reading] < Len(copy[reading].objs)
      BY DEF ReadObject, ReaderOK, ReadInv
    <3>2. Taken(reading)
      BY LastTaken DEF ReadObject
    <3>3. got[reading] = Len(Objs(reading))
      BY <3>1, <3>2 DEF EndedInv, Finished
    <3>4. Len(copy[reading].objs) <= Len(Objs(reading))
      BY <3>1 DEF CopyInv, CopyOK, PrefixOf
    <3>5. copy[reading].objs \in Seq(Frame) /\ Objs(reading) \in Seq(Frame)
      BY <3>1 DEF StreamTypes, Written, Objs
    <3> QED BY <3>1, <3>3, <3>4, <3>5
  <2>4. ReceiveEnds \/ EndOfGroup => UNCHANGED <<uni, copy, got, played>>
    BY DEF ReceiveEnds, EndOfGroup, session, outVars
  <2> QED BY <1>4, <1>7, <2>1, <2>2, <2>3, <2>4 DEF ReceiveTask
<1>8. CASE Relay
  <2>1. UNCHANGED <<got, played>>
    BY <1>8, RelayLeavesSubscriber DEF subscriber, outVars
  <2>2. ASSUME NEW c \in Conn, RelaySetup(c) PROVE EndedInv'
    BY <1>5, <2>1, <2>2, Ends DEF RelaySetup
  <2>3. ASSUME NEW g \in Group, ReceiveStream(g) PROVE EndedInv'
    <3>1. uni' = [uni EXCEPT !["pub"]["client"] = Tail(@)] /\ UNCHANGED copy
      BY <2>3 DEF ReceiveStream, NextStream, Peer
    <3>2. q' = q
      BY <3>1, Ends DEF UniOK
    <3> QED BY <1>4, <2>1, <3>1, <3>2
  <2>4. ASSUME NEW g \in Group, HandleStream(g) PROVE UNCHANGED <<uni, copy>>
    BY <1>2, <2>4 DEF HandleStream, LookUp, ForwardObject, EndOfStream, session
  <2>5. ASSUME NEW c \in Conn, HandleConnection(c) PROVE EndedInv'
    BY <1>4, <2>1, <2>2, <2>3, <2>5
       DEF HandleConnection, RemoveSession, RegisterNamespace, HandleSubscribe
  <2>6. ASSUME NEW u \in Upstream, HandleRequest(u) PROVE EndedInv'
    BY <1>4, <2>1, <2>6
       DEF HandleRequest, RecordSubscription, ForwardPublishDone, UpstreamLost, ForwardOk
  <2> QED BY <1>4, <1>8, <2>1, <2>4, <2>5, <2>6 DEF Relay
<1>9. OtherAsks \/ (Faults /\ UNCHANGED <<Clients, copy>>) \/ UNCHANGED vars
        => UNCHANGED <<uni, copy, got, played>>
  BY DEF OtherAsks, Faults, LoseLink, vars, session, Clients, subscriber, outVars
<1> QED BY <1>4, <1>6, <1>7, <1>8, <1>9 DEF Next, Running

\* Only TakeSubscribe chooses the request.
LEMMA RequestSet ==
    ASSUME [Next]_vars
    PROVE  UNCHANGED request \/ \E r \in Upstream : TakeSubscribe(r) /\ request' = r
<1>1. StdinThread => UNCHANGED request
  BY DEF StdinThread, StdinEnds, ReadFrame, BlockingSend, StdinStep
<1>2. ASSUME NEW slept, NEW lingered, PublisherMain(slept, lingered)
      PROVE  UNCHANGED request \/ \E r \in Upstream : TakeSubscribe(r) /\ request' = r
  <2>1. CASE \E r \in Upstream : TakeSubscribe(r)
    BY <2>1 DEF TakeSubscribe
  <2> QED BY <1>2, <2>1 DEF PublisherMain, ConnectPublisher, PublishNamespace, NamespaceAnswered,
     Accept, PublisherFails, RecvFrame, OpenSubgroup, WriteFrame, ChannelClosed, WriteDemoObject,
     DemoSleeps, SendPublishDone, Linger, ExitPublisher, publisher
<1>3. UNCHANGED publisher => UNCHANGED request
  BY DEF publisher
<1> QED BY <1>1, <1>2, <1>3, RelayUnmoved DEF Next, Running, Publisher, OtherAsks, Clients, vars

\* Only moqt-sub moves itself.
LEMMA SubMoves ==
    ASSUME [Next]_vars
    PROVE  \/ UNCHANGED sub
           \/ (Subscriber \/ ReceiveTask) /\ UNCHANGED <<publisher, relay, data>>
<1>1. UNCHANGED subscriber => UNCHANGED sub
  BY DEF subscriber
<1> QED BY <1>1, RelayLeavesSubscriber DEF Next, Running, OtherAsks, Clients, vars

\* moqt-pub does not take a SUBSCRIBE of a subscriber that has left.
LEMMA NotWhileLeft ==
    ASSUME CalmHyp, Left
    PROVE  ~TakeSubscribe("upstream")
<1> SUFFICES ASSUME TakeSubscribe("upstream") PROVE FALSE
  OBVIOUS
<1>1. main = "await" /\ ToPublisher # << >> /\ Head(ToPublisher) = "upstream"
  BY DEF TakeSubscribe, NextRequest, Peer, ToPublisher
<1>2. Among("upstream", ToPublisher)
  BY <1>1, HeadAmong DEF CalmHyp, CalmTypes
<1> QED BY <1>1, <1>2 DEF CalmHyp, ControlInv, AskInv, Left

\* Every step keeps it.
LEMMA CalmStep ==
    ASSUME PlayInv, CopyWaits, CalmInv, [Next]_vars
    PROVE  CalmInv'
<1> /\ TypeInv /\ CopyInv /\ QueueInv /\ ReadInv /\ LinkOK
  BY DEF PlayInv, TypeInv, CountInv, WiresOK
<1>1. UNCHANGED scenario
  BY ScenarioKept
<1> SUFFICES ASSUME Calm
             PROVE  (LeaveInv /\ AskInv /\ ServedInv /\ EndsRight /\ (~Left => Whole) /\ EndedInv)'
  BY <1>1 DEF CalmInv, Calm
<1>2. ControlInv /\ EndsRight /\ (~Left => Whole) /\ EndedInv
  BY DEF CalmInv, ControlInv
<1>3. ControlInv'
  BY <1>2, ControlStep
<1>4. EndsRight'
  BY <1>2, EndsStep DEF ControlInv
<1>5. ASSUME ~Left' PROVE Whole'
  <2>1. LinkOK'
    BY TypesKept DEF TypeInv, CountInv, WiresOK
  <2>2. Up("sub")'
    BY <1>3, <1>5, <2>1, Ends DEF ControlInv, LeaveInv, LinkOK, LinkState, Up, Down
  <2>3. Up("sub")
    BY <2>2, LinksFall, Ends DEF TypeInv, CountInv, PublisherInv
  <2>4. ~Left
    BY <1>2, <2>3 DEF ControlInv, LeaveInv, Up, Down
  <2> QED BY <1>2, <2>2, <2>4, WholeStep
<1>6. ASSUME request' = "upstream", Left' PROVE EndedInv'
  <2>1. CASE Left
    <3>1. request = "upstream"
      <4>1. UNCHANGED request \/ TakeSubscribe("upstream")
        BY <1>6, RequestSet
      <4>2. ~TakeSubscribe("upstream")
        BY <1>2, <2>1, CalmHolds, NotWhileLeft
      <4> QED BY <1>6, <4>1, <4>2
    <3> QED BY <1>2, <2>1, <3>1, EndedKept DEF ControlInv
  <2>2. CASE ~Left
    <3>1. CalmHyp
      BY <1>2, CalmHolds
    <3>2. (Subscriber \/ ReceiveTask) /\ UNCHANGED <<publisher, relay, data>>
      BY <1>6, <2>2, SubMoves DEF Left
    <3>3. request = "upstream"
      BY <1>6, <3>2 DEF publisher
    <3> DEFINE l == scenario.timely => (SubscriberDrained \/ Down("sub"))
    <3>4. l => SubscriberDrained \/ Down("sub")
      BY DEF Calm
    <3> HIDE DEF l
    <3>5. ~(SubscribeAnswered \/ RecvPublishDone)
      <4>1. Gone /\ Flushed => Flushed'
        BY FlushedKept
      <4> QED BY <1>6, <3>1, <3>2, <3>3, <4>1, Hears
    <3>6. ~SubscriberFails
      BY <1>2, <2>2 DEF SubscriberFails, ControlInv, LeaveInv
    <3>7. CloseSubscriber(l)
      <4>1. Subscriber
        BY <1>6, <2>2, <3>2 DEF ReceiveTask, TakeGroup, ReceiveEnds, ReadObject, EndOfGroup, Left
      <4>2. SubscriberMain(l)
        BY <4>1 DEF Subscriber, l
      <4> QED BY <1>6, <2>2, <3>5, <3>6, <4>2
              DEF SubscriberMain, ConnectSubscriber, Subscribe, SubscriberEnds, Left, subscriber
    <3> QED BY <1>2, <2>2, <3>1, <3>2, <3>4, <3>7, EndedFirst
  <2> QED BY <2>1, <2>2
<1>7. EndedInv'
  BY <1>6 DEF EndedInv
<1> QED BY <1>3, <1>4, <1>5, <1>7 DEF ControlInv

\* The invariant holds at first.
LEMMA CalmStarts == Init => CopyWaits /\ CalmInv
<1> SUFFICES ASSUME Init PROVE CopyWaits /\ CalmInv
  OBVIOUS
<1>1. /\ main = "connect" /\ request = None /\ played = << >>
      /\ sub = IF "upstream" \in scenario.asks THEN "connect" ELSE "ended"
      /\ copy = [g \in Group |-> NoCopy] /\ recv = "off"
      /\ handle["upstream"] = "none" /\ "upstream" \in Upstream
  BY StreamAssumption DEF Init, PublisherInit, SubscriberInit, Upstream
<1>2. /\ link = [c \in Conn |->
                   IF c \in (IF "upstream" \in scenario.asks THEN Conn ELSE {"pub"})
                   THEN "up" ELSE "down"]
      /\ ToPublisher = << >> /\ FromSub = << >> /\ Said = << >> /\ Heard = << >>
  BY Ends DEF Init, SessionInit, ToPublisher, FromSub, Said, Heard, Request, Upstream
<1>3. link["pub"] = "up" /\ (link["sub"] = "down" <=> "upstream" \notin scenario.asks)
  BY <1>2, Ends
<1>4. CopyWaits /\ EndsRight
  BY <1>1 DEF CopyWaits, EndsRight, NoCopy
<1>5. Whole
  BY <1>1 DEF Whole
<1>6. None \notin Upstream
  BY RequestAssumption DEF Request
<1>7. LeaveInv
  BY <1>1, <1>3 DEF LeaveInv, Down, Left
<1>8. AskInv
  BY <1>1, <1>2, <1>6 DEF AskInv, Among
<1>9. ServedInv /\ EndedInv
  BY <1>1, <1>6 DEF ServedInv, EndedInv
<1> QED BY <1>4, <1>5, <1>7, <1>8, <1>9 DEF CalmInv

\* In pipe mode, with long sleeps and no faults, moqt-sub leaves with all the groups
\* the relay began to copy to it, each of them whole: publish_from_stdin, main of
\* moqt-sub and the relay's handle_subscribe take leave in the right order.
THEOREM ToTheEnd == Spec => []PlayedToTheEnd
<1>1. CopyWaits /\ CalmInv /\ PlayInv /\ [Next]_vars => (CopyWaits /\ CalmInv)'
  BY WaitsStep, CalmStep DEF PlayInv
<1>2. Spec => []PlayInv
  BY PlayStarts, PlayKept, PTL DEF Spec
<1>3. Spec => [](CopyWaits /\ CalmInv)
  <2>1. (CopyWaits /\ CalmInv) /\ PlayInv /\ [Next]_vars => (CopyWaits /\ CalmInv)'
    BY <1>1
  <2>2. Init => CopyWaits /\ CalmInv
    BY CalmStarts
  <2> QED BY <1>2, <2>1, <2>2, PTL DEF Spec
<1>4. CalmInv => PlayedToTheEnd
  <2> SUFFICES ASSUME CalmInv, Calm, request = "upstream", sub = "ended",
                      NEW g \in Group, copy[g].st # "none"
               PROVE  g \in ToSet(played) /\ got[g] = Len(Objs(g))
    BY DEF PlayedToTheEnd, Calm
  <2>1. Taken(g) /\ Finished(g)
    BY DEF CalmInv, EndedInv, Left
  <2> QED BY <2>1 DEF Taken, Among, ToSet, Finished
<1> QED BY <1>3, <1>4, PTL
================================================================================
