-------------------------- MODULE WebPublisherProofs --------------------------
(***************************************************************************)
(* The overlapping calls of the browser publisher, for any number of       *)
(* frames and runs of the page, wherever the encoder puts its keyframes:   *)
(* what the streams and the groups hold.                                   *)
(***************************************************************************)
EXTENDS WebPublisher, FiniteSetTheorems, TLAPS

----------------------------------------------------------------------------
(* The inductive invariant *)

CallState    == {"none", "finish", "open", "done", "refused", "lost"}
StreamState  == {"none", "opening", "open", "fin", "cut"}
StreamRecord == [st : StreamState, session : 0..MaxStarts, group : Nat, objs : Seq(Frame)]

\* TypeOK without the bounds on the counters, which are a matter of counting.
TypeInv ==
    /\ starts \in 0..MaxStarts /\ startEnabled \in BOOLEAN
    /\ session \in BOOLEAN /\ encoder \in BOOLEAN /\ fresh \in BOOLEAN
    /\ transport \in {"up", "closed"}
    /\ frameCount \in 0..MaxFrames
    /\ pending \in Seq(Frame) /\ keys \subseteq Frame
    /\ call \in [Frame -> CallState]
    /\ currentGroup \in Frame \cup {None} /\ groupStarted \in BOOLEAN
    /\ groupId \in Nat /\ streamCount \in Nat
    /\ stream \in [Frame -> StreamRecord]
    /\ stopping \in {"no", "flush", "finish"} /\ flushTo \in 0..MaxFrames

\* There are frames in the encoder only while it is open, and it is open only
\* while there is a session and the Stop button works.
PageInv ==
    /\ encoder => ~startEnabled
    /\ ~startEnabled => session
    /\ pending # << >> => encoder
    /\ stopping = "flush" => encoder
    /\ stopping = "finish" => ~startEnabled /\ ~encoder

\* The last frame that is not in the encoder any more, nor still to come.
Given == frameCount - Len(pending)

\* The encoder gives frames out in order, and each has one call.
QueueInv ==
    /\ Len(pending) <= frameCount
    /\ \A i \in 1..Len(pending) : pending[i] = Given + i
    /\ \A f \in Frame : f > Given => call[f] = "none"
    /\ \A f \in keys : f <= frameCount

\* What a call has to do with the stream it opened.
CallInv ==
    /\ \A f \in Frame : call[f] = "open" <=> stream[f].st = "opening"
    /\ \A f \in Frame : call[f] \in {"none", "finish"} => stream[f] = NoStream
    /\ \A f \in Frame : call[f] = "finish" => f \in keys /\ groupStarted
    /\ groupStarted <=> currentGroup # None
    /\ currentGroup # None => stream[currentGroup].st \in {"open", "fin", "cut"}

\* A keyframe is the first object of its stream.
KeyframesAtHead ==
    \A s \in Frame : \A i \in DOMAIN stream[s].objs : stream[s].objs[i] \in keys => i = 1

\* What is in the streams is what calls have written.
ObjectInv ==
    /\ \A s \in Frame : stream[s].st \in {"none", "opening"} => stream[s].objs = << >>
    /\ \A s \in Frame : \A i \in 1..Len(stream[s].objs) : call[stream[s].objs[i]] = "done"
    /\ StreamsInOrder
    /\ KeyframesAtHead

\* Groups are numbered one by one.
GroupInv ==
    /\ LaterGroups
    /\ \A s \in Frame : stream[s].group <= groupId
    /\ ~groupStarted => groupId = 0

PublisherInv == TypeInv /\ PageInv /\ QueueInv /\ CallInv /\ ObjectInv /\ GroupInv

----------------------------------------------------------------------------
(* Lemmas about what the steps have in common *)

\* The page as it is loaded.
LEMMA PublisherStarts == Init => PublisherInv
<1>. SUFFICES ASSUME Init PROVE PublisherInv
  OBVIOUS
<1>. USE DEF Init, NoStream, None
<1>1. \A s \in Frame : stream[s] = NoStream
  OBVIOUS
<1>2. NoStream \in StreamRecord
  BY PublisherAssumption DEF StreamRecord, StreamState
<1>3. TypeInv
  <2>1. /\ call \in [Frame -> CallState] /\ stream \in [Frame -> StreamRecord]
        /\ pending \in Seq(Frame)
    BY <1>2 DEF CallState
  <2>2. /\ starts \in 0..MaxStarts /\ frameCount \in 0..MaxFrames /\ flushTo \in 0..MaxFrames
        /\ groupId \in Nat /\ streamCount \in Nat
    BY PublisherAssumption
  <2>. QED BY <2>1, <2>2 DEF TypeInv
<1>4. PageInv /\ QueueInv
  BY DEF PageInv, QueueInv, Given
<1>5. CallInv /\ GroupInv
  BY <1>1 DEF CallInv, GroupInv, LaterGroups
<1>6. ObjectInv
  BY <1>1 DEF ObjectInv, StreamsInOrder, KeyframesAtHead
<1>. QED BY <1>3, <1>4, <1>5, <1>6 DEF PublisherInv

\* The frame the encoder gives out is the next one, and new to every stream.
LEMMA NextFrame ==
    ASSUME TypeInv, QueueInv, CallInv, NEW f \in Frame, Output(f)
    PROVE  /\ f = Given + 1 /\ call[f] = "none" /\ stream[f] = NoStream
           /\ pending' \in Seq(Frame) /\ Len(pending') = Len(pending) - 1
           /\ \A i \in 1..Len(pending') : pending'[i] = pending[i + 1]
           /\ pending # << >>
<1>1. pending \in Seq(Frame) /\ pending # << >> /\ frameCount \in Nat
  BY DEF TypeInv, Output
<1>2. Len(pending) \in Nat /\ Len(pending) > 0 /\ Head(pending) = pending[1]
  BY <1>1
<1>3. Given \in Nat
  BY <1>1, <1>2 DEF Given, QueueInv
<1>4. f = Given + 1
  BY <1>1, <1>2 DEF Output, QueueInv
<1>5. call[f] = "none"
  BY <1>3, <1>4 DEF QueueInv
<1>6. stream[f] = NoStream
  BY <1>5 DEF CallInv
<1>7. /\ pending' \in Seq(Frame) /\ Len(pending') = Len(pending) - 1
      /\ \A i \in 1..Len(pending') : pending'[i] = pending[i + 1]
  BY <1>1, <1>2 DEF Output
<1>. QED BY <1>1, <1>4, <1>5, <1>6, <1>7

\* It stays so for the frames behind it.
LEMMA QueueMoves ==
    ASSUME TypeInv, QueueInv, CallInv, NEW f \in Frame, Output(f), NEW label, Goto(f, label),
           UNCHANGED <<frameCount, keys>>
    PROVE  QueueInv'
<1>1. /\ f = Given + 1 /\ Len(pending') = Len(pending) - 1
      /\ \A i \in 1..Len(pending') : pending'[i] = pending[i + 1]
      /\ Len(pending) \in Nat /\ frameCount \in Nat /\ Len(pending) > 0
  BY NextFrame DEF TypeInv
<1>2. Given \in Nat /\ Given' = Given + 1
  BY <1>1 DEF Given, QueueInv
<1>3. Len(pending') <= frameCount'
  BY <1>1 DEF QueueInv
<1>4. ASSUME NEW i \in 1..Len(pending') PROVE pending'[i] = Given' + i
  <2>1. i + 1 \in 1..Len(pending) /\ pending'[i] = pending[i + 1]
    BY <1>1
  <2>2. pending[i + 1] = Given + (i + 1)
    BY <2>1 DEF QueueInv
  <2>. QED BY <2>1, <2>2, <1>2
<1>5. ASSUME NEW g \in Frame, g > Given' PROVE call'[g] = "none"
  <2>1. g > Given /\ g # f
    BY <1>5, <1>1, <1>2 DEF Frame
  <2>. QED BY <2>1 DEF QueueInv, Goto, TypeInv
<1>. QED BY <1>3, <1>4, <1>5 DEF QueueInv

\* An object in a stream is the frame of a call that is done.
LEMMA WrittenIsDone ==
    ASSUME TypeInv, ObjectInv, NEW s \in Frame, NEW i \in DOMAIN stream[s].objs
    PROVE  stream[s].objs[i] \in Frame /\ call[stream[s].objs[i]] = "done"
<1>. DEFINE objs == stream[s].objs
<1>1. objs \in Seq(Frame)
  BY DEF TypeInv, StreamRecord
<1>2. i \in 1..Len(objs)
  <2>. HIDE DEF objs
  <2>1. DOMAIN objs = 1..Len(objs)
    BY <1>1
  <2>. QED BY <2>1 DEF objs
<1>3. objs[i] \in Frame
  <2>. HIDE DEF objs
  <2>. QED BY <1>1, <1>2
<1>. QED BY <1>2, <1>3 DEF ObjectInv

\* A step that writes nothing leaves the objects alone.
LEMMA SameObjects ==
    ASSUME TypeInv, ObjectInv, UNCHANGED keys,
           \A s \in Frame : stream'[s].objs = stream[s].objs,
           \A s \in Frame : stream'[s].st \in {"none", "opening"} =>
                               stream[s].st \in {"none", "opening"},
           \A f \in Frame : call[f] = "done" => call'[f] = "done"
    PROVE  ObjectInv'
<1>1. \A s \in Frame : stream[s].objs \in Seq(Frame)
  BY DEF TypeInv, StreamRecord
<1>2. \A s \in Frame : \A i \in 1..Len(stream[s].objs) :
          stream[s].objs[i] \in Frame /\ call[stream[s].objs[i]] = "done"
  BY <1>1, WrittenIsDone
<1>3. StreamsInOrder'
  BY DEF ObjectInv, StreamsInOrder
<1>4. KeyframesAtHead'
  BY DEF ObjectInv, KeyframesAtHead
<1>5. \A s \in Frame : \A i \in 1..Len(stream'[s].objs) : call'[stream'[s].objs[i]] = "done"
  BY <1>2
<1>6. \A s \in Frame : stream'[s].st \in {"none", "opening"} => stream'[s].objs = << >>
  BY DEF ObjectInv
<1>. QED BY <1>3, <1>4, <1>5, <1>6 DEF ObjectInv

\* A step that opens nothing leaves the groups alone.
LEMMA SameGroups ==
    ASSUME GroupInv, UNCHANGED groupId, keys \subseteq keys', groupStarted => groupStarted',
           \A s \in Frame : stream'[s].group = stream[s].group
    PROVE  GroupInv'
BY DEF GroupInv, LaterGroups

\* What finishing the current group does, for a call and for stop.
LEMMA GroupCloses ==
    ASSUME TypeInv, CallInv, currentGroup \in Frame, Writable(currentGroup),
           stream' = [stream EXCEPT ![currentGroup].st = "fin"]
    PROVE  /\ stream' \in [Frame -> StreamRecord]
           /\ \A s \in Frame : /\ stream'[s].objs = stream[s].objs
                               /\ stream'[s].group = stream[s].group
           /\ \A s \in Frame : s # currentGroup => stream'[s] = stream[s]
           /\ stream'[currentGroup].st = "fin"
<1>1. stream \in [Frame -> StreamRecord] /\ stream[currentGroup] \in StreamRecord
  BY DEF TypeInv
<1>2. /\ \A s \in Frame : s # currentGroup => stream'[s] = stream[s]
      /\ stream'[currentGroup] = [stream[currentGroup] EXCEPT !.st = "fin"]
  BY <1>1
<1>3. /\ stream'[currentGroup] \in StreamRecord /\ stream'[currentGroup].st = "fin"
      /\ stream'[currentGroup].objs = stream[currentGroup].objs
      /\ stream'[currentGroup].group = stream[currentGroup].group
  BY <1>1, <1>2 DEF StreamRecord, StreamState
<1>4. stream' \in [Frame -> StreamRecord]
  BY <1>1, <1>3
<1>. QED BY <1>2, <1>3, <1>4

\* What the end of the connection does.
LEMMA StreamsBreak ==
    ASSUME TypeInv, CallInv, Closing
    PROVE  /\ stream' \in [Frame -> StreamRecord] /\ call' \in [Frame -> CallState]
           /\ \A s \in Frame : /\ stream'[s].objs = stream[s].objs
                               /\ stream'[s].group = stream[s].group
                               /\ stream'[s].st = IF stream[s].st \in {"opening", "open"}
                                                    THEN "cut" ELSE stream[s].st
                               /\ stream[s] = NoStream => stream'[s] = NoStream
           /\ \A f \in Frame : call'[f] = IF call[f] \in {"finish", "open"}
                                             THEN "lost" ELSE call[f]
<1>1. call' \in [Frame -> CallState]
  BY DEF Closing, TypeInv, CallState
<1>2. ASSUME NEW s \in Frame
      PROVE  /\ stream'[s] \in StreamRecord
             /\ stream'[s].objs = stream[s].objs /\ stream'[s].group = stream[s].group
             /\ stream'[s].st = IF stream[s].st \in {"opening", "open"} THEN "cut" ELSE stream[s].st
             /\ stream[s] = NoStream => stream'[s] = NoStream
  <2>1. stream[s] \in StreamRecord
    BY DEF TypeInv
  <2>2. CASE stream[s].st \in {"opening", "open"}
    <3>1. stream'[s] = [stream[s] EXCEPT !.st = "cut"]
      BY <2>2 DEF Closing
    <3>. QED BY <3>1, <2>1, <2>2 DEF StreamRecord, StreamState, NoStream
  <2>3. CASE stream[s].st \notin {"opening", "open"}
    <3>1. stream'[s] = stream[s]
      BY <2>3 DEF Closing
    <3>. QED BY <3>1, <2>1, <2>3
  <2>. QED BY <2>2, <2>3
<1>3. stream' \in [Frame -> StreamRecord]
  BY <1>2 DEF Closing
<1>. QED BY <1>1, <1>2, <1>3 DEF Closing

----------------------------------------------------------------------------
(* start, readFrames *)

\* start finds the encoder closed, and nothing in it, however far it comes.
LEMMA StartKeeps == PublisherInv /\ (Start \/ StartFails) => PublisherInv'
<1>. SUFFICES ASSUME PublisherInv, Start \/ StartFails PROVE PublisherInv'
  OBVIOUS
<1>. USE DEF PublisherInv, Start, StartFails, group, counts, stopVars
<1>1. ~encoder /\ pending = << >> /\ stopping = "no"
  BY DEF PageInv, TypeInv
<1>2. TypeInv'
  <2>1. starts' \in 0..MaxStarts
    BY PublisherAssumption DEF TypeInv
  <2>2. CASE Start
    BY <2>1, <2>2 DEF TypeInv
  <2>3. CASE StartFails
    BY <2>1, <2>3 DEF TypeInv
  <2>. QED BY <2>2, <2>3
<1>3. PageInv'
  BY <1>1 DEF PageInv
<1>4. QueueInv' /\ CallInv'
  BY DEF QueueInv, CallInv, Given
<1>5. ObjectInv' /\ GroupInv'
  BY DEF ObjectInv, StreamsInOrder, KeyframesAtHead, GroupInv, LaterGroups
<1>. QED BY <1>2, <1>3, <1>4, <1>5

\* The new frame is none that a call has written.
LEMMA EncodeFrameKeeps == PublisherInv /\ EncodeFrame => PublisherInv'
<1>. SUFFICES ASSUME PublisherInv, EncodeFrame PROVE PublisherInv'
  OBVIOUS
<1>. USE DEF PublisherInv
<1>. DEFINE new == frameCount + 1
<1>1. /\ new \in Frame /\ frameCount' = new /\ frameCount \in Nat
      /\ pending \in Seq(Frame) /\ Len(pending) \in Nat /\ Len(pending) <= frameCount
      /\ encoder /\ session
  BY PublisherAssumption DEF EncodeFrame, TypeInv, Frame, QueueInv, PageInv
<1>2. /\ pending' \in Seq(Frame) /\ Len(pending') = Len(pending) + 1
      /\ pending'[Len(pending) + 1] = new
      /\ \A i \in 1..Len(pending) : pending'[i] = pending[i]
  <2>1. pending' = Append(pending, new)
    BY <1>1 DEF EncodeFrame
  <2>. QED BY <1>1, <2>1
<1>3. keys \subseteq keys' /\ keys' \subseteq keys \cup {new}
  BY <1>1 DEF EncodeFrame
<1>4. Given' = Given /\ Given \in Nat /\ Given <= frameCount
  BY <1>1, <1>2 DEF Given
<1>5. \A f \in Frame : call[f] # "none" => f <= frameCount
  BY <1>1, <1>4 DEF QueueInv, Frame
<1>6. TypeInv'
  <2>1. frameCount' \in 0..MaxFrames /\ keys' \subseteq Frame
    BY <1>1, <1>3, PublisherAssumption DEF TypeInv, Frame
  <2>. QED BY <2>1, <1>2 DEF TypeInv, EncodeFrame, group, counts, stopVars
<1>7. PageInv'
  BY <1>1 DEF PageInv, EncodeFrame, group, counts, stopVars
<1>8. QueueInv'
  <2>1. Len(pending') <= frameCount'
    BY <1>1, <1>2
  <2>2. ASSUME NEW i \in 1..Len(pending') PROVE pending'[i] = Given' + i
    <3>1. CASE i \in 1..Len(pending)
      BY <3>1, <1>2, <1>4 DEF QueueInv
    <3>2. CASE i = Len(pending) + 1
      BY <3>2, <1>1, <1>2, <1>4 DEF Given
    <3>. QED BY <3>1, <3>2, <1>1, <1>2
  <2>3. \A f \in Frame : f > Given' => call'[f] = "none"
    BY <1>4 DEF QueueInv, EncodeFrame
  <2>4. \A f \in keys' : f <= frameCount'
    <3>1. \A f \in keys : f \in Nat /\ f <= frameCount
      BY DEF QueueInv, TypeInv, Frame
    <3>. QED BY <3>1, <1>1, <1>3
  <2>. QED BY <2>1, <2>2, <2>3, <2>4 DEF QueueInv
<1>9. CallInv'
  BY <1>3 DEF CallInv, EncodeFrame, group, counts, stopVars
<1>10. ObjectInv'
  <2>1. ASSUME NEW s \in Frame, NEW i \in DOMAIN stream[s].objs, stream[s].objs[i] \in keys'
        PROVE  stream[s].objs[i] \in keys
    <3>1. stream[s].objs[i] \in Frame /\ call[stream[s].objs[i]] = "done"
      BY WrittenIsDone
    <3>2. stream[s].objs[i] # new
      BY <3>1, <1>1, <1>5
    <3>. QED BY <3>2, <2>1, <1>3
  <2>2. KeyframesAtHead'
    BY <2>1 DEF ObjectInv, KeyframesAtHead, EncodeFrame
  <2>. QED BY <2>2 DEF ObjectInv, StreamsInOrder, EncodeFrame
<1>11. GroupInv'
  BY <1>3, SameGroups DEF EncodeFrame, group, counts
<1>. QED BY <1>6, <1>7, <1>8, <1>9, <1>10, <1>11

----------------------------------------------------------------------------
(* handleEncodedChunk *)

\* A call that throws: its frame is lost, and that is all.
LEMMA CallRefused ==
    ASSUME NEW f \in Frame, PublisherInv, Output(f), Goto(f, "refused"),
           UNCHANGED <<page, group, counts, stopVars, transport, stream>>
    PROVE  PublisherInv'
<1>. USE DEF PublisherInv, page, group, counts, stopVars
<1>1. /\ call[f] = "none" /\ stream[f] = NoStream
      /\ pending' \in Seq(Frame) /\ pending # << >>
  BY NextFrame
<1>2. /\ call' \in [Frame -> CallState] /\ call'[f] = "refused"
      /\ \A g \in Frame : g # f => call'[g] = call[g]
  BY DEF Goto, TypeInv, CallState
<1>3. TypeInv'
  BY <1>1, <1>2 DEF TypeInv
<1>4. PageInv'
  BY <1>1 DEF PageInv
<1>5. QueueInv'
  BY QueueMoves
<1>6. CallInv'
  BY <1>1, <1>2 DEF CallInv, NoStream
<1>7. ObjectInv'
  BY <1>1, <1>2, SameObjects
<1>8. GroupInv'
  BY SameGroups
<1>. QED BY <1>3, <1>4, <1>5, <1>6, <1>7, <1>8

\* The current group is closed by the call of the keyframe that ends it.
LEMMA FinishGroupKeeps ==
    ASSUME NEW f \in Frame, PublisherInv, FinishGroup(f) PROVE PublisherInv'
<1>. USE DEF PublisherInv
<1>1. /\ Output(f) /\ f \in keys /\ groupStarted
      /\ UNCHANGED <<page, group, counts, stopVars, transport>>
  BY DEF FinishGroup, Ends
<1>. USE DEF page, group, counts, stopVars
<1>2. /\ f = Given + 1 /\ call[f] = "none" /\ stream[f] = NoStream
      /\ pending' \in Seq(Frame) /\ pending # << >>
  BY <1>1, NextFrame
<1>3. currentGroup \in Frame /\ currentGroup # f
  BY <1>1, <1>2 DEF CallInv, TypeInv, NoStream, None
<1>4. PageInv'
  BY <1>1, <1>2 DEF PageInv
<1>5. CASE Writable(currentGroup)
  <2>1. stream' = [stream EXCEPT ![currentGroup].st = "fin"] /\ Goto(f, "finish")
    BY <1>5 DEF FinishGroup
  <2>2. /\ stream' \in [Frame -> StreamRecord]
        /\ \A s \in Frame : stream'[s].objs = stream[s].objs /\ stream'[s].group = stream[s].group
        /\ \A s \in Frame : s # currentGroup => stream'[s] = stream[s]
        /\ stream'[currentGroup].st = "fin"
    BY <2>1, <1>3, <1>5, GroupCloses
  <2>3. /\ call' \in [Frame -> CallState] /\ call'[f] = "finish"
        /\ \A g \in Frame : g # f => call'[g] = call[g]
    BY <2>1 DEF Goto, TypeInv, CallState
  <2>4. TypeInv'
    BY <2>2, <2>3, <1>1, <1>2 DEF TypeInv
  <2>5. QueueInv'
    BY <2>1, <1>1, QueueMoves
  <2>6. CallInv'
    <3>1. stream[currentGroup].st = "open"
      BY <1>5 DEF Writable
    <3>2. call[currentGroup] \notin {"none", "finish", "open"}
      BY <3>1, <1>3 DEF CallInv, NoStream
    <3>. QED BY <3>1, <3>2, <2>2, <2>3, <1>1, <1>2, <1>3 DEF CallInv, NoStream
  <2>7. ObjectInv'
    BY <2>2, <2>3, <1>1, <1>2, SameObjects
  <2>8. GroupInv'
    BY <2>2, <1>1, SameGroups
  <2>. QED BY <2>4, <2>5, <2>6, <2>7, <2>8, <1>4
<1>6. CASE ~Writable(currentGroup)
  <2>1. stream' = stream /\ Goto(f, "refused")
    BY <1>6 DEF FinishGroup
  <2>. QED BY <2>1, <1>1, CallRefused
<1>. QED BY <1>5, <1>6

\* What openSubgroup does to the streams.
LEMMA StreamOpening ==
    ASSUME TypeInv, NEW f \in Frame, NEW g \in Nat, BeginOpen(f, g)
    PROVE  /\ stream' \in [Frame -> StreamRecord]
           /\ \A s \in Frame : s # f => stream'[s] = stream[s]
           /\ stream'[f].st = "opening" /\ stream'[f].group = g /\ stream'[f].objs = << >>
<1>1. stream'[f] = [st |-> "opening", session |-> starts, group |-> g, objs |-> << >>]
  BY DEF BeginOpen, NoStream, TypeInv
<1>2. stream'[f] \in StreamRecord
  BY <1>1 DEF StreamRecord, StreamState, TypeInv
<1>3. \A s \in Frame : s # f => stream'[s] = stream[s]
  BY DEF BeginOpen, TypeInv
<1>4. stream' \in [Frame -> StreamRecord]
  BY <1>2, <1>3 DEF BeginOpen, TypeInv
<1>. QED BY <1>1, <1>3, <1>4

\* The number of the next group is new: no other stream has it.
LEMMA GroupFinishedKeeps ==
    ASSUME NEW f \in Frame, PublisherInv, GroupFinished(f) PROVE PublisherInv'
<1>. USE DEF PublisherInv
<1>1. /\ call[f] = "finish" /\ BeginOpen(f, groupId + 1) /\ Goto(f, "open")
      /\ UNCHANGED <<page, group, stopVars, transport, pending>>
      /\ groupId' = groupId + 1 /\ streamCount' = streamCount + 1
  BY DEF GroupFinished
<1>. USE DEF page, group, stopVars
<1>2. groupId \in Nat /\ streamCount \in Nat /\ groupId + 1 \in Nat
  BY DEF TypeInv
<1>3. stream[f] = NoStream /\ f \in keys /\ groupStarted
  BY <1>1 DEF CallInv
<1>4. /\ stream' \in [Frame -> StreamRecord]
      /\ \A s \in Frame : s # f => stream'[s] = stream[s]
      /\ stream'[f].st = "opening" /\ stream'[f].group = groupId + 1 /\ stream'[f].objs = << >>
  BY <1>1, <1>2, StreamOpening
<1>5. /\ call' \in [Frame -> CallState] /\ call'[f] = "open"
      /\ \A g \in Frame : g # f => call'[g] = call[g]
  BY <1>1 DEF Goto, TypeInv, CallState
<1>6. TypeInv'
  BY <1>1, <1>2, <1>4, <1>5 DEF TypeInv
<1>7. PageInv'
  BY <1>1 DEF PageInv
<1>8. QueueInv'
  BY <1>1, <1>5 DEF QueueInv, Given
<1>9. CallInv'
  <2>1. currentGroup \in Frame /\ currentGroup # f
    BY <1>3 DEF CallInv, TypeInv, NoStream, None
  <2>. QED BY <2>1, <1>1, <1>3, <1>4, <1>5 DEF CallInv, NoStream
<1>10. ObjectInv'
  BY <1>1, <1>3, <1>4, <1>5, SameObjects DEF NoStream
<1>11. GroupInv'
  <2>1. \A s \in Frame : stream[s].group \in Nat /\ stream[s].group <= groupId
    BY DEF GroupInv, TypeInv, StreamRecord
  <2>2. \A s \in Frame : stream'[s].group <= groupId'
    BY <2>1, <1>1, <1>2, <1>4
  <2>3. \A s \in Frame : s # f => stream'[s].group # stream'[f].group
    BY <2>1, <1>2, <1>4
  <2>4. LaterGroups'
    BY <2>3, <1>1, <1>3, <1>4 DEF GroupInv, LaterGroups
  <2>. QED BY <2>2, <2>4, <1>1, <1>3 DEF GroupInv
<1>. QED BY <1>6, <1>7, <1>8, <1>9, <1>10, <1>11

\* Until groupStarted is set, streams are opened for group 0.
LEMMA OpenFirstGroupKeeps ==
    ASSUME NEW f \in Frame, PublisherInv, OpenFirstGroup(f) PROVE PublisherInv'
<1>. USE DEF PublisherInv
<1>1. /\ Output(f) /\ currentGroup = None
      /\ UNCHANGED <<page, group, counts, stopVars, transport>>
  BY DEF OpenFirstGroup
<1>. USE DEF page, group, counts, stopVars
<1>2. /\ call[f] = "none" /\ stream[f] = NoStream
      /\ pending' \in Seq(Frame) /\ pending # << >>
  BY <1>1, NextFrame
<1>3. ~groupStarted /\ groupId = 0
  BY <1>1 DEF CallInv, GroupInv
<1>4. PageInv'
  BY <1>1, <1>2 DEF PageInv
<1>5. CASE transport = "up"
  <2>1. BeginOpen(f, 0) /\ Goto(f, "open")
    BY <1>3, <1>5 DEF OpenFirstGroup
  <2>2. /\ stream' \in [Frame -> StreamRecord]
        /\ \A s \in Frame : s # f => stream'[s] = stream[s]
        /\ stream'[f].st = "opening" /\ stream'[f].group = 0 /\ stream'[f].objs = << >>
    BY <2>1, StreamOpening
  <2>3. /\ call' \in [Frame -> CallState] /\ call'[f] = "open"
        /\ \A g \in Frame : g # f => call'[g] = call[g]
    BY <2>1 DEF Goto, TypeInv, CallState
  <2>4. TypeInv'
    BY <2>2, <2>3, <1>1, <1>2 DEF TypeInv
  <2>5. QueueInv'
    BY <2>1, <1>1, QueueMoves
  <2>6. CallInv'
    BY <2>2, <2>3, <1>1, <1>2 DEF CallInv, NoStream, None
  <2>7. ObjectInv'
    BY <2>2, <2>3, <1>1, <1>2, SameObjects DEF NoStream
  <2>8. GroupInv'
    BY <2>2, <1>1, <1>2, SameGroups DEF NoStream
  <2>. QED BY <2>4, <2>5, <2>6, <2>7, <2>8, <1>4
<1>6. CASE transport # "up"
  <2>1. stream' = stream /\ Goto(f, "refused")
    BY <1>6 DEF OpenFirstGroup
  <2>. QED BY <2>1, <1>1, CallRefused
<1>. QED BY <1>5, <1>6

\* The frame a stream was opened for is in no other stream.
LEMMA GroupOpenedKeeps ==
    ASSUME NEW f \in Frame, PublisherInv, GroupOpened(f) PROVE PublisherInv'
<1>. USE DEF PublisherInv
<1>1. /\ call[f] = "open" /\ Goto(f, "done") /\ currentGroup' = f /\ groupStarted'
      /\ groupStarted' = TRUE
      /\ UNCHANGED <<page, counts, stopVars, transport, pending>>
  BY DEF GroupOpened
<1>. USE DEF page, counts, stopVars
<1>2. stream[f].st = "opening" /\ stream[f].objs = << >> /\ stream[f] \in StreamRecord
  BY <1>1 DEF CallInv, ObjectInv, TypeInv
<1>3. stream'[f] = [stream[f] EXCEPT !.st = "open", !.objs = <<f>>]
  BY DEF GroupOpened, TypeInv
<1>4. /\ stream'[f] \in StreamRecord /\ stream'[f].st = "open" /\ stream'[f].objs = <<f>>
      /\ stream'[f].group = stream[f].group
  <2>1. <<f>> \in Seq(Frame)
    OBVIOUS
  <2>. QED BY <2>1, <1>2, <1>3 DEF StreamRecord, StreamState
<1>5. /\ stream' \in [Frame -> StreamRecord]
      /\ \A s \in Frame : s # f => stream'[s] = stream[s]
  BY <1>4 DEF GroupOpened, TypeInv
<1>6. /\ call' \in [Frame -> CallState] /\ call'[f] = "done"
      /\ \A g \in Frame : g # f => call'[g] = call[g]
  BY <1>1 DEF Goto, TypeInv, CallState
<1>7. TypeInv'
  BY <1>1, <1>5, <1>6 DEF TypeInv
<1>8. PageInv'
  BY <1>1 DEF PageInv
<1>9. QueueInv'
  BY <1>1, <1>6 DEF QueueInv, Given
<1>10. CallInv'
  BY <1>1, <1>4, <1>5, <1>6 DEF CallInv, Frame, None
<1>11. ObjectInv'
  <2>1. \A s \in Frame : stream[s].objs \in Seq(Frame)
    BY DEF TypeInv, StreamRecord
  <2>2. \A s \in Frame : \A i \in DOMAIN stream[s].objs :
            stream[s].objs[i] \in Frame /\ call[stream[s].objs[i]] = "done"
    BY WrittenIsDone
  <2>3. \A s \in Frame : \A i \in DOMAIN stream[s].objs : stream[s].objs[i] # f
    BY <2>2, <1>1
  <2>4. DOMAIN stream'[f].objs = {1} /\ stream'[f].objs[1] = f /\ Len(stream'[f].objs) = 1
    BY <1>4
  <2>5. \A s \in Frame : stream'[s].st \in {"none", "opening"} => stream'[s].objs = << >>
    BY <1>4, <1>5 DEF ObjectInv
  <2>6. ASSUME NEW s \in Frame, NEW i \in 1..Len(stream'[s].objs)
        PROVE  call'[stream'[s].objs[i]] = "done"
    <3>1. CASE s = f
      BY <3>1, <2>4, <1>6
    <3>2. CASE s # f
      <4>1. stream'[s] = stream[s] /\ i \in DOMAIN stream[s].objs
        BY <3>2, <2>1, <1>5
      <4>. QED BY <4>1, <2>2, <2>3, <1>6
    <3>. QED BY <3>1, <3>2
  <2>7. ASSUME NEW s \in Frame, NEW i \in DOMAIN stream'[s].objs, NEW j \in DOMAIN stream'[s].objs,
               i < j
        PROVE  stream'[s].objs[i] < stream'[s].objs[j]
    BY <2>4, <2>7, <1>5 DEF ObjectInv, StreamsInOrder
  <2>8. ASSUME NEW s \in Frame, NEW t \in Frame,
               NEW i \in DOMAIN stream'[s].objs, NEW j \in DOMAIN stream'[t].objs,
               stream'[s].objs[i] = stream'[t].objs[j]
        PROVE  s = t
    <3>1. CASE s = f /\ t # f
      BY <3>1, <2>3, <2>4, <2>8, <1>5
    <3>2. CASE s # f /\ t = f
      BY <3>2, <2>3, <2>4, <2>8, <1>5
    <3>3. CASE s # f /\ t # f
      BY <3>3, <2>8, <1>5 DEF ObjectInv, StreamsInOrder
    <3>. QED BY <3>1, <3>2, <3>3
  <2>9. StreamsInOrder'
    BY <2>7, <2>8 DEF StreamsInOrder
  <2>10. KeyframesAtHead'
    BY <2>4, <1>1, <1>5 DEF ObjectInv, KeyframesAtHead
  <2>. QED BY <2>5, <2>6, <2>9, <2>10 DEF ObjectInv
<1>12. GroupInv'
  BY <1>1, <1>4, <1>5, SameGroups
<1>. QED BY <1>7, <1>8, <1>9, <1>10, <1>11, <1>12

\* A written frame comes after all frames that were written before it.
LEMMA WriteFrameKeeps ==
    ASSUME NEW f \in Frame, PublisherInv, WriteFrame(f) PROVE PublisherInv'
<1>. USE DEF PublisherInv
<1>1. /\ Output(f) /\ ~Ends(f) /\ currentGroup # None
      /\ UNCHANGED <<page, group, counts, stopVars, transport>>
  BY DEF WriteFrame
<1>. USE DEF page, group, counts, stopVars
<1>2. /\ f = Given + 1 /\ call[f] = "none" /\ stream[f] = NoStream
      /\ pending' \in Seq(Frame) /\ pending # << >>
  BY <1>1, NextFrame
<1>3. currentGroup \in Frame /\ currentGroup # f /\ f \notin keys
  BY <1>1, <1>2 DEF CallInv, TypeInv, NoStream, Ends
<1>4. PageInv'
  BY <1>1, <1>2 DEF PageInv
<1>5. CASE Writable(currentGroup)
  <2>. DEFINE c == currentGroup
              old == stream[c].objs
              now == Append(old, f)
  <2>1. Goto(f, "done") /\ stream[c].st = "open" /\ stream[c] \in StreamRecord /\ c \in Frame
    BY <1>3, <1>5 DEF WriteFrame, Writable, TypeInv
  <2>2. stream'[c] = [stream[c] EXCEPT !.objs = now]
    BY <1>3, <1>5 DEF WriteFrame, TypeInv
  <2>3. /\ old \in Seq(Frame) /\ now \in Seq(Frame) /\ Len(old) \in Nat
        /\ Len(now) = Len(old) + 1 /\ now[Len(old) + 1] = f
        /\ \A i \in 1..Len(old) : now[i] = old[i]
        /\ DOMAIN now = 1..(Len(old) + 1) /\ DOMAIN old = 1..Len(old)
    <3>1. old \in Seq(Frame)
      BY <2>1 DEF StreamRecord
    <3>. HIDE DEF old
    <3>. QED BY <3>1
  <2>4. /\ stream'[c] \in StreamRecord /\ stream'[c].st = "open" /\ stream'[c].objs = now
        /\ stream'[c].group = stream[c].group
    BY <2>1, <2>2, <2>3 DEF StreamRecord
  <2>5. /\ stream' \in [Frame -> StreamRecord]
        /\ \A s \in Frame : s # c => stream'[s] = stream[s]
    BY <1>5, <2>4 DEF WriteFrame, TypeInv
  <2>6. /\ call' \in [Frame -> CallState] /\ call'[f] = "done"
        /\ \A g \in Frame : g # f => call'[g] = call[g]
    BY <2>1 DEF Goto, TypeInv, CallState
  <2>7. TypeInv'
    BY <2>5, <2>6, <1>1, <1>2 DEF TypeInv
  <2>8. QueueInv'
    BY <2>1, <1>1, QueueMoves
  <2>9. CallInv'
    <3>1. call[c] \notin {"none", "finish", "open"}
      BY <2>1 DEF CallInv, NoStream
    <3>. QED BY <3>1, <2>1, <2>4, <2>5, <2>6, <1>1, <1>2, <1>3 DEF CallInv, NoStream
  <2>10. ObjectInv'
    <3>1. \A s \in Frame : stream[s].objs \in Seq(Frame)
      BY DEF TypeInv, StreamRecord
    <3>2. \A s \in Frame : \A i \in DOMAIN stream[s].objs :
              stream[s].objs[i] \in Frame /\ call[stream[s].objs[i]] = "done"
      BY WrittenIsDone
    <3>3. \A s \in Frame : \A i \in DOMAIN stream[s].objs : stream[s].objs[i] < f
      <4>1. Given \in Nat
        BY <1>1 DEF Given, QueueInv, TypeInv
      <4>2. \A g \in Frame : call[g] = "done" => g < f
        BY <4>1, <1>2 DEF QueueInv, Frame
      <4>. QED BY <4>2, <3>2
    <3>5. \A s \in Frame : \A i \in DOMAIN stream[s].objs :
              stream[s].objs[i] # f /\ call'[stream[s].objs[i]] = "done"
      <4>1. \A s \in Frame : \A i \in DOMAIN stream[s].objs : stream[s].objs[i] # f
        BY <3>2, <1>2
      <4>. QED BY <4>1, <3>2, <2>6
    <3>6. \A s \in Frame : stream'[s].st \in {"none", "opening"} => stream'[s].objs = << >>
      BY <2>4, <2>5 DEF ObjectInv
    <3>. HIDE DEF now, old, c
    <3>7. ASSUME NEW s \in Frame, NEW i \in 1..Len(stream'[s].objs)
          PROVE  call'[stream'[s].objs[i]] = "done"
      <4>1. CASE s = c
        BY <4>1, <3>5, <2>3, <2>4, <2>6 DEF old
      <4>2. CASE s # c
        <5>1. stream'[s] = stream[s] /\ i \in DOMAIN stream[s].objs
          BY <4>2, <3>1, <2>5
        <5>. QED BY <5>1, <3>5
      <4>. QED BY <4>1, <4>2
    <3>8. ASSUME NEW s \in Frame, NEW i \in DOMAIN stream'[s].objs,
                 NEW j \in DOMAIN stream'[s].objs, i < j
          PROVE  stream'[s].objs[i] < stream'[s].objs[j]
      <4>1. CASE s = c
        <5>1. i \in 1..Len(old) /\ now[i] = old[i]
          BY <4>1, <3>8, <2>3, <2>4
        <5>2. CASE j = Len(old) + 1
          BY <5>1, <5>2, <4>1, <3>3, <2>1, <2>3, <2>4 DEF old
        <5>3. CASE j \in 1..Len(old)
          <6>1. old[i] < old[j]
            BY <5>1, <5>3, <3>8, <2>1, <2>3 DEF old, ObjectInv, StreamsInOrder
          <6>. QED BY <6>1, <5>1, <5>3, <4>1, <2>3, <2>4
        <5>. QED BY <5>2, <5>3, <4>1, <2>3, <2>4
      <4>2. CASE s # c
        BY <4>2, <3>8, <2>5 DEF ObjectInv, StreamsInOrder
      <4>. QED BY <4>1, <4>2
    <3>9. \A s \in Frame, i \in Nat : i \in DOMAIN stream'[s].objs =>
              \/ i \in DOMAIN stream[s].objs /\ stream'[s].objs[i] = stream[s].objs[i]
              \/ s = c /\ stream'[s].objs[i] = f
      BY <2>3, <2>4, <2>5 DEF old
    <3>10. \A s \in Frame : DOMAIN stream'[s].objs \subseteq Nat
      <4>1. \A s \in Frame : stream'[s].objs \in Seq(Frame)
        BY <2>5 DEF StreamRecord
      <4>. QED BY <4>1
    <3>11. ASSUME NEW s \in Frame, NEW t \in Frame,
                 NEW i \in DOMAIN stream'[s].objs, NEW j \in DOMAIN stream'[t].objs,
                 stream'[s].objs[i] = stream'[t].objs[j]
          PROVE  s = t
      <4>1. i \in Nat /\ j \in Nat
        BY <3>10
      <4>2. CASE /\ i \in DOMAIN stream[s].objs /\ stream'[s].objs[i] = stream[s].objs[i]
                 /\ j \in DOMAIN stream[t].objs /\ stream'[t].objs[j] = stream[t].objs[j]
        BY <4>2, <3>11 DEF ObjectInv, StreamsInOrder
      <4>. QED BY <4>1, <4>2, <3>5, <3>9, <3>11
    <3>12. StreamsInOrder'
      BY <3>8, <3>11 DEF StreamsInOrder
    <3>13. KeyframesAtHead'
      BY <3>9, <3>10, <1>1, <1>3 DEF ObjectInv, KeyframesAtHead
    <3>. QED BY <3>6, <3>7, <3>12, <3>13 DEF ObjectInv
  <2>11. GroupInv'
    BY <2>4, <2>5, <1>1, SameGroups
  <2>. QED BY <2>7, <2>8, <2>9, <2>10, <2>11, <1>4
<1>6. CASE ~Writable(currentGroup)
  <2>1. stream' = stream /\ Goto(f, "refused")
    BY <1>6 DEF WriteFrame
  <2>. QED BY <2>1, <1>1, CallRefused
<1>. QED BY <1>5, <1>6

----------------------------------------------------------------------------
(* The end of a session, and stop *)

\* Whatever closes the connection: the streams and calls that are left.
LEMMA ClosingKeeps ==
    ASSUME PublisherInv, Closing,
           UNCHANGED <<frameCount, keys, currentGroup, groupStarted, groupId>>,
           UNCHANGED pending \/ pending' = << >>
    PROVE  QueueInv' /\ CallInv' /\ ObjectInv' /\ GroupInv'
<1>. USE DEF PublisherInv
<1>1. /\ stream' \in [Frame -> StreamRecord] /\ call' \in [Frame -> CallState]
      /\ \A s \in Frame : /\ stream'[s].objs = stream[s].objs
                          /\ stream'[s].group = stream[s].group
                          /\ stream'[s].st = IF stream[s].st \in {"opening", "open"}
                                               THEN "cut" ELSE stream[s].st
                          /\ stream[s] = NoStream => stream'[s] = NoStream
      /\ \A f \in Frame : call'[f] = IF call[f] \in {"finish", "open"} THEN "lost" ELSE call[f]
  BY StreamsBreak
<1>2. QueueInv'
  <2>1. frameCount \in Nat /\ Len(pending) \in Nat
    BY DEF TypeInv
  <2>2. CASE UNCHANGED pending
    BY <2>2, <1>1 DEF QueueInv, Given
  <2>3. CASE pending' = << >>
    <3>1. Len(pending') = 0 /\ Given' = frameCount
      BY <2>1, <2>3 DEF Given
    <3>2. \A f \in Frame : f > frameCount => f > Given
      BY <2>1 DEF Given, Frame
    <3>. QED BY <3>1, <3>2, <2>1, <1>1 DEF QueueInv
  <2>. QED BY <2>2, <2>3
<1>3. CallInv'
  BY <1>1 DEF CallInv, TypeInv
<1>4. ObjectInv'
  BY <1>1, SameObjects
<1>5. GroupInv'
  BY <1>1, SameGroups
<1>. QED BY <1>2, <1>3, <1>4, <1>5

\* The connection is lost.
LEMMA LoseTransportKeeps == PublisherInv /\ LoseTransport => PublisherInv'
<1>. SUFFICES ASSUME PublisherInv, LoseTransport PROVE PublisherInv'
  OBVIOUS
<1>. USE DEF PublisherInv, LoseTransport, page, group, counts
<1>1. QueueInv' /\ CallInv' /\ ObjectInv' /\ GroupInv'
  BY ClosingKeeps
<1>2. TypeInv'
  <2>1. stream' \in [Frame -> StreamRecord] /\ call' \in [Frame -> CallState]
    BY StreamsBreak
  <2>. QED BY <2>1 DEF TypeInv, Closing
<1>3. PageInv'
  BY DEF PageInv
<1>. QED BY <1>1, <1>2, <1>3

\* The three steps of stop.
LEMMA StopKeeps == PublisherInv /\ Stop => PublisherInv'
<1>. SUFFICES ASSUME PublisherInv, Stop PROVE PublisherInv'
  OBVIOUS
<1>. USE DEF PublisherInv
<1>1. CASE PressStop
  <2>. USE <1>1 DEF PressStop, page, group, counts
  <2>1. TypeInv' /\ PageInv'
    BY DEF TypeInv, PageInv
  <2>2. QueueInv' /\ CallInv'
    BY DEF QueueInv, CallInv, Given
  <2>3. ObjectInv' /\ GroupInv'
    BY DEF ObjectInv, StreamsInOrder, KeyframesAtHead, GroupInv, LaterGroups
  <2>. QED BY <2>1, <2>2, <2>3
<1>2. CASE StopGroup
  <2>1. /\ ~encoder' /\ encoder' = FALSE /\ pending' = << >>
        /\ UNCHANGED <<starts, fresh, frameCount, keys, flushTo, group, counts>>
    BY <1>2 DEF StopGroup, CloseEncoder
  <2>. USE DEF group, counts
  <2>2. pending' \in Seq(Frame)
    BY <2>1
  <2>3. UNCHANGED call => QueueInv'
    <3>1. frameCount \in Nat /\ Len(pending) \in Nat
      BY DEF TypeInv
    <3>2. Len(pending') = 0 /\ Given' = frameCount
      BY <3>1, <2>1 DEF Given
    <3>3. \A f \in Frame : f > frameCount => f > Given
      BY <3>1 DEF Given, Frame
    <3>. QED BY <3>1, <3>2, <3>3, <2>1 DEF QueueInv
  <2>4. CASE /\ currentGroup # None /\ Writable(currentGroup)
             /\ stream' = [stream EXCEPT ![currentGroup].st = "fin"]
             /\ stopping' = "finish"
             /\ UNCHANGED <<session, startEnabled, transport, call>>
    <3>1. currentGroup \in Frame
      BY <2>4 DEF TypeInv
    <3>2. /\ stream' \in [Frame -> StreamRecord]
          /\ \A s \in Frame : stream'[s].objs = stream[s].objs /\ stream'[s].group = stream[s].group
          /\ \A s \in Frame : s # currentGroup => stream'[s] = stream[s]
          /\ stream'[currentGroup].st = "fin"
      BY <2>4, <3>1, GroupCloses
    <3>3. TypeInv'
      BY <3>2, <2>1, <2>2, <2>4 DEF TypeInv
    <3>4. PageInv'
      BY <1>2, <2>1, <2>4 DEF PageInv, StopGroup
    <3>5. CallInv'
      <4>1. stream[currentGroup].st = "open"
        BY <2>4 DEF Writable
      <4>2. call[currentGroup] \notin {"none", "finish", "open"}
        BY <4>1, <3>1 DEF CallInv, NoStream
      <4>. QED BY <4>1, <4>2, <3>1, <3>2, <2>1, <2>4 DEF CallInv, NoStream
    <3>6. ObjectInv'
      BY <3>2, <2>1, <2>4, SameObjects
    <3>7. GroupInv'
      BY <3>2, <2>1, SameGroups
    <3>. QED BY <3>3, <3>4, <3>5, <3>6, <3>7, <2>3, <2>4
  <2>5. CASE stopping' = "no" /\ UNCHANGED <<session, startEnabled, transport, call, stream>>
    <3>1. TypeInv' /\ PageInv'
      BY <2>1, <2>2, <2>5 DEF TypeInv, PageInv
    <3>2. CallInv'
      BY <2>1, <2>5 DEF CallInv
    <3>3. ObjectInv' /\ GroupInv'
      BY <2>1, <2>5 DEF ObjectInv, StreamsInOrder, KeyframesAtHead, GroupInv, LaterGroups
    <3>. QED BY <3>1, <3>2, <3>3, <2>3, <2>5
  <2>6. CASE CloseSession
    <3>1. stream' \in [Frame -> StreamRecord] /\ call' \in [Frame -> CallState]
      BY <2>6, StreamsBreak DEF CloseSession
    <3>2. TypeInv' /\ PageInv'
      BY <3>1, <2>1, <2>2, <2>6 DEF TypeInv, PageInv, CloseSession, Closing
    <3>3. QueueInv' /\ CallInv' /\ ObjectInv' /\ GroupInv'
      BY <2>1, <2>6, ClosingKeeps DEF CloseSession
    <3>. QED BY <3>2, <3>3
  <2>. QED BY <1>2, <2>4, <2>5, <2>6 DEF StopGroup
<1>3. CASE StopEnds
  <2>. USE <1>3 DEF StopEnds, CloseSession, group
  <2>1. stream' \in [Frame -> StreamRecord] /\ call' \in [Frame -> CallState]
    BY StreamsBreak
  <2>2. TypeInv'
    <3>1. streamCount' \in Nat /\ transport' = "closed" /\ session' = FALSE /\ stopping' = "no"
      BY DEF TypeInv, Closing
    <3>. QED BY <2>1, <3>1 DEF TypeInv
  <2>3. PageInv'
    BY DEF PageInv
  <2>4. QueueInv' /\ CallInv' /\ ObjectInv' /\ GroupInv'
    BY ClosingKeeps
  <2>. QED BY <2>2, <2>3, <2>4
<1>. QED BY <1>1, <1>2, <1>3 DEF Stop

\* Each step keeps the invariant.
LEMMA PublisherKeeps == PublisherInv /\ [Next]_vars => PublisherInv'
<1>. SUFFICES ASSUME PublisherInv, [Next]_vars PROVE PublisherInv'
  OBVIOUS
<1>1. CASE \E f \in Frame : HandleEncodedChunk(f)
  <2>1. PICK f \in Frame : HandleEncodedChunk(f)
    BY <1>1
  <2>. QED BY <2>1, FinishGroupKeeps, GroupFinishedKeeps, OpenFirstGroupKeeps,
              GroupOpenedKeeps, WriteFrameKeeps DEF HandleEncodedChunk
<1>2. CASE UNCHANGED vars
  BY <1>2 DEF vars, PublisherInv, TypeInv, PageInv, QueueInv, Given, CallInv, ObjectInv,
              StreamsInOrder, KeyframesAtHead, GroupInv, LaterGroups
<1>. QED BY <1>1, <1>2, StartKeeps, EncodeFrameKeeps, StopKeeps, LoseTransportKeeps DEF Next

\* All of this at any time: calls, streams and groups belong together.
THEOREM PublisherSound == Spec => []PublisherInv
BY PublisherStarts, PublisherKeeps, PTL DEF Spec

\* However the calls of handleEncodedChunk overlap, a stream has its frames in
\* the order of capture, and a frame is in one stream only.
THEOREM InOrder == Spec => []StreamsInOrder
<1>1. PublisherInv => StreamsInOrder
  BY DEF PublisherInv, ObjectInv
<1>. QED BY <1>1, PublisherSound, PTL

\* Wherever the encoder puts keyframes, none follows another frame of its group,
\* but for those that open a stream of their own in the first group.
THEOREM KeyframesInFront == Spec => []KeyframesLead
<1>1. PublisherInv => KeyframesLead
  <2>. SUFFICES ASSUME PublisherInv, NEW s \in Frame, NEW t \in Frame,
                       NEW i \in DOMAIN stream[s].objs, NEW j \in DOMAIN stream[t].objs,
                       stream[s].group = stream[t].group,
                       stream[s].objs[i] < stream[t].objs[j],
                       stream[t].objs[j] \in keys
                PROVE  stream[t].group = 0 /\ j = 1
    BY DEF KeyframesLead
  <2>1. j = 1
    BY DEF PublisherInv, ObjectInv, KeyframesAtHead
  <2>2. ASSUME stream[t].group > 0 PROVE FALSE
    <3>1. s = t
      BY <2>2 DEF PublisherInv, GroupInv, LaterGroups
    <3>2. stream[t].objs \in Seq(Frame)
      BY DEF PublisherInv, TypeInv, StreamRecord
    <3> DEFINE objs == stream[t].objs
    <3>3. i \in DOMAIN objs /\ j \in DOMAIN objs /\ objs[i] < objs[j]
      BY <3>1
    <3>4. \A k \in DOMAIN objs : k \in Nat /\ k >= 1 /\ objs[k] \in Nat
      <4> HIDE DEF objs
      <4>1. objs \in Seq(Frame)
        BY <3>2 DEF objs
      <4>2. \A k \in DOMAIN objs : k \in Nat /\ k >= 1 /\ objs[k] \in Frame
        BY <4>1
      <4>3. \A f \in Frame : f \in Nat
        BY PublisherAssumption DEF Frame
      <4> QED BY <4>2, <4>3
    <3>5. \A k, l \in DOMAIN objs : k < l => objs[k] < objs[l]
      BY DEF PublisherInv, ObjectInv, StreamsInOrder
    <3> HIDE DEF objs
    <3>6. i # j
      BY <3>3, <3>4
    <3>7. j < i
      BY <2>1, <3>3, <3>4, <3>6
    <3>. QED BY <3>3, <3>4, <3>5, <3>7
  <2>3. stream[t].group \in Nat
    BY DEF PublisherInv, TypeInv, StreamRecord
  <2>. QED BY <2>1, <2>2, <2>3
<1>. QED BY <1>1, PublisherSound, PTL

\* A group after the first is one stream that a keyframe opened, also if frames
\* arrive between the end of one group and the start of the next.
THEOREM OneStreamPerGroup == Spec => []LaterGroups
<1>1. PublisherInv => LaterGroups
  BY DEF PublisherInv, GroupInv
<1>. QED BY <1>1, PublisherSound, PTL

----------------------------------------------------------------------------
(* The invariant *)

Later     == {s \in Frame : stream[s].group > 0}
Finished  == {s \in Frame : stream[s].st = "fin"}
Finishing == {f \in Frame : call[f] = "finish"}

Stopping == IF stopping = "finish" THEN 1 ELSE 0

\* A group is numbered for a stream, and a stream is counted after it is finished.
CountInv ==
    /\ groupId <= Cardinality(Later)
    /\ streamCount + Cardinality(Finishing) + Stopping <= Cardinality(Finished)

\* A set of frames is finite, and not larger than their number.
LEMMA FramesCounted ==
    ASSUME NEW S, S \subseteq Frame
    PROVE  IsFiniteSet(S) /\ Cardinality(S) \in Nat /\ Cardinality(S) <= MaxFrames
<1>1. IsFiniteSet(Frame) /\ Cardinality(Frame) = MaxFrames
  BY FS_Interval, PublisherAssumption DEF Frame
<1>. QED BY <1>1, FS_Subset, FS_CardinalityType

LEMMA OneMore ==
    ASSUME NEW S, S \subseteq Frame, NEW f \in Frame, f \notin S
    PROVE  Cardinality(S \cup {f}) = Cardinality(S) + 1
BY FramesCounted, FS_AddElement

LEMMA OneLess ==
    ASSUME NEW S, S \subseteq Frame, NEW f \in S
    PROVE  Cardinality(S \ {f}) = Cardinality(S) - 1
BY FramesCounted, FS_RemoveElement

\* What is compared are numbers.
LEMMA CountTypes ==
    /\ Cardinality(Later) \in Nat /\ Cardinality(Finished) \in Nat /\ Cardinality(Finishing) \in Nat
    /\ Cardinality(Later) <= MaxFrames /\ Cardinality(Finished) <= MaxFrames
    /\ Stopping \in {0, 1}
<1>1. Later \subseteq Frame /\ Finished \subseteq Frame /\ Finishing \subseteq Frame
  BY DEF Later, Finished, Finishing
<1>. QED BY <1>1, FramesCounted DEF Stopping

\* A step that numbers no group, counts no stream and has none to wait for.
LEMMA SameCounts ==
    ASSUME TypeInv, CountInv, UNCHANGED counts, Later' = Later, Finished' = Finished,
           Finishing' \subseteq Finishing, stopping' = "finish" => stopping = "finish"
    PROVE  CountInv'
<1>1. Finishing \subseteq Frame /\ IsFiniteSet(Finishing)
  BY FramesCounted DEF Finishing
<1>2. Cardinality(Finishing') <= Cardinality(Finishing) /\ Cardinality(Finishing') \in Nat
  BY <1>1, FS_Subset, FS_CardinalityType
<1>3. Stopping' <= Stopping /\ Stopping' \in {0, 1} /\ Stopping \in {0, 1}
  BY DEF Stopping
<1>4. streamCount \in Nat /\ UNCHANGED <<streamCount, groupId>>
  BY DEF TypeInv, counts
<1>5. streamCount' + Cardinality(Finishing') + Stopping' <= Cardinality(Finished')
  <2>1. \A n, x, y, d, e, c \in Nat : n + x + d <= c /\ y <= x /\ e <= d => n + y + e <= c
    OBVIOUS
  <2>2. Stopping \in Nat /\ Stopping' \in Nat
    BY <1>3
  <2>3. streamCount + Cardinality(Finishing') + Stopping' <= Cardinality(Finished)
    BY <2>1, <2>2, <1>2, <1>3, <1>4, CountTypes DEF CountInv
  <2>. QED BY <2>3, <1>4
<1>. QED BY <1>4, <1>5 DEF CountInv

\* One stream more is finished, and one call waits for it.
LEMMA FinishGroupCounts ==
    ASSUME NEW f \in Frame, PublisherInv, CountInv, FinishGroup(f) PROVE CountInv'
<1>. USE DEF PublisherInv
<1>1. Output(f) /\ groupStarted /\ UNCHANGED <<counts, stopping>>
  BY DEF FinishGroup, Ends, stopVars
<1>2. call[f] = "none" /\ currentGroup \in Frame
  BY <1>1, NextFrame DEF CallInv, TypeInv, None
<1>3. CASE Writable(currentGroup)
  <2>1. stream' = [stream EXCEPT ![currentGroup].st = "fin"] /\ Goto(f, "finish")
    BY <1>3 DEF FinishGroup
  <2>2. /\ \A s \in Frame : stream'[s].group = stream[s].group
        /\ \A s \in Frame : s # currentGroup => stream'[s] = stream[s]
        /\ stream'[currentGroup].st = "fin" /\ stream[currentGroup].st = "open"
    BY <2>1, <1>2, <1>3, GroupCloses DEF Writable
  <2>3. Later' = Later
    BY <2>2 DEF Later
  <2>4. Finished' = Finished \cup {currentGroup} /\ currentGroup \notin Finished
    BY <2>2, <1>2 DEF Finished
  <2>5. Finishing' = Finishing \cup {f} /\ f \notin Finishing
    BY <2>1, <1>2 DEF Finishing, Goto, TypeInv
  <2>6. Cardinality(Finished') = Cardinality(Finished) + 1
    BY <2>4, <1>2, OneMore DEF Finished
  <2>7. Cardinality(Finishing') = Cardinality(Finishing) + 1
    BY <2>5, OneMore DEF Finishing
  <2>8. Stopping' = Stopping /\ streamCount \in Nat
    BY <1>1 DEF Stopping, TypeInv
  <2>. QED BY <2>3, <2>6, <2>7, <2>8, <1>1, CountTypes DEF CountInv, counts
<1>4. CASE ~Writable(currentGroup)
  <2>1. stream' = stream /\ Goto(f, "refused")
    BY <1>4 DEF FinishGroup
  <2>2. Later' = Later /\ Finished' = Finished /\ Finishing' \subseteq Finishing
    BY <2>1 DEF Later, Finished, Finishing, Goto, TypeInv
  <2>. QED BY <2>2, <1>1, SameCounts
<1>. QED BY <1>3, <1>4

\* One group more has a stream; one call less is to count its stream.
LEMMA GroupFinishedCounts ==
    ASSUME NEW f \in Frame, PublisherInv, CountInv, GroupFinished(f) PROVE CountInv'
<1>. USE DEF PublisherInv
<1>1. /\ call[f] = "finish" /\ BeginOpen(f, groupId + 1) /\ Goto(f, "open")
      /\ UNCHANGED stopping /\ groupId' = groupId + 1 /\ streamCount' = streamCount + 1
      /\ groupId \in Nat /\ streamCount \in Nat
  BY DEF GroupFinished, stopVars, TypeInv
<1>2. stream[f] = NoStream
  BY <1>1 DEF CallInv
<1>3. /\ \A s \in Frame : s # f => stream'[s] = stream[s]
      /\ stream'[f].st = "opening" /\ stream'[f].group = groupId + 1
  BY <1>1, StreamOpening
<1>4. Later' = Later \cup {f} /\ f \notin Later
  BY <1>1, <1>2, <1>3 DEF Later, NoStream
<1>5. Finished' = Finished
  BY <1>2, <1>3 DEF Finished, NoStream
<1>6. Finishing' = Finishing \ {f} /\ f \in Finishing
  BY <1>1 DEF Finishing, Goto, TypeInv
<1>7. Cardinality(Later') = Cardinality(Later) + 1
  BY <1>4, OneMore DEF Later
<1>8. Cardinality(Finishing') = Cardinality(Finishing) - 1
  BY <1>6, OneLess DEF Finishing
<1>9. Stopping' = Stopping
  BY <1>1 DEF Stopping
<1>. QED BY <1>1, <1>5, <1>7, <1>8, <1>9, CountTypes DEF CountInv

\* The calls that do not finish a group.
LEMMA WritingCounts ==
    ASSUME NEW f \in Frame, PublisherInv, CountInv,
           OpenFirstGroup(f) \/ GroupOpened(f) \/ WriteFrame(f)
    PROVE  CountInv'
<1>. USE DEF PublisherInv
<1>1. UNCHANGED <<counts, stopping>>
  BY DEF OpenFirstGroup, GroupOpened, WriteFrame, counts, stopVars
<1>2. Finishing' \subseteq Finishing
  BY DEF OpenFirstGroup, GroupOpened, WriteFrame, Goto, TypeInv, Finishing
<1>3. \A s \in Frame : /\ stream'[s].st = "fin" <=> stream[s].st = "fin"
                       /\ stream'[s].group > 0 <=> stream[s].group > 0
  <2>1. CASE OpenFirstGroup(f)
    <3>1. CASE BeginOpen(f, groupId)
      <4>1. stream[f] = NoStream /\ groupId = 0
        BY <2>1, NextFrame DEF OpenFirstGroup, CallInv, GroupInv
      <4>2. /\ \A s \in Frame : s # f => stream'[s] = stream[s]
            /\ stream'[f].st = "opening" /\ stream'[f].group = 0
        BY <3>1, <4>1, StreamOpening
      <4>. QED BY <4>1, <4>2 DEF NoStream
    <3>. QED BY <3>1, <2>1 DEF OpenFirstGroup
  <2>2. CASE GroupOpened(f)
    <3>1. stream'[f] = [stream[f] EXCEPT !.st = "open", !.objs = <<f>>]
      BY <2>2 DEF GroupOpened, TypeInv
    <3>2. \A s \in Frame : s # f => stream'[s] = stream[s]
      BY <2>2 DEF GroupOpened, TypeInv
    <3>3. stream[f].st = "opening" /\ stream[f] \in StreamRecord
      BY <2>2 DEF GroupOpened, CallInv, TypeInv
    <3>4. stream'[f].st = "open" /\ stream'[f].group = stream[f].group
      BY <3>1, <3>3 DEF StreamRecord
    <3>. QED BY <3>2, <3>3, <3>4
  <2>3. CASE WriteFrame(f)
    <3>1. CASE stream' = stream
      BY <3>1
    <3>2. CASE stream' = [stream EXCEPT ![currentGroup].objs = Append(@, f)]
      <4>1. currentGroup \in Frame
        BY <2>3 DEF WriteFrame, TypeInv
      <4>2. \A s \in Frame : s # currentGroup => stream'[s] = stream[s]
        BY <3>2, <4>1 DEF TypeInv
      <4>3. stream'[currentGroup] =
              [stream[currentGroup] EXCEPT !.objs = Append(stream[currentGroup].objs, f)]
        BY <3>2, <4>1 DEF TypeInv
      <4>4. stream[currentGroup] \in StreamRecord
        BY <4>1 DEF TypeInv
      <4>5. /\ stream'[currentGroup].st = stream[currentGroup].st
            /\ stream'[currentGroup].group = stream[currentGroup].group
        BY <4>3, <4>4 DEF StreamRecord
      <4>. QED BY <4>2, <4>5
    <3>. QED BY <2>3, <3>1, <3>2 DEF WriteFrame
  <2>. QED BY <2>1, <2>2, <2>3
<1>4. Later' = Later /\ Finished' = Finished
  BY <1>3 DEF Later, Finished
<1>. QED BY <1>1, <1>2, <1>4, SameCounts

\* The end of the connection leaves nothing to be counted but what is finished.
LEMMA ClosingCounts ==
    ASSUME PublisherInv, Closing
    PROVE  Later' = Later /\ Finished' = Finished /\ Finishing' = {}
<1>1. /\ \A s \in Frame : /\ stream'[s].group = stream[s].group
                          /\ stream'[s].st = IF stream[s].st \in {"opening", "open"}
                                               THEN "cut" ELSE stream[s].st
      /\ \A f \in Frame : call'[f] = IF call[f] \in {"finish", "open"} THEN "lost" ELSE call[f]
  BY StreamsBreak DEF PublisherInv
<1>. QED BY <1>1 DEF Later, Finished, Finishing

\* stop counts the stream that it has finished.
LEMMA StopCounts == PublisherInv /\ CountInv /\ Stop => CountInv'
<1>. SUFFICES ASSUME PublisherInv, CountInv, Stop PROVE CountInv'
  OBVIOUS
<1>. USE DEF PublisherInv
<1>1. CASE PressStop
  BY <1>1, SameCounts DEF PressStop, Later, Finished, Finishing
<1>2. CASE StopGroup
  <2>1. UNCHANGED counts /\ stopping # "finish"
    BY <1>2 DEF StopGroup
  <2>2. CASE /\ currentGroup # None /\ Writable(currentGroup)
             /\ stream' = [stream EXCEPT ![currentGroup].st = "fin"]
             /\ stopping' = "finish" /\ UNCHANGED call
    <3>1. currentGroup \in Frame
      BY <2>2 DEF TypeInv
    <3>2. /\ \A s \in Frame : stream'[s].group = stream[s].group
          /\ \A s \in Frame : s # currentGroup => stream'[s] = stream[s]
          /\ stream'[currentGroup].st = "fin" /\ stream[currentGroup].st = "open"
      BY <2>2, <3>1, GroupCloses DEF Writable
    <3>3. Later' = Later /\ Finishing' = Finishing
      BY <3>2, <2>2 DEF Later, Finishing
    <3>4. Finished' = Finished \cup {currentGroup} /\ currentGroup \notin Finished
      BY <3>1, <3>2 DEF Finished
    <3>5. Cardinality(Finished') = Cardinality(Finished) + 1
      BY <3>1, <3>4, OneMore DEF Finished
    <3>6. Stopping = 0 /\ Stopping' = 1 /\ streamCount \in Nat
      BY <2>1, <2>2 DEF Stopping, TypeInv
    <3>. QED BY <2>1, <3>3, <3>5, <3>6, CountTypes DEF CountInv, counts
  <2>3. CASE stopping' = "no" /\ UNCHANGED <<call, stream>>
    BY <2>1, <2>3, SameCounts DEF Later, Finished, Finishing
  <2>4. CASE CloseSession
    BY <2>1, <2>4, ClosingCounts, SameCounts DEF CloseSession
  <2>. QED BY <1>2, <2>2, <2>3, <2>4 DEF StopGroup
<1>3. CASE StopEnds
  <2>1. Later' = Later /\ Finished' = Finished /\ Finishing' = {}
    BY <1>3, ClosingCounts DEF StopEnds, CloseSession
  <2>2. Stopping = 1 /\ Stopping' = 0 /\ UNCHANGED groupId
    BY <1>3 DEF StopEnds, CloseSession, Stopping
  <2>3. streamCount' = streamCount + 1 /\ streamCount \in Nat
    BY <1>3 DEF StopEnds, TypeInv
  <2>4. Cardinality(Finishing') = 0
    BY <2>1, FS_EmptySet
  <2>. QED BY <2>1, <2>2, <2>3, <2>4, CountTypes DEF CountInv
<1>. QED BY <1>1, <1>2, <1>3 DEF Stop

\* Each step keeps the counts right.
LEMMA CountsKeep == PublisherInv /\ CountInv /\ [Next]_vars => CountInv'
<1>. SUFFICES ASSUME PublisherInv, CountInv, [Next]_vars PROVE CountInv'
  OBVIOUS
<1>1. CASE \E f \in Frame : HandleEncodedChunk(f)
  <2>1. PICK f \in Frame : HandleEncodedChunk(f)
    BY <1>1
  <2>. QED BY <2>1, FinishGroupCounts, GroupFinishedCounts, WritingCounts DEF HandleEncodedChunk
<1>2. CASE LoseTransport
  BY <1>2, ClosingCounts, SameCounts DEF LoseTransport, PublisherInv
<1>3. CASE Start \/ StartFails \/ EncodeFrame \/ UNCHANGED vars
  <2>1. UNCHANGED <<stream, call, stopping, counts>>
    BY <1>3 DEF Start, StartFails, EncodeFrame, vars, counts, stopVars
  <2>. QED BY <2>1, SameCounts DEF Later, Finished, Finishing, PublisherInv
<1>. QED BY <1>1, <1>2, <1>3, StopCounts DEF Next

\* TypeOK, with the bounds on the group's number and the stream count.
THEOREM TypesCorrect == Spec => []TypeOK
<1>1. Init => CountInv
  <2>. SUFFICES ASSUME Init PROVE CountInv
    OBVIOUS
  <2>1. Later = {} /\ Finished = {} /\ Finishing = {}
    BY DEF Init, NoStream, Later, Finished, Finishing
  <2>. QED BY <2>1, FS_EmptySet DEF Init, CountInv, Stopping
<1>2. PublisherInv /\ CountInv => TypeOK
  <2>. SUFFICES ASSUME PublisherInv, CountInv PROVE TypeOK
    OBVIOUS
  <2>. USE DEF PublisherInv
  <2>1. groupId \in 0..MaxFrames
    BY CountTypes, PublisherAssumption DEF CountInv, TypeInv
  <2>2. streamCount \in 0..MaxFrames
    BY CountTypes, PublisherAssumption DEF CountInv, TypeInv
  <2>3. ASSUME NEW s \in Frame
        PROVE  stream[s] \in [st : {"none", "opening", "open", "fin", "cut"},
                              session : 0..MaxStarts, group : 0..MaxFrames, objs : Seq(Frame)]
    <3>1. stream[s] \in StreamRecord /\ stream[s].group <= groupId
      BY DEF TypeInv, GroupInv
    <3>2. stream[s].group \in 0..MaxFrames
      BY <3>1, <2>1, PublisherAssumption DEF StreamRecord
    <3>. QED BY <3>1, <3>2 DEF StreamRecord, StreamState
  <2>4. (pending # << >> => session) /\ (~startEnabled => session)
    BY DEF PageInv
  <2>. QED BY <2>1, <2>2, <2>3, <2>4 DEF TypeOK, TypeInv, CallState, CallInv
<1>. QED BY <1>1, <1>2, CountsKeep, PublisherSound, PTL DEF Spec
===============================================================================
