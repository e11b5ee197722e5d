---------------------------- MODULE WebPublisher ----------------------------
(***************************************************************************)
(* The browser publisher (src/web/src/publisher.ts, over MoqtSession and   *)
(* SubgroupWriter of session.ts).                                          *)
(*                                                                         *)
(* The encoder calls handleEncodedChunk for each frame and waits for       *)
(* nothing: at every await of one call, later calls and stop run on the    *)
(* same module variables.  A step is a stretch of a call between awaits.   *)
(*                                                                         *)
(* Frames are numbered over the life of the page.  A stream has the name   *)
(* of the frame whose call opened it: a call opens at most one.            *)
(***************************************************************************)
EXTENDS Naturals, Sequences

CONSTANTS
    MaxFrames,      \* the bound on the frames that are encoded
    MaxStarts,      \* the bound on how often Start is pressed
    Interval,       \* KEYFRAME_INTERVAL
    Queue,          \* the encoder's queue may hold this many before frames are dropped
    SessionMayBreak \* TRUE: the connection may be lost

ASSUME PublisherAssumption ==
    /\ MaxFrames \in Nat /\ MaxStarts \in Nat
    /\ Interval \in Nat \ {0} /\ Queue \in Nat
    /\ SessionMayBreak \in BOOLEAN

Frame == 1..MaxFrames
None  == 0          \* absence of a frame or a stream

VARIABLES
    starts,         \* how often start has run
    startEnabled,   \* the Start button can be pressed, and the Stop button cannot
    session,        \* module variable session: TRUE when it is set
    transport,      \* its connection: "up" or "closed"
    encoder,        \* module variable encoder: TRUE when it is set
    fresh,          \* the encoder has not been given a frame yet
    frameCount,     \* module variable
    pending,        \* frames the encoder holds, oldest first
    keys,           \* the frames that are keyframes
    call,           \* where the call of handleEncodedChunk for a frame stands
    currentGroup,   \* module variable: a stream, or None
    groupStarted,   \* module variable
    groupId,        \* module variable
    streamCount,    \* module variable
    stream,         \* what became of each stream
    stopping,       \* where stop stands
    flushTo         \* the last frame that stop waits for

vars == <<starts, startEnabled, session, transport, encoder, fresh, frameCount, pending, keys,
          call, currentGroup, groupStarted, groupId, streamCount, stream, stopping, flushTo>>

page    == <<starts, startEnabled, session, encoder, fresh, frameCount, keys>>
group   == <<currentGroup, groupStarted>>
counts  == <<groupId, streamCount>>
stopVars == <<stopping, flushTo>>

----------------------------------------------------------------------------
NoStream == [st |-> "none", session |-> 0, group |-> 0, objs |-> << >>]

Init ==
    /\ starts = 0 /\ startEnabled = TRUE
    /\ session = FALSE /\ transport = "closed"
    /\ encoder = FALSE /\ fresh = FALSE
    /\ frameCount = 0
    /\ pending = << >> /\ keys = {}
    /\ call = [f \in Frame |-> "none"]
    /\ currentGroup = None /\ groupStarted = FALSE
    /\ groupId = 0 /\ streamCount = 0
    /\ stream = [f \in Frame |-> NoStream]
    /\ stopping = "no" /\ flushTo = 0

----------------------------------------------------------------------------
\* start and readFrames

\* Connected, announced, subscribed to and capturing: start does not touch
\* what a former run left in currentGroup, groupStarted, groupId, frameCount.
\* Its waits are one step, so two starts that overlap and both come to their
\* end, an encoder each, are left out.
Start ==
    /\ startEnabled /\ starts < MaxStarts
    /\ starts' = starts + 1 /\ startEnabled' = FALSE
    /\ session' = TRUE /\ transport' = "up"
    /\ encoder' = TRUE /\ fresh' = TRUE
    /\ UNCHANGED <<frameCount, pending, keys, call, stream>>
    /\ UNCHANGED group /\ UNCHANGED counts /\ UNCHANGED stopVars

\* Connected, but no more: the publication or the camera is refused, another
\* request than SUBSCRIBE comes, or none.  The button is disabled at the end
\* only, so it can be pressed again; the next start replaces the session.
StartFails ==
    /\ startEnabled /\ starts < MaxStarts
    /\ starts' = starts + 1
    /\ session' = TRUE /\ transport' = "up"
    /\ UNCHANGED <<startEnabled, encoder, fresh>>
    /\ UNCHANGED <<frameCount, pending, keys, call, stream>>
    /\ UNCHANGED group /\ UNCHANGED counts /\ UNCHANGED stopVars

\* A camera frame goes to the encoder; with a long queue it is dropped, which
\* changes nothing.  The encoder makes keyframes of its own, too.
EncodeFrame ==
    /\ encoder /\ frameCount < MaxFrames /\ Len(pending) <= Queue
    /\ frameCount' = frameCount + 1
    /\ pending' = Append(pending, frameCount')
    /\ \E key \in BOOLEAN :
          /\ fresh \/ frameCount % Interval = 0 => key
          /\ keys' = IF key THEN keys \cup {frameCount'} ELSE keys
    /\ fresh' = FALSE
    /\ UNCHANGED <<starts, startEnabled, session, transport, encoder, call, stream>>
    /\ UNCHANGED group /\ UNCHANGED counts /\ UNCHANGED stopVars

----------------------------------------------------------------------------
\* SubgroupWriter

Writable(s) == stream[s].st = "open"

Goto(f, label) == call' = [call EXCEPT ![f] = label]

\* openSubgroup, called with the group id of this moment.
BeginOpen(f, g) ==
    stream' = [stream EXCEPT ![f] = [NoStream EXCEPT !.st = "opening", !.group = g,
                                                     !.session = starts]]

----------------------------------------------------------------------------
\* handleEncodedChunk.  Its first test, that there is a session, never fails:
\* stop closes the encoder before it clears the session (see TypeOK).

Output(f) == pending # << >> /\ f = Head(pending) /\ pending' = Tail(pending)

\* Mutant: keyframes are where they were requested.
EndsByRequest(f) == (f - 1) % Interval = 0 /\ groupStarted

\* A keyframe that ends a group.
Ends(f) == f \in keys /\ groupStarted

\* Mutant: the group is taken out before it is closed.
FinishAndForget(f) ==
    /\ Output(f) /\ Ends(f)
    /\ IF currentGroup # None /\ Writable(currentGroup)
         THEN /\ stream' = [stream EXCEPT ![currentGroup].st = "fin"]
              /\ Goto(f, "finish")
         ELSE Goto(f, "refused") /\ UNCHANGED stream
    /\ currentGroup' = None
    /\ UNCHANGED <<transport, groupStarted>>
    /\ UNCHANGED page /\ UNCHANGED counts /\ UNCHANGED stopVars

\* finish() of the current group; closing a closed stream throws.
FinishGroup(f) ==
    /\ Output(f) /\ Ends(f)
    /\ IF Writable(currentGroup)
         THEN /\ stream' = [stream EXCEPT ![currentGroup].st = "fin"]
              /\ Goto(f, "finish")
         ELSE Goto(f, "refused") /\ UNCHANGED stream
    /\ UNCHANGED transport
    /\ UNCHANGED page /\ UNCHANGED group /\ UNCHANGED counts /\ UNCHANGED stopVars

\* The next group, once the last one is closed.
GroupFinished(f) ==
    /\ call[f] = "finish" /\ transport = "up"
    /\ streamCount' = streamCount + 1
    /\ groupId' = groupId + 1
    /\ BeginOpen(f, groupId')
    /\ Goto(f, "open")
    /\ UNCHANGED <<transport, pending>>
    /\ UNCHANGED page /\ UNCHANGED group /\ UNCHANGED stopVars

\* There is no group yet.
OpenFirstGroup(f) ==
    /\ Output(f) /\ ~Ends(f) /\ currentGroup = None
    /\ IF transport = "up"
         THEN BeginOpen(f, groupId) /\ Goto(f, "open")
         ELSE Goto(f, "refused") /\ UNCHANGED stream
    /\ UNCHANGED transport
    /\ UNCHANGED page /\ UNCHANGED group /\ UNCHANGED counts /\ UNCHANGED stopVars

\* Mutant: the stream another call opened meanwhile is kept.
GroupOpenedUnlessSet(f) ==
    /\ call[f] = "open" /\ transport = "up"
    /\ currentGroup' = IF currentGroup = None THEN f ELSE currentGroup
    /\ groupStarted' = TRUE
    /\ stream' = IF currentGroup = None
                   THEN [stream EXCEPT ![f].st = "open", ![f].objs = <<f>>]
                   ELSE [stream EXCEPT ![f].st = "open", ![currentGroup].objs = Append(@, f)]
    /\ Goto(f, "done")
    /\ UNCHANGED <<transport, pending>>
    /\ UNCHANGED page /\ UNCHANGED counts /\ UNCHANGED stopVars

\* The stream is there and becomes the current group, whatever that is by now;
\* the frame is its first object.
GroupOpened(f) ==
    /\ call[f] = "open" /\ transport = "up"
    /\ currentGroup' = f /\ groupStarted' = TRUE
    /\ stream' = [stream EXCEPT ![f].st = "open", ![f].objs = <<f>>]
    /\ Goto(f, "done")
    /\ UNCHANGED <<transport, pending>>
    /\ UNCHANGED page /\ UNCHANGED counts /\ UNCHANGED stopVars

\* writeObject to the current group; writing to a closed stream throws.
WriteFrame(f) ==
    /\ Output(f) /\ ~Ends(f) /\ currentGroup # None
    /\ IF Writable(currentGroup)
         THEN /\ stream' = [stream EXCEPT ![currentGroup].objs = Append(@, f)]
              /\ Goto(f, "done")
         ELSE Goto(f, "refused") /\ UNCHANGED stream
    /\ UNCHANGED transport
    /\ UNCHANGED page /\ UNCHANGED group /\ UNCHANGED counts /\ UNCHANGED stopVars

----------------------------------------------------------------------------
\* The end of a session

\* Streams break off, and what waits for them throws.
Closing ==
    /\ transport' = "closed"
    /\ stream' = [s \in Frame |-> IF stream[s].st \in {"opening", "open"}
                                   THEN [stream[s] EXCEPT !.st = "cut"] ELSE stream[s]]
    /\ call' = [f \in Frame |-> IF call[f] \in {"finish", "open"} THEN "lost" ELSE call[f]]

LoseTransport ==
    /\ SessionMayBreak /\ transport = "up"
    /\ Closing
    /\ stopping' = IF stopping = "finish" THEN "no" ELSE stopping
    /\ UNCHANGED <<pending, flushTo>>
    /\ UNCHANGED page /\ UNCHANGED group /\ UNCHANGED counts

CloseSession ==
    /\ Closing
    /\ session' = FALSE /\ startEnabled' = TRUE
    /\ stopping' = "no"

----------------------------------------------------------------------------
\* stop

\* encoder.flush(): waits for the frames encoded so far.
PressStop ==
    /\ ~startEnabled /\ encoder /\ stopping = "no"
    /\ stopping' = "flush" /\ flushTo' = frameCount
    /\ UNCHANGED <<transport, pending, call, stream>>
    /\ UNCHANGED page /\ UNCHANGED group /\ UNCHANGED counts

\* Mutant: the encoder is forgotten without being closed.
ForgetEncoder == encoder' = FALSE /\ UNCHANGED pending

\* What the encoder still holds is dropped.
CloseEncoder == encoder' = FALSE /\ pending' = << >>

\* After the flush, or at once if a former stop threw after it: the encoder is
\* closed and the current group is finished.  That throws if a call finished it
\* already; the session then stays.
StopGroup ==
    /\ ~startEnabled
    /\ \/ stopping = "flush" /\ \A i \in DOMAIN pending : pending[i] > flushTo
       \/ stopping = "no" /\ ~encoder
    /\ CloseEncoder
    /\ \/ /\ currentGroup # None /\ Writable(currentGroup)
          /\ stream' = [stream EXCEPT ![currentGroup].st = "fin"]
          /\ stopping' = "finish"
          /\ UNCHANGED <<session, startEnabled, transport, call>>
       \/ /\ currentGroup # None /\ ~Writable(currentGroup)
          /\ stopping' = "no"
          /\ UNCHANGED <<session, startEnabled, transport, call, stream>>
       \/ currentGroup = None /\ CloseSession
    /\ UNCHANGED <<starts, fresh, frameCount, keys, flushTo>>
    /\ UNCHANGED group /\ UNCHANGED counts

StopEnds ==
    /\ stopping = "finish"
    /\ streamCount' = streamCount + 1
    /\ CloseSession
    /\ UNCHANGED <<starts, encoder, fresh, frameCount, pending, keys, groupId, flushTo>>
    /\ UNCHANGED group

----------------------------------------------------------------------------
HandleEncodedChunk(f) ==
    \/ FinishGroup(f) \/ GroupFinished(f)
    \/ OpenFirstGroup(f) \/ GroupOpened(f) \/ WriteFrame(f)

Stop == PressStop \/ StopGroup \/ StopEnds

Next ==
    \/ Start \/ StartFails \/ EncodeFrame \/ Stop \/ LoseTransport
    \/ \E f \in Frame : HandleEncodedChunk(f)

Spec == Init /\ [][Next]_vars

----------------------------------------------------------------------------
\* Every variable keeps its type, a call that waits has its stream, and the
\* encoder holds frames, and the Stop button works, only while there is a session.
TypeOK ==
    /\ starts \in 0..MaxStarts /\ startEnabled \in BOOLEAN
    /\ session \in BOOLEAN /\ encoder \in BOOLEAN /\ fresh \in BOOLEAN
    /\ transport \in {"up", "closed"}
    /\ frameCount \in 0..MaxFrames
    /\ pending \in Seq(Frame) /\ keys \subseteq Frame
    /\ call \in [Frame -> {"none", "finish", "open", "done", "refused", "lost"}]
    /\ currentGroup \in Frame \cup {None} /\ groupStarted \in BOOLEAN
    /\ groupId \in 0..MaxFrames /\ streamCount \in 0..MaxFrames
    /\ stream \in [Frame -> [st : {"none", "opening", "open", "fin", "cut"},
                             session : 0..MaxStarts, group : 0..MaxFrames, objs : Seq(Frame)]]
    /\ stopping \in {"no", "flush", "finish"} /\ flushTo \in 0..MaxFrames
    /\ \A f \in Frame : call[f] = "open" <=> stream[f].st = "opening"
    /\ pending # << >> => session
    /\ ~startEnabled => session

\* However the calls overlap, the frames of a stream are in the order in which
\* they were captured, and no frame is in two streams.
StreamsInOrder ==
    /\ \A s \in Frame : \A i, j \in DOMAIN stream[s].objs :
          i < j => stream[s].objs[i] < stream[s].objs[j]
    /\ \A s, t \in Frame : \A i \in DOMAIN stream[s].objs, j \in DOMAIN stream[t].objs :
          stream[s].objs[i] = stream[t].objs[j] => s = t

\* A keyframe, the encoder's own ones too, follows no other frame of its group.
\* The first group is the exception: each frame that comes before a stream of it
\* is open opens one more stream of it, and may be a keyframe.
KeyframesLead ==
    \A s, t \in Frame : \A i \in DOMAIN stream[s].objs, j \in DOMAIN stream[t].objs :
        /\ stream[s].group = stream[t].group
        /\ stream[s].objs[i] < stream[t].objs[j]
        /\ stream[t].objs[j] \in keys
        => stream[t].group = 0 /\ j = 1

\* After the first, each group is one stream that starts with a keyframe, also
\* if frames arrive while the last group is closed and the next one opened.
LaterGroups ==
    \A s \in Frame : stream[s].group > 0 =>
        /\ s \in keys
        /\ \A t \in Frame : stream[t].group = stream[s].group => t = s

\* publisher.ts, handleEncodedChunk: a keyframe starts a new group.
KeyframesStartGroups == \A f \in keys : call[f] # "refused"
=============================================================================
