---------------------------- MODULE WebSubscriber ----------------------------
(***************************************************************************)
(* The browser subscriber (src/web/src/subscriber.ts, over nextEvent and   *)
(* SubgroupReader of session.ts).                                          *)
(*                                                                         *)
(* receiveLoop takes streams as they come and starts processGroup for each *)
(* group newer than the active one, without waiting for it; the older one  *)
(* is told to stop by its AbortController.  All of them feed one decoder.  *)
(* Streams come from the relay in any order.  An object is its number.     *)
(* An error of nextEvent ends receiveLoop and nothing else: the session    *)
(* and the decoder stay until Stop is pressed.                             *)
(***************************************************************************)
EXTENDS Integers, Sequences

CONSTANTS
    Stream,         \* streams that arrive, each once
    Group,          \* the group of a stream: a function
    None,           \* absence of a stream
    MaxObjects,     \* the bound on the objects of a stream
    MaxUnread,      \* the bound on the objects of a stream that wait to be read
    MaxStarts,      \* the bound on how often Start is pressed
    DecoderMayFail, \* TRUE: the decoder may report an error
    Breakable,      \* streams that the relay may reset
    ConnectionMayBreak \* TRUE: the connection to the relay may be lost

ASSUME SubscriberAssumption ==
    /\ Group \in [Stream -> Nat] /\ None \notin Stream
    /\ MaxObjects \in Nat /\ MaxUnread \in Nat /\ MaxStarts \in Nat
    /\ DecoderMayFail \in BOOLEAN /\ Breakable \subseteq Stream
    /\ ConnectionMayBreak \in BOOLEAN

VARIABLES
    starts,         \* how often start has run
    session,        \* module variable session: TRUE when it is set
    connected,      \* its connection is there
    receiving,      \* receiveLoop runs
    decoder,        \* module variable decoder: "none", "configured" or "closed"
    needKey,        \* the decoder refuses a delta chunk
    activeGroupId,  \* module variable
    activeAbort,    \* module variable: the stream whose controller it is
    aborted,        \* streams whose signal is aborted
    src,            \* how a stream stands at the relay
    sent,           \* how many objects the relay wrote to it
    task,           \* where processGroup stands for a stream
    taken,          \* how many objects it has read
    decoded,        \* chunks given to the decoder: stream and object
    stopping        \* TRUE: stop waits for the decoder

vars == <<starts, session, connected, receiving, decoder, needKey, activeGroupId,
          activeAbort, aborted, src, sent, task, taken, decoded, stopping>>

page  == <<starts, session, connected, receiving, stopping>>
relay == <<src, sent>>
active == <<activeGroupId, activeAbort, aborted>>

----------------------------------------------------------------------------
Init ==
    /\ starts = 0 /\ session = FALSE /\ stopping = FALSE
    /\ connected = FALSE /\ receiving = FALSE
    /\ decoder = "none" /\ needKey = TRUE
    /\ activeGroupId = -1 /\ activeAbort = None /\ aborted = {}
    /\ src = [s \in Stream |-> "none"]
    /\ sent = [s \in Stream |-> 0]
    /\ task = [s \in Stream |-> "none"]
    /\ taken = [s \in Stream |-> 0]
    /\ decoded = << >>

\* Connected and subscribed, with a new decoder and a new receiveLoop; what a
\* former run left in activeGroupId and activeAbort stays.
\* One step, taken while there is no session: a start that fails half way and is
\* pressed again, or two that overlap, are left out.
Start ==
    /\ ~session /\ starts < MaxStarts
    /\ starts' = starts + 1 /\ session' = TRUE
    /\ connected' = TRUE /\ receiving' = TRUE
    /\ decoder' = "configured" /\ needKey' = TRUE
    /\ UNCHANGED <<stopping, task, taken, decoded>> /\ UNCHANGED active /\ UNCHANGED relay

----------------------------------------------------------------------------
\* The relay and the connection.  What becomes of a stream that nobody reads
\* any more is left out.

Live(s) == src[s] = "open" /\ task[s] \in {"none", "flush", "read"}

Arrive(s) ==
    /\ connected /\ src[s] = "none"
    /\ src' = [src EXCEPT ![s] = "open"]
    /\ UNCHANGED <<sent, decoder, needKey, task, taken, decoded>>
    /\ UNCHANGED page /\ UNCHANGED active

SendObject(s) ==
    /\ Live(s) /\ sent[s] < MaxObjects /\ sent[s] < taken[s] + MaxUnread
    /\ sent' = [sent EXCEPT ![s] = @ + 1]
    /\ UNCHANGED <<src, decoder, needKey, task, taken, decoded>>
    /\ UNCHANGED page /\ UNCHANGED active

EndStream(s) ==
    /\ Live(s)
    /\ src' = [src EXCEPT ![s] = "fin"]
    /\ UNCHANGED <<sent, decoder, needKey, task, taken, decoded>>
    /\ UNCHANGED page /\ UNCHANGED active

BreakStream(s) ==
    /\ s \in Breakable /\ Live(s)
    /\ src' = [src EXCEPT ![s] = "cut"]
    /\ UNCHANGED <<sent, decoder, needKey, task, taken, decoded>>
    /\ UNCHANGED page /\ UNCHANGED active

\* Every stream breaks; also of one that had ended, what did not arrive is lost.
LoseConnection ==
    /\ ConnectionMayBreak /\ connected
    /\ connected' = FALSE
    /\ src' = [s \in Stream |-> IF src[s] = "none" THEN "none" ELSE "cut"]
    /\ UNCHANGED <<starts, session, receiving, stopping, sent, decoder, needKey,
                   task, taken, decoded>>
    /\ UNCHANGED active

----------------------------------------------------------------------------
\* The decoder

\* flush() asks for a key chunk from now on, before it resolves.
CallFlush == needKey' = TRUE

\* It reports an error and is closed; nobody replaces it.  Flushes that wait
\* throw, that of stop too.
DecoderFails ==
    /\ DecoderMayFail /\ decoder = "configured"
    /\ decoder' = "closed" /\ stopping' = FALSE
    /\ task' = [s \in Stream |-> IF task[s] = "flush" THEN "failed" ELSE task[s]]
    /\ UNCHANGED <<starts, session, connected, receiving, needKey, taken, decoded>>
    /\ UNCHANGED active /\ UNCHANGED relay

\* EncodedVideoChunk and decode: the first object of a group counts as a key,
\* and a delta that is not wanted throws.
Decode(s) ==
    IF needKey /\ taken'[s] > 1
      THEN /\ task' = [task EXCEPT ![s] = "rejected"]
           /\ UNCHANGED <<needKey, decoded>>
      ELSE /\ needKey' = FALSE
           /\ decoded' = Append(decoded, [stream |-> s, object |-> taken'[s]])
           /\ UNCHANGED task

----------------------------------------------------------------------------
\* receiveLoop

\* The loop can come to s, whose header is there or was read before it broke.
Waiting(s) == receiving /\ src[s] # "none" /\ task[s] = "none"

\* Mutant: only the group that is being shown is skipped.
NotNewerThanSame(s) == Group[s] = activeGroupId

NotNewer(s) == Group[s] <= activeGroupId

\* Neither read nor cancelled.
SkipGroup(s) ==
    /\ Waiting(s) /\ NotNewer(s)
    /\ task' = [task EXCEPT ![s] = "skipped"]
    /\ UNCHANGED <<decoder, needKey, taken, decoded>>
    /\ UNCHANGED page /\ UNCHANGED active /\ UNCHANGED relay

\* Mutant: the group before is awaited.
TakeGroupInTurn(s) ==
    /\ Waiting(s) /\ ~NotNewer(s)
    /\ activeAbort # None => task[activeAbort] \notin {"flush", "read"}
    /\ activeGroupId' = Group[s] /\ activeAbort' = s
    /\ IF decoder = "configured"
         THEN CallFlush /\ task' = [task EXCEPT ![s] = "flush"]
         ELSE task' = [task EXCEPT ![s] = "read"] /\ UNCHANGED needKey
    /\ UNCHANGED <<aborted, decoder, taken, decoded>>
    /\ UNCHANGED page /\ UNCHANGED relay

\* The active group is aborted; the new one begins by flushing the decoder.
TakeGroup(s) ==
    /\ Waiting(s) /\ ~NotNewer(s)
    /\ aborted' = IF activeAbort = None THEN aborted ELSE aborted \cup {activeAbort}
    /\ activeGroupId' = Group[s] /\ activeAbort' = s
    /\ IF decoder = "configured"
         THEN CallFlush /\ task' = [task EXCEPT ![s] = "flush"]
         ELSE task' = [task EXCEPT ![s] = "read"] /\ UNCHANGED needKey
    /\ UNCHANGED <<decoder, taken, decoded>>
    /\ UNCHANGED page /\ UNCHANGED relay

\* nextEvent throws: a stream broke before its header was read, or the connection
\* is lost.  The loop ends; the session, the decoder and the tasks go on.
ReceiveFails ==
    /\ receiving
    /\ ~connected \/ \E s \in Stream : Waiting(s) /\ src[s] = "cut"
    /\ receiving' = FALSE
    /\ UNCHANGED <<starts, session, connected, stopping, decoder, needKey, task, taken, decoded>>
    /\ UNCHANGED active /\ UNCHANGED relay

----------------------------------------------------------------------------
\* processGroup

\* It ends; an aborted one cancels its stream (STOP_SENDING).
Leave(s) == task' = [task EXCEPT ![s] = IF s \in aborted THEN "cancelled" ELSE "done"]

Flushed(s) ==
    /\ task[s] = "flush"
    /\ IF s \in aborted THEN Leave(s) ELSE task' = [task EXCEPT ![s] = "read"]
    /\ UNCHANGED <<decoder, needKey, taken, decoded>>
    /\ UNCHANGED page /\ UNCHANGED active /\ UNCHANGED relay

\* Mutant: abort is not looked at after the wait for the object.
ReadAnyway(s) ==
    /\ task[s] = "read" /\ taken[s] < sent[s]
    /\ taken' = [taken EXCEPT ![s] = @ + 1]
    /\ IF decoder = "configured"
         THEN Decode(s)
         ELSE UNCHANGED <<task, needKey, decoded>>
    /\ UNCHANGED decoder
    /\ UNCHANGED page /\ UNCHANGED active /\ UNCHANGED relay

\* An object arrives.  The group may have been aborted while it was awaited:
\* nothing but the next object, or the end, wakes the task.
ReadObject(s) ==
    /\ task[s] = "read" /\ taken[s] < sent[s]
    /\ taken' = [taken EXCEPT ![s] = @ + 1]
    /\ \/ s \in aborted /\ Leave(s) /\ UNCHANGED <<needKey, decoded>>
       \/ s \notin aborted /\ decoder = "configured" /\ Decode(s)
       \/ s \notin aborted /\ decoder # "configured" /\ UNCHANGED <<task, needKey, decoded>>
    /\ UNCHANGED decoder
    /\ UNCHANGED page /\ UNCHANGED active /\ UNCHANGED relay

EndOfGroup(s) ==
    /\ task[s] = "read"
    /\ (src[s] = "fin" /\ taken[s] = sent[s]) \/ src[s] = "cut"
    /\ Leave(s)
    /\ UNCHANGED <<decoder, needKey, taken, decoded>>
    /\ UNCHANGED page /\ UNCHANGED active /\ UNCHANGED relay

----------------------------------------------------------------------------
\* stop

\* With a decoder that failed, flush throws and nothing is stopped.
PressStop ==
    /\ session /\ decoder = "configured" /\ ~stopping
    /\ stopping' = TRUE
    /\ CallFlush
    /\ UNCHANGED <<starts, session, connected, receiving, decoder, task, taken, decoded>>
    /\ UNCHANGED active /\ UNCHANGED relay

\* Mutant: the groups are not disturbed.
StopEndsOnly ==
    /\ stopping
    /\ stopping' = FALSE /\ session' = FALSE /\ connected' = FALSE /\ receiving' = FALSE
    /\ decoder' = "none" /\ needKey' = TRUE /\ decoded' = << >>
    /\ UNCHANGED <<starts, src, sent, task, taken>>
    /\ UNCHANGED active

\* Decoder and session are closed: flushes and reads that wait throw, and with
\* nextEvent the loop ends.
StopEnds ==
    /\ stopping
    /\ stopping' = FALSE /\ session' = FALSE /\ connected' = FALSE /\ receiving' = FALSE
    /\ decoder' = "none" /\ needKey' = TRUE /\ decoded' = << >>
    /\ src' = [s \in Stream |-> IF src[s] = "open" THEN "cut" ELSE src[s]]
    /\ task' = [s \in Stream |->
          CASE task[s] = "flush" -> "failed"
            [] task[s] = "read" -> IF s \in aborted THEN "cancelled" ELSE "done"
            [] task[s] = "none" /\ src[s] # "none" -> "skipped"
            [] OTHER -> task[s]]
    /\ UNCHANGED <<starts, sent, taken>>
    /\ UNCHANGED active

----------------------------------------------------------------------------
Relay(s) == Arrive(s) \/ SendObject(s) \/ EndStream(s) \/ BreakStream(s)

ReceiveLoop == ReceiveFails \/ \E s \in Stream : SkipGroup(s) \/ TakeGroup(s)

ProcessGroup(s) == Flushed(s) \/ ReadObject(s) \/ EndOfGroup(s)

Next ==
    \/ Start \/ PressStop \/ StopEnds \/ DecoderFails \/ LoseConnection \/ ReceiveLoop
    \/ \E s \in Stream : Relay(s) \/ ProcessGroup(s)

Spec == Init /\ [][Next]_vars

\* The browser runs every callback that can run.
FairSpec ==
    /\ Spec
    /\ WF_vars(ReceiveLoop) /\ WF_vars(StopEnds)
    /\ \A s \in Stream : WF_vars(ProcessGroup(s))

----------------------------------------------------------------------------
\* Every variable keeps its type; no group is read or waited for without a
\* session, and no session is without a decoder.
TypeOK ==
    /\ starts \in 0..MaxStarts /\ session \in BOOLEAN /\ stopping \in BOOLEAN
    /\ connected \in BOOLEAN /\ receiving \in BOOLEAN
    /\ decoder \in {"none", "configured", "closed"} /\ needKey \in BOOLEAN
    /\ activeGroupId \in Nat \cup {-1} /\ activeAbort \in Stream \cup {None}
    /\ aborted \subseteq Stream
    /\ src \in [Stream -> {"none", "open", "fin", "cut"}]
    /\ sent \in [Stream -> 0..MaxObjects] /\ taken \in [Stream -> 0..MaxObjects]
    /\ task \in [Stream -> {"none", "skipped", "flush", "read", "done", "rejected",
                            "cancelled", "failed"}]
    /\ decoded \in Seq([stream : Stream, object : 1..MaxObjects])
    /\ session <=> decoder # "none"
    /\ connected \/ receiving => session
    /\ \A s \in Stream : task[s] \in {"flush", "read"} => session

\* The decoder never gets the frames of two groups mixed: whatever groups
\* arrive while others are read or flushed for, it sees newer groups only, and
\* each from its first object on without a gap.
DecodedInOrder ==
    \A j \in DOMAIN decoded :
        LET c == decoded[j]
        IN  IF c.object = 1
              THEN \A i \in 1..(j - 1) : Group[decoded[i].stream] < Group[c.stream]
              ELSE j > 1 /\ decoded[j - 1] = [stream |-> c.stream, object |-> c.object - 1]

\* After a flush the decoder wants a key: a group that is aborted while it
\* waits for an object does not send it a delta.  Only stop, which flushes
\* while a group is being read, makes it refuse one.
RefusesOnlyWhenStopping ==
    [][\A s \in Stream : task[s] # "rejected" /\ task'[s] = "rejected" => stopping]_vars

\* A group that came is shown or overtaken by a newer one, also if the one before
\* never gets another object -- as long as receiveLoop runs.  It ends, with the
\* session set and Stop yet to be pressed, when any stream breaks before its header
\* is read or the connection is lost; what comes later is then never taken.
NotHeldBack ==
    \A s \in Stream :
        Waiting(s) ~> (activeGroupId >= Group[s] \/ ~receiving)
=============================================================================
