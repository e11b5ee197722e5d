-------------------------- MODULE WebSubscriberProofs --------------------------
(***************************************************************************)
(* What the decoder of the browser subscriber is given, for any streams    *)
(* and groups in any order of arrival, and any number of runs of the page. *)
(***************************************************************************)
EXTENDS WebSubscriber, TLAPS

----------------------------------------------------------------------------
(* The inductive invariant *)

SourceState == {"none", "open", "fin", "cut"}
TaskState   == {"none", "skipped", "flush", "read", "done", "rejected", "cancelled", "failed"}
Chunk       == [stream : Stream, object : 1..MaxObjects]

\* No more is read of a stream than was sent, and nothing before it is taken.
ReadInv ==
    /\ \A s \in Stream : taken[s] <= sent[s]
    /\ \A s \in Stream : task[s] \in {"none", "flush"} => taken[s] = 0

\* processGroup runs for s and has not been told to stop.
Active(s) == task[s] \in {"flush", "read"} /\ s \notin aborted

\* Only the group that receiveLoop took last is active.
ActiveInv == \A s \in Stream : Active(s) => activeAbort = s /\ activeGroupId = Group[s]

\* Objects of s go to a decoder that is there.
Feeding(s) == task[s] = "read" /\ s \notin aborted /\ decoder = "configured"

\* A group of which something was read is refused only because of stop.
KeyInv == \A s \in Stream : Feeding(s) /\ needKey /\ ~stopping => taken[s] = 0

\* No group after the active one was decoded, and of that one no more than was read.
KnownChunk(i) ==
    /\ Group[decoded[i].stream] <= activeGroupId
    /\ Group[decoded[i].stream] = activeGroupId =>
           decoded[i].stream = activeAbort /\ decoded[i].object <= taken[decoded[i].stream]

DecodedInv == \A i \in 1..Len(decoded) : KnownChunk(i)

\* The decoder was last given what was last read.
LastInv ==
    \A s \in Stream : Feeding(s) /\ ~needKey /\ taken[s] > 0 =>
        Len(decoded) > 0 /\ decoded[Len(decoded)] = [stream |-> s, object |-> taken[s]]

SubscriberInv ==
    TypeOK /\ ReadInv /\ ActiveInv /\ KeyInv /\ DecodedInOrder /\ DecodedInv /\ LastInv

----------------------------------------------------------------------------
(* Lemmas about what the steps have in common *)

\* The page as it is loaded.
LEMMA SubscriberStarts == Init => SubscriberInv
<1>. SUFFICES ASSUME Init PROVE SubscriberInv
  OBVIOUS
<1>. USE DEF Init
<1>1. TypeOK
  <2>1. decoded \in Seq([stream : Stream, object : 1..MaxObjects])
    OBVIOUS
  <2>2. sent \in [Stream -> 0..MaxObjects] /\ taken \in [Stream -> 0..MaxObjects]
    BY SubscriberAssumption
  <2>3. /\ task \in [Stream -> TaskState] /\ src \in [Stream -> SourceState]
        /\ \A s \in Stream : task[s] \notin {"flush", "read"}
    BY DEF TaskState, SourceState
  <2>4. starts \in 0..MaxStarts /\ activeGroupId \in Nat \cup {-1}
    BY SubscriberAssumption
  <2>. QED BY <2>1, <2>2, <2>3, <2>4 DEF TypeOK, TaskState, SourceState
<1>2. ReadInv /\ ActiveInv /\ KeyInv /\ LastInv
  BY DEF ReadInv, ActiveInv, Active, KeyInv, LastInv, Feeding
<1>3. DecodedInOrder /\ DecodedInv
  BY DEF DecodedInOrder, DecodedInv, KnownChunk
<1>. QED BY <1>1, <1>2, <1>3 DEF SubscriberInv

\* The types, spelled out.
LEMMA Types ==
    ASSUME TypeOK
    PROVE  /\ decoded \in Seq(Chunk) /\ Len(decoded) \in Nat /\ DOMAIN decoded = 1..Len(decoded)
           /\ \A i \in 1..Len(decoded) : /\ decoded[i] \in Chunk /\ decoded[i].stream \in Stream
                                         /\ decoded[i].object \in Nat
                                         /\ Group[decoded[i].stream] \in Nat
           /\ \A s \in Stream : taken[s] \in Nat /\ sent[s] \in Nat /\ Group[s] \in Nat
           /\ activeGroupId \in Int
<1>1. decoded \in Seq(Chunk)
  BY DEF TypeOK, Chunk
<1>2. \A i \in 1..Len(decoded) : decoded[i] \in Chunk
  BY <1>1
<1>3. \A c \in Chunk : c.stream \in Stream /\ c.object \in Nat
  BY DEF Chunk
<1>4. \A s \in Stream : taken[s] \in Nat /\ sent[s] \in Nat /\ Group[s] \in Nat
  <2>1. /\ taken \in [Stream -> 0..MaxObjects] /\ sent \in [Stream -> 0..MaxObjects]
        /\ Group \in [Stream -> Nat] /\ 0..MaxObjects \subseteq Nat
    BY SubscriberAssumption DEF TypeOK
  <2>. QED BY <2>1
<1>5. activeGroupId \in Int
  BY DEF TypeOK
<1>. QED BY <1>1, <1>2, <1>3, <1>4, <1>5

\* A step that neither takes a group nor decodes: what is active or fed was so before.
LEMMA NothingDecoded ==
    ASSUME SubscriberInv, UNCHANGED <<decoded, activeGroupId, activeAbort>>,
           \A s \in Stream : Active(s)' => Active(s),
           \A s \in Stream : taken[s] <= taken'[s] /\ taken'[s] \in Nat,
           \A s \in Stream : Feeding(s)' => /\ Feeding(s) \/ taken'[s] = 0
                                            /\ taken'[s] = taken[s]
                                            /\ ~needKey' => ~needKey
                                            /\ needKey' /\ ~stopping' =>
                                                   \/ needKey /\ ~stopping
                                                   \/ taken'[s] = 0
    PROVE  ActiveInv' /\ KeyInv' /\ DecodedInOrder' /\ DecodedInv' /\ LastInv'
<1>. USE DEF SubscriberInv
<1>1. ActiveInv'
  BY DEF ActiveInv
<1>2. KeyInv'
  BY DEF KeyInv
<1>3. DecodedInOrder'
  BY DEF DecodedInOrder
<1>4. DecodedInv'
  <2>. SUFFICES ASSUME NEW i \in 1..Len(decoded),
                       Group[decoded[i].stream] = activeGroupId
                PROVE  decoded[i].object <= taken'[decoded[i].stream]
    BY DEF DecodedInv, KnownChunk
  <2>1. decoded[i].object <= taken[decoded[i].stream]
    BY DEF DecodedInv, KnownChunk
  <2>. QED BY <2>1, Types
<1>5. LastInv'
  BY DEF LastInv
<1>. QED BY <1>1, <1>2, <1>3, <1>4, <1>5

----------------------------------------------------------------------------
(* start, the relay, the decoder *)

\* start finds no task running.
LEMMA StartKeeps == SubscriberInv /\ Start => SubscriberInv'
<1>. SUFFICES ASSUME SubscriberInv, Start PROVE SubscriberInv'
  OBVIOUS
<1>. USE DEF SubscriberInv, Start, active, relay
<1>1. \A s \in Stream : task[s] \notin {"flush", "read"}
  BY DEF TypeOK
<1>2. TypeOK'
  BY SubscriberAssumption DEF TypeOK
<1>3. ReadInv'
  BY DEF ReadInv
<1>4. ActiveInv' /\ KeyInv' /\ LastInv'
  BY <1>1 DEF ActiveInv, Active, KeyInv, LastInv, Feeding
<1>5. DecodedInOrder' /\ DecodedInv'
  BY DEF DecodedInOrder, DecodedInv, KnownChunk
<1>. QED BY <1>2, <1>3, <1>4, <1>5

\* The relay disturbs nothing that was read.
LEMMA RelayKeeps == ASSUME NEW s \in Stream, SubscriberInv, Relay(s) PROVE SubscriberInv'
<1>. USE DEF SubscriberInv
<1>1. UNCHANGED <<page, active, decoder, needKey, task, taken, decoded>>
  BY DEF Relay, Arrive, SendObject, EndStream, BreakStream, page
<1>2. src' \in [Stream -> SourceState]
  BY DEF Relay, Arrive, SendObject, EndStream, BreakStream, TypeOK, SourceState
<1>3. sent' \in [Stream -> 0..MaxObjects] /\ \A t \in Stream : sent[t] <= sent'[t]
  <2>1. CASE UNCHANGED sent
    BY <2>1 DEF TypeOK
  <2>2. CASE SendObject(s)
    <3>1. sent' = [sent EXCEPT ![s] = sent[s] + 1] /\ sent[s] < MaxObjects
      BY <2>2 DEF SendObject
    <3>2. sent[s] + 1 \in 0..MaxObjects
      BY <3>1, SubscriberAssumption DEF TypeOK
    <3>. QED BY <3>1, <3>2 DEF TypeOK
  <2>. QED BY <2>1, <2>2 DEF Relay, Arrive, EndStream, BreakStream
<1>4. TypeOK'
  BY <1>1, <1>2, <1>3 DEF TypeOK, page, active, SourceState
<1>5. ReadInv'
  <2>1. \A t \in Stream : sent[t] \in Nat /\ sent'[t] \in Nat /\ taken[t] \in Nat
    BY <1>3, Types
  <2>. QED BY <2>1, <1>1, <1>3 DEF ReadInv
<1>6. ActiveInv' /\ KeyInv' /\ LastInv'
  BY <1>1 DEF ActiveInv, Active, KeyInv, LastInv, Feeding, page, active
<1>7. DecodedInOrder' /\ DecodedInv'
  BY <1>1 DEF DecodedInOrder, DecodedInv, KnownChunk, active
<1>. QED BY <1>4, <1>5, <1>6, <1>7

\* A lost connection breaks the streams, and a loop that ends takes no group: what was
\* read and decoded stays.
LEMMA LossKeeps == SubscriberInv /\ (LoseConnection \/ ReceiveFails) => SubscriberInv'
<1>. SUFFICES ASSUME SubscriberInv, LoseConnection \/ ReceiveFails PROVE SubscriberInv'
  OBVIOUS
<1>. USE DEF SubscriberInv
<1>1. /\ UNCHANGED <<starts, session, stopping, active, decoder, needKey, sent, task, taken,
                     decoded>>
      /\ connected' \in {FALSE, connected} /\ receiving' \in {FALSE, receiving}
  <2>1. CASE LoseConnection
    BY <2>1 DEF LoseConnection, active
  <2>2. CASE ReceiveFails
    BY <2>2 DEF ReceiveFails, active, relay
  <2>. QED BY <2>1, <2>2
<1>2. src' \in [Stream -> SourceState]
  BY DEF LoseConnection, ReceiveFails, relay, TypeOK, SourceState
<1>3. TypeOK'
  <2>1. /\ connected \in BOOLEAN /\ receiving \in BOOLEAN /\ session' = session
        /\ connected => session
        /\ receiving => session
    BY <1>1 DEF TypeOK
  <2>2. connected' \in BOOLEAN /\ receiving' \in BOOLEAN
    BY <2>1, <1>1
  <2>3. /\ connected' = FALSE \/ connected' = connected
        /\ receiving' = FALSE \/ receiving' = receiving
    BY <1>1
  <2>4. connected' \/ receiving' => session'
    BY <2>1, <2>3, Zenon
  <2>. QED BY <2>2, <2>3, <2>4, <1>1, <1>2 DEF TypeOK, active, SourceState
<1>4. ReadInv'
  BY <1>1 DEF ReadInv
<1>5. ActiveInv' /\ KeyInv' /\ LastInv'
  BY <1>1 DEF ActiveInv, Active, KeyInv, LastInv, Feeding, active
<1>6. DecodedInOrder' /\ DecodedInv'
  BY <1>1 DEF DecodedInOrder, DecodedInv, KnownChunk, active
<1>. QED BY <1>3, <1>4, <1>5, <1>6

\* A decoder that failed is fed no more.
LEMMA DecoderFailsKeeps == SubscriberInv /\ DecoderFails => SubscriberInv'
<1>. SUFFICES ASSUME SubscriberInv, DecoderFails PROVE SubscriberInv'
  OBVIOUS
<1>. USE DEF SubscriberInv, DecoderFails, active, relay
<1>1. \A s \in Stream : /\ task'[s] = IF task[s] = "flush" THEN "failed" ELSE task[s]
                        /\ task'[s] \in TaskState
  BY DEF TypeOK, TaskState
<1>2. TypeOK'
  <2>1. task' \in [Stream -> TaskState]
    BY <1>1
  <2>. QED BY <1>1, <2>1 DEF TypeOK, TaskState
<1>3. ReadInv'
  BY <1>1 DEF ReadInv
<1>4. \A s \in Stream : (Active(s)' => Active(s)) /\ ~Feeding(s)'
  BY <1>1 DEF Active, Feeding
<1>5. \A s \in Stream : taken[s] <= taken'[s] /\ taken'[s] \in Nat
  BY Types
<1>. QED BY <1>2, <1>3, <1>4, <1>5, NothingDecoded

----------------------------------------------------------------------------
(* receiveLoop *)

\* A task moves on; what it was is replaced.
LEMMA TaskMoves ==
    ASSUME TypeOK, NEW s \in Stream, NEW label \in TaskState, task' = [task EXCEPT ![s] = label]
    PROVE  /\ task' \in [Stream -> TaskState] /\ task'[s] = label
           /\ \A t \in Stream : t # s => task'[t] = task[t]
BY DEF TypeOK, TaskState

\* A group that is not newer is left where it is.
LEMMA SkipGroupKeeps == ASSUME NEW s \in Stream, SubscriberInv, SkipGroup(s) PROVE SubscriberInv'
<1>. USE DEF SubscriberInv
<1>1. /\ UNCHANGED <<page, active, relay, decoder, needKey, taken, decoded>>
      /\ task' = [task EXCEPT ![s] = "skipped"]
  BY DEF SkipGroup
<1>. USE DEF page, active, relay
<1>2. /\ task' \in [Stream -> TaskState] /\ task'[s] = "skipped"
      /\ \A t \in Stream : t # s => task'[t] = task[t]
  BY <1>1, TaskMoves DEF TaskState
<1>3. TypeOK'
  <2>1. \A t \in Stream : task'[t] \in {"flush", "read"} => session'
    BY <1>1, <1>2 DEF TypeOK
  <2>. QED BY <1>1, <1>2, <2>1 DEF TypeOK, TaskState
<1>4. ReadInv'
  BY <1>1, <1>2 DEF ReadInv
<1>5. \A t \in Stream : /\ Active(t)' => Active(t)
                        /\ Feeding(t)' => Feeding(t)
  BY <1>1, <1>2 DEF Active, Feeding
<1>6. \A t \in Stream : taken[t] <= taken'[t] /\ taken'[t] \in Nat
  BY <1>1, Types
<1>. QED BY <1>1, <1>3, <1>4, <1>5, <1>6, NothingDecoded

\* The new group is newer than all that was decoded; the one before is aborted.
LEMMA TakeGroupKeeps == ASSUME NEW s \in Stream, SubscriberInv, TakeGroup(s) PROVE SubscriberInv'
<1>. USE DEF SubscriberInv
<1>1. /\ UNCHANGED <<page, relay, decoder, taken, decoded>>
      /\ activeGroupId' = Group[s] /\ activeAbort' = s /\ Group[s] > activeGroupId
      /\ task[s] = "none" /\ session
      /\ aborted' = IF activeAbort = None THEN aborted ELSE aborted \cup {activeAbort}
  <2>1. activeGroupId \in Int /\ Group[s] \in Int
    BY Types
  <2>2. receiving => session
    BY DEF TypeOK
  <2>. QED BY <2>1, <2>2 DEF TakeGroup, Waiting, NotNewer
<1>. USE DEF page, relay
<1>2. PICK label \in {"flush", "read"} :
          /\ task' = [task EXCEPT ![s] = label]
          /\ label = "flush" => decoder = "configured" /\ needKey' = TRUE
          /\ label = "read" => decoder # "configured" /\ UNCHANGED needKey
  BY DEF TakeGroup, CallFlush
<1>3. /\ task' \in [Stream -> TaskState] /\ task'[s] = label
      /\ \A t \in Stream : t # s => task'[t] = task[t]
  BY <1>2, TaskMoves DEF TaskState
<1>4. aborted \subseteq aborted' /\ aborted' \subseteq Stream
  BY <1>1 DEF TypeOK
<1>5. TypeOK'
  <2>1. \A t \in Stream : task'[t] \in {"flush", "read"} => session'
    BY <1>1, <1>3 DEF TypeOK
  <2>2. activeGroupId' \in Nat /\ needKey' \in BOOLEAN
    BY <1>1, <1>2, Types DEF TypeOK
  <2>. QED BY <1>1, <1>3, <1>4, <2>1, <2>2 DEF TypeOK, TaskState
<1>6. ReadInv'
  BY <1>1, <1>3 DEF ReadInv
<1>7. \A t \in Stream : t # s => ~Active(t)'
  BY <1>1, <1>3, <1>4, SubscriberAssumption DEF Active, ActiveInv
<1>8. ActiveInv'
  BY <1>1, <1>7 DEF ActiveInv
<1>9. \A t \in Stream : ~Feeding(t)'
  BY <1>1, <1>2, <1>3, <1>7 DEF Feeding, Active
<1>10. KeyInv' /\ LastInv'
  BY <1>9 DEF KeyInv, LastInv
<1>11. DecodedInOrder'
  BY <1>1 DEF DecodedInOrder
<1>12. DecodedInv'
  <2>1. ASSUME NEW i \in 1..Len(decoded) PROVE Group[decoded[i].stream] < activeGroupId'
    <3>1. Group[decoded[i].stream] <= activeGroupId
      BY DEF DecodedInv, KnownChunk
    <3>. QED BY <3>1, <1>1, Types
  <2>2. \A i \in 1..Len(decoded) : Group[decoded[i].stream] \in Int
    BY Types
  <2>3. activeGroupId' \in Int
    BY <1>1, Types
  <2>. QED BY <2>1, <2>2, <2>3, <1>1 DEF DecodedInv, KnownChunk
<1>. QED BY <1>5, <1>6, <1>8, <1>10, <1>11, <1>12

----------------------------------------------------------------------------
(* processGroup *)

\* What a task that ends becomes.
LEMMA TaskLeaves ==
    ASSUME TypeOK, NEW s \in Stream, Leave(s)
    PROVE  /\ task' \in [Stream -> TaskState] /\ task'[s] \in {"cancelled", "done"}
           /\ \A t \in Stream : t # s => task'[t] = task[t]
<1>1. PICK label \in {"cancelled", "done"} : task' = [task EXCEPT ![s] = label]
  BY DEF Leave
<1>. QED BY <1>1, TaskMoves DEF TaskState

\* A group begins to be read, or was overtaken while the decoder was flushed.
LEMMA FlushedKeeps == ASSUME NEW s \in Stream, SubscriberInv, Flushed(s) PROVE SubscriberInv'
<1>. USE DEF SubscriberInv
<1>1. /\ UNCHANGED <<page, active, relay, decoder, needKey, taken, decoded>>
      /\ task[s] = "flush"
  BY DEF Flushed
<1>. USE DEF page, active, relay
<1>2. /\ task' \in [Stream -> TaskState]
      /\ \A t \in Stream : t # s => task'[t] = task[t]
      /\ s \in aborted => task'[s] \in {"cancelled", "done"}
      /\ s \notin aborted => task'[s] = "read"
  <2>1. CASE s \in aborted
    BY <2>1, TaskLeaves DEF Flushed
  <2>2. CASE s \notin aborted
    BY <2>2, TaskMoves DEF Flushed, TaskState
  <2>. QED BY <2>1, <2>2
<1>3. session /\ taken[s] = 0
  BY <1>1 DEF TypeOK, ReadInv
<1>4. TypeOK'
  <2>1. \A t \in Stream : task'[t] \in {"flush", "read"} => session'
    BY <1>1, <1>2, <1>3 DEF TypeOK
  <2>. QED BY <1>1, <1>2, <2>1 DEF TypeOK, TaskState
<1>5. ReadInv'
  BY <1>1, <1>2, <1>3 DEF ReadInv
<1>6. \A t \in Stream : /\ Active(t)' => Active(t)
                        /\ Feeding(t)' => Feeding(t) \/ taken'[t] = 0
  BY <1>1, <1>2, <1>3 DEF Active, Feeding
<1>7. \A t \in Stream : taken[t] <= taken'[t] /\ taken'[t] \in Nat
  BY <1>1, Types
<1>. QED BY <1>1, <1>4, <1>5, <1>6, <1>7, NothingDecoded

\* The stream ends or breaks.
LEMMA EndOfGroupKeeps == ASSUME NEW s \in Stream, SubscriberInv, EndOfGroup(s) PROVE SubscriberInv'
<1>. USE DEF SubscriberInv
<1>1. /\ UNCHANGED <<page, active, relay, decoder, needKey, taken, decoded>>
      /\ Leave(s)
  BY DEF EndOfGroup
<1>. USE DEF page, active, relay
<1>2. /\ task' \in [Stream -> TaskState] /\ task'[s] \in {"cancelled", "done"}
      /\ \A t \in Stream : t # s => task'[t] = task[t]
  BY <1>1, TaskLeaves
<1>3. TypeOK'
  <2>1. \A t \in Stream : task'[t] \in {"flush", "read"} => session'
    BY <1>1, <1>2 DEF TypeOK
  <2>. QED BY <1>1, <1>2, <2>1 DEF TypeOK, TaskState
<1>4. ReadInv'
  BY <1>1, <1>2 DEF ReadInv
<1>5. \A t \in Stream : (Active(t)' => Active(t)) /\ (Feeding(t)' => Feeding(t))
  BY <1>1, <1>2 DEF Active, Feeding
<1>6. \A t \in Stream : taken[t] <= taken'[t] /\ taken'[t] \in Nat
  BY <1>1, Types
<1>. QED BY <1>1, <1>3, <1>4, <1>5, <1>6, NothingDecoded

\* One object more is read of s.
LEMMA ObjectTaken ==
    ASSUME SubscriberInv, NEW s \in Stream, task[s] = "read", taken[s] < sent[s],
           taken' = [taken EXCEPT ![s] = @ + 1]
    PROVE  /\ taken' \in [Stream -> 0..MaxObjects]
           /\ taken'[s] = taken[s] + 1 /\ taken'[s] \in 1..MaxObjects /\ taken'[s] <= sent[s]
           /\ \A t \in Stream : t # s => taken'[t] = taken[t]
           /\ \A t \in Stream : taken[t] <= taken'[t] /\ taken'[t] \in Nat
<1>. USE DEF SubscriberInv
<1>1. taken' = [taken EXCEPT ![s] = taken[s] + 1]
  OBVIOUS
<1>2. taken \in [Stream -> 0..MaxObjects] /\ sent[s] \in 0..MaxObjects /\ taken[s] \in 0..MaxObjects
  BY DEF TypeOK
<1>3. taken[s] + 1 \in 1..MaxObjects /\ taken[s] + 1 \in 0..MaxObjects /\ taken[s] + 1 <= sent[s]
  BY <1>2, SubscriberAssumption
<1>4. /\ taken'[s] = taken[s] + 1
      /\ \A t \in Stream : t # s => taken'[t] = taken[t]
      /\ taken' \in [Stream -> 0..MaxObjects]
  BY <1>1, <1>2, <1>3
<1>5. \A t \in Stream : taken[t] <= taken'[t] /\ taken'[t] \in Nat
  BY <1>2, <1>3, <1>4, Types
<1>. QED BY <1>3, <1>4, <1>5

\* DecodedInOrder, of any sequence of chunks.
Ordered(chunks) ==
    \A j \in DOMAIN chunks :
        IF chunks[j].object = 1
          THEN \A i \in 1..(j - 1) : Group[chunks[i].stream] < Group[chunks[j].stream]
          ELSE j > 1 /\ chunks[j - 1] = [stream |-> chunks[j].stream,
                                         object |-> chunks[j].object - 1]

\* It goes on with the next object, or the first of a newer group.
LEMMA OrderedAppend ==
    ASSUME NEW d \in Seq(Chunk), NEW c \in Chunk, Ordered(d),
           c.object = 1 => \A i \in 1..Len(d) : Group[d[i].stream] < Group[c.stream],
           c.object # 1 => Len(d) > 0 /\ d[Len(d)] = [stream |-> c.stream, object |-> c.object - 1]
    PROVE  Ordered(Append(d, c))
<1>. DEFINE e == Append(d, c)
            n == Len(d)
<1>1. n \in Nat /\ DOMAIN d = 1..n
  OBVIOUS
<1>2. DOMAIN e = 1..(n + 1) /\ e[n + 1] = c /\ \A i \in 1..n : e[i] = d[i]
  OBVIOUS
<1>. HIDE DEF e, n
<1>3. ASSUME NEW j \in 1..n, e[j].object = 1, NEW i \in 1..(j - 1)
      PROVE  Group[e[i].stream] < Group[e[j].stream]
  <2>1. i \in 1..n /\ e[i] = d[i] /\ e[j] = d[j]
    BY <1>1, <1>2
  <2>. QED BY <2>1, <1>1, <1>3 DEF Ordered
<1>4. ASSUME NEW j \in 1..n, e[j].object # 1
      PROVE  j > 1 /\ e[j - 1] = [stream |-> e[j].stream, object |-> e[j].object - 1]
  <2>1. e[j] = d[j]
    BY <1>2
  <2>2. j > 1 /\ d[j - 1] = [stream |-> d[j].stream, object |-> d[j].object - 1]
    BY <2>1, <1>1, <1>4 DEF Ordered
  <2>3. j - 1 \in 1..n
    BY <2>2, <1>1
  <2>. QED BY <2>1, <2>2, <2>3, <1>2
<1>5. ASSUME c.object = 1, NEW i \in 1..n PROVE Group[e[i].stream] < Group[c.stream]
  BY <1>2, <1>5 DEF n
<1>6. ASSUME c.object # 1
      PROVE  n + 1 > 1 /\ e[n] = [stream |-> c.stream, object |-> c.object - 1]
  BY <1>1, <1>2, <1>6 DEF n
<1>7. \A j \in 1..(n + 1) : j \in 1..n \/ j = n + 1
  BY <1>1
<1>8. (n + 1) - 1 = n
  BY <1>1
<1>9. Ordered(e)
  BY <1>2, <1>3, <1>4, <1>5, <1>6, <1>7, <1>8 DEF Ordered
<1>. QED BY <1>9 DEF e

\* A chunk of the active group goes on where the last one ended, or begins the group.
LEMMA ChunkDecoded ==
    ASSUME SubscriberInv, NEW s \in Stream, Feeding(s), taken[s] < sent[s],
           taken' = [taken EXCEPT ![s] = @ + 1], ~(needKey /\ taken'[s] > 1),
           decoded' = Append(decoded, [stream |-> s, object |-> taken'[s]]),
           needKey' = FALSE, UNCHANGED <<task, active, decoder>>
    PROVE  ActiveInv' /\ KeyInv' /\ DecodedInOrder' /\ DecodedInv' /\ LastInv'
           /\ decoded' \in Seq(Chunk)
<1>. USE DEF SubscriberInv, active
<1>. DEFINE new == [stream |-> s, object |-> taken'[s]]
            n   == Len(decoded)
<1>1. /\ taken'[s] = taken[s] + 1 /\ taken'[s] \in 1..MaxObjects
      /\ \A t \in Stream : t # s => taken'[t] = taken[t]
      /\ \A t \in Stream : taken[t] <= taken'[t] /\ taken'[t] \in Nat
      /\ taken[s] \in Nat
  BY ObjectTaken, Types DEF Feeding
<1>2. new \in Chunk /\ new.stream = s /\ new.object = taken[s] + 1
  BY <1>1 DEF Chunk
<1>3. decoded \in Seq(Chunk) /\ n \in Nat
  BY Types
<1>4. /\ decoded' \in Seq(Chunk) /\ Len(decoded') = n + 1 /\ decoded'[n + 1] = new
      /\ \A i \in 1..n : decoded'[i] = decoded[i]
      /\ DOMAIN decoded' = 1..(n + 1)
  <2>. HIDE DEF new
  <2>. QED BY <1>2, <1>3 DEF new
<1>5. Active(s) /\ activeAbort = s /\ activeGroupId = Group[s]
  BY DEF Feeding, Active, ActiveInv
<1>6. \A t \in Stream : Feeding(t)' => t = s
  BY <1>5 DEF Feeding, Active, ActiveInv
<1>7. ActiveInv'
  BY DEF ActiveInv, Active
<1>8. KeyInv'
  BY DEF KeyInv
<1>9. taken[s] > 0 => ~needKey /\ n > 0 /\ decoded[n] = [stream |-> s, object |-> taken[s]]
  <2>1. taken[s] > 0 => ~needKey
    BY <1>1
  <2>. QED BY <2>1 DEF LastInv
<1>10. taken[s] = 0 => \A i \in 1..n : Group[decoded[i].stream] < Group[s]
  <2>. SUFFICES ASSUME taken[s] = 0, NEW i \in 1..n PROVE Group[decoded[i].stream] < Group[s]
    OBVIOUS
  <2>1. /\ decoded[i].stream \in Stream /\ decoded[i].object \in 1..MaxObjects
        /\ Group[decoded[i].stream] \in Nat /\ Group[s] \in Nat
    <3>1. decoded[i] \in Chunk
      BY <1>3
    <3>. QED BY <3>1, Types DEF Chunk
  <2>2. Group[decoded[i].stream] # Group[s]
    <3>. SUFFICES ASSUME Group[decoded[i].stream] = Group[s] PROVE FALSE
      OBVIOUS
    <3>1. decoded[i].stream = s /\ decoded[i].object <= taken[s]
      BY <1>5 DEF DecodedInv, KnownChunk
    <3>. QED BY <3>1, <2>1
  <2>3. Group[decoded[i].stream] <= Group[s]
    BY <1>5 DEF DecodedInv, KnownChunk
  <2>. QED BY <2>1, <2>2, <2>3
<1>11. DecodedInOrder'
  <2>1. Ordered(decoded) /\ \A i \in 1..Len(decoded) : decoded[i].stream \in Stream
    BY Types DEF DecodedInOrder, Ordered
  <2>2. /\ new.object = 1 => \A i \in 1..Len(decoded) : Group[decoded[i].stream] < Group[s]
        /\ new.object # 1 => /\ Len(decoded) > 0
                             /\ decoded[Len(decoded)] = [stream |-> s, object |-> new.object - 1]
    <3>1. CASE taken[s] = 0
      BY <3>1, <1>2, <1>10
    <3>2. CASE taken[s] > 0
      <4>1. new.object # 1 /\ new.object - 1 = taken[s]
        BY <3>2, <1>1, <1>2
      <4>. QED BY <4>1, <3>2, <1>9
    <3>. QED BY <3>1, <3>2, <1>1
  <2>. HIDE DEF new
  <2>3. Ordered(Append(decoded, new))
    BY <2>1, <2>2, <1>2, <1>3, OrderedAppend
  <2>. QED BY <2>3 DEF DecodedInOrder, Ordered, new
<1>12. DecodedInv'
  <2>1. \A i \in 1..n : decoded[i].stream \in Stream /\ decoded[i].object \in Nat
    BY Types
  <2>2. taken'[s] \in Nat /\ Group[s] \in Nat
    BY <1>1, Types
  <2>. HIDE DEF new, n
  <2>. DEFINE chunks == decoded'
              Known(i) ==
                  /\ Group[chunks[i].stream] <= activeGroupId
                  /\ Group[chunks[i].stream] = activeGroupId =>
                         /\ chunks[i].stream = activeAbort
                         /\ chunks[i].object <= taken'[chunks[i].stream]
  <2>. HIDE DEF chunks
  <2>3. ASSUME NEW i \in 1..n PROVE Known(i)
    <3>1. chunks[i] = decoded[i] /\ KnownChunk(i)
      BY <1>4 DEF DecodedInv, n, chunks
    <3>2. /\ taken[decoded[i].stream] <= taken'[decoded[i].stream]
          /\ taken[decoded[i].stream] \in Nat /\ taken'[decoded[i].stream] \in Nat
      BY <2>1, <1>1, Types
    <3>3. Group[decoded[i].stream] = activeGroupId =>
              decoded[i].object <= taken'[decoded[i].stream]
      BY <3>1, <3>2, <2>1 DEF KnownChunk
    <3>. QED BY <3>1, <3>3 DEF KnownChunk
  <2>4. Known(n + 1)
    <3>1. chunks[n + 1].stream = s /\ chunks[n + 1].object = taken'[s]
      BY <1>4 DEF new, chunks
    <3>2. Group[s] <= activeGroupId /\ taken'[s] <= taken'[s]
      BY <2>2, <1>5
    <3>. QED BY <3>1, <3>2, <1>5, Zenon
  <2>5. \A i \in 1..(n + 1) : Known(i)
    <3>. HIDE DEF Known
    <3>1. \A i \in 1..(n + 1) : i \in 1..n \/ i = n + 1
      BY <1>3 DEF n
    <3>. QED BY <2>3, <2>4, <3>1
  <2>. QED BY <2>5, <1>4 DEF DecodedInv, KnownChunk, chunks
<1>13. LastInv'
  <2>. SUFFICES ASSUME NEW t \in Stream, Feeding(t)'
                PROVE  /\ Len(decoded') > 0
                       /\ decoded'[Len(decoded')] = [stream |-> t, object |-> taken'[t]]
    BY DEF LastInv
  <2>1. t = s
    BY <1>6
  <2>. QED BY <2>1, <1>3, <1>4
<1>. QED BY <1>4, <1>7, <1>8, <1>11, <1>12, <1>13

\* An object arrives: for a group that was overtaken, a decoder that is closed, one that
\* refuses it, or one that takes it.
LEMMA ReadObjectKeeps == ASSUME NEW s \in Stream, SubscriberInv, ReadObject(s) PROVE SubscriberInv'
<1>. USE DEF SubscriberInv
<1>1. /\ task[s] = "read" /\ taken[s] < sent[s] /\ taken' = [taken EXCEPT ![s] = @ + 1]
      /\ UNCHANGED <<page, active, relay, decoder>>
  BY DEF ReadObject
<1>. USE DEF page, active, relay
<1>2. /\ taken' \in [Stream -> 0..MaxObjects]
      /\ taken'[s] = taken[s] + 1 /\ taken'[s] \in 1..MaxObjects /\ taken'[s] <= sent[s]
      /\ \A t \in Stream : t # s => taken'[t] = taken[t]
      /\ \A t \in Stream : taken[t] <= taken'[t] /\ taken'[t] \in Nat
  BY <1>1, ObjectTaken
<1>3. CASE /\ task' \in [Stream -> TaskState] /\ task'[s] \notin {"none", "flush", "read"}
           /\ \A t \in Stream : t # s => task'[t] = task[t]
           /\ UNCHANGED <<needKey, decoded>>
  <2>1. TypeOK'
    <3>1. \A t \in Stream : task'[t] \in {"flush", "read"} => session'
      BY <1>1, <1>3 DEF TypeOK
    <3>. QED BY <1>1, <1>2, <1>3, <3>1 DEF TypeOK, TaskState
  <2>2. ReadInv'
    BY <1>1, <1>2, <1>3 DEF ReadInv
  <2>3. \A t \in Stream : /\ Active(t)' => Active(t)
                          /\ Feeding(t)' => Feeding(t) /\ t # s
    BY <1>1, <1>3 DEF Active, Feeding
  <2>. QED BY <2>1, <2>2, <2>3, <1>1, <1>2, <1>3, NothingDecoded
<1>4. CASE s \in aborted /\ Leave(s) /\ UNCHANGED <<needKey, decoded>>
  BY <1>3, <1>4, TaskLeaves
<1>5. CASE s \notin aborted /\ decoder # "configured" /\ UNCHANGED <<task, needKey, decoded>>
  <2>1. TypeOK'
    BY <1>1, <1>2, <1>5 DEF TypeOK
  <2>2. ReadInv'
    BY <1>1, <1>2, <1>5 DEF ReadInv
  <2>3. \A t \in Stream : /\ Active(t)' => Active(t)
                          /\ ~Feeding(t)'
    BY <1>1, <1>5 DEF Active, Feeding
  <2>. QED BY <2>1, <2>2, <2>3, <1>1, <1>2, <1>5, NothingDecoded
<1>6. CASE s \notin aborted /\ decoder = "configured" /\ Decode(s)
  <2>1. CASE needKey /\ taken'[s] > 1
    <3>1. task' = [task EXCEPT ![s] = "rejected"] /\ UNCHANGED <<needKey, decoded>>
      BY <2>1, <1>6 DEF Decode
    <3>. QED BY <3>1, <1>3, TaskMoves DEF TaskState
  <2>2. CASE ~(needKey /\ taken'[s] > 1)
    <3>1. /\ needKey' = FALSE /\ UNCHANGED task
          /\ decoded' = Append(decoded, [stream |-> s, object |-> taken'[s]])
      BY <2>2, <1>6 DEF Decode
    <3>2. Feeding(s)
      BY <1>1, <1>6 DEF Feeding
    <3>3. /\ ActiveInv' /\ KeyInv' /\ DecodedInOrder' /\ DecodedInv' /\ LastInv'
          /\ decoded' \in Seq(Chunk)
      BY <3>1, <3>2, <2>2, <1>1, ChunkDecoded
    <3>4. TypeOK'
      BY <3>1, <3>3, <1>1, <1>2 DEF TypeOK, Chunk
    <3>5. ReadInv'
      BY <3>1, <1>1, <1>2 DEF ReadInv
    <3>. QED BY <3>3, <3>4, <3>5
  <2>. QED BY <2>1, <2>2
<1>. QED BY <1>4, <1>5, <1>6 DEF ReadObject

----------------------------------------------------------------------------
(* stop *)

\* The decoder is flushed while groups may be read.
LEMMA PressStopKeeps == SubscriberInv /\ PressStop => SubscriberInv'
<1>. SUFFICES ASSUME SubscriberInv, PressStop PROVE SubscriberInv'
  OBVIOUS
<1>. USE DEF SubscriberInv, PressStop, CallFlush, active, relay
<1>1. TypeOK' /\ ReadInv'
  BY DEF TypeOK, ReadInv
<1>2. ActiveInv' /\ KeyInv' /\ LastInv'
  BY DEF ActiveInv, Active, KeyInv, LastInv, Feeding
<1>3. DecodedInOrder' /\ DecodedInv'
  BY DEF DecodedInOrder, DecodedInv, KnownChunk
<1>. QED BY <1>1, <1>2, <1>3

\* No task is left.
LEMMA StopEndsKeeps == SubscriberInv /\ StopEnds => SubscriberInv'
<1>. SUFFICES ASSUME SubscriberInv, StopEnds PROVE SubscriberInv'
  OBVIOUS
<1>. USE DEF SubscriberInv, active
<1>1. /\ stopping' = FALSE /\ session' = FALSE /\ decoder' = "none" /\ needKey' = TRUE
      /\ connected' = FALSE /\ receiving' = FALSE
      /\ decoded' = << >> /\ UNCHANGED <<starts, sent, taken, active>>
  BY DEF StopEnds
<1>2. \A s \in Stream : /\ task'[s] \in TaskState \ {"flush", "read"}
                        /\ task'[s] = "none" => task[s] = "none"
  BY DEF StopEnds, TypeOK, TaskState
<1>3. task' \in [Stream -> TaskState] /\ src' \in [Stream -> SourceState]
  <2>1. task' \in [Stream -> TaskState]
    BY <1>2 DEF StopEnds
  <2>2. src' \in [Stream -> SourceState]
    BY DEF StopEnds, TypeOK, SourceState
  <2>. QED BY <2>1, <2>2
<1>4. TypeOK'
  <2>1. decoded' \in Seq([stream : Stream, object : 1..MaxObjects])
    BY <1>1
  <2>2. /\ session' <=> decoder' # "none"
        /\ \A s \in Stream : task'[s] \in {"flush", "read"} => session'
    BY <1>1, <1>2
  <2>3. /\ starts' \in 0..MaxStarts /\ activeGroupId' \in Nat \cup {-1}
        /\ activeAbort' \in Stream \cup {None} /\ aborted' \subseteq Stream
        /\ sent' \in [Stream -> 0..MaxObjects] /\ taken' \in [Stream -> 0..MaxObjects]
    BY <1>1 DEF TypeOK
  <2>. QED BY <2>1, <2>2, <2>3, <1>1, <1>3 DEF TypeOK, TaskState, SourceState
<1>5. ReadInv'
  BY <1>1, <1>2 DEF ReadInv
<1>6. ActiveInv' /\ KeyInv' /\ LastInv'
  BY <1>1, <1>2 DEF ActiveInv, Active, KeyInv, LastInv, Feeding
<1>7. DecodedInOrder' /\ DecodedInv'
  BY <1>1 DEF DecodedInOrder, DecodedInv, KnownChunk
<1>. QED BY <1>4, <1>5, <1>6, <1>7

----------------------------------------------------------------------------
(* The theorems *)

\* Each step keeps the invariant.
LEMMA SubscriberKeeps == SubscriberInv /\ [Next]_vars => SubscriberInv'
<1>. SUFFICES ASSUME SubscriberInv, [Next]_vars PROVE SubscriberInv'
  OBVIOUS
<1>1. CASE \E s \in Stream : SkipGroup(s) \/ TakeGroup(s)
  <2>1. PICK s \in Stream : SkipGroup(s) \/ TakeGroup(s)
    BY <1>1
  <2>. QED BY <2>1, SkipGroupKeeps, TakeGroupKeeps
<1>2. CASE \E s \in Stream : Relay(s) \/ ProcessGroup(s)
  <2>1. PICK s \in Stream : Relay(s) \/ ProcessGroup(s)
    BY <1>2
  <2>. QED BY <2>1, RelayKeeps, FlushedKeeps, ReadObjectKeeps, EndOfGroupKeeps DEF ProcessGroup
<1>3. CASE UNCHANGED vars
  BY <1>3 DEF vars, SubscriberInv, TypeOK, ReadInv, ActiveInv, Active, KeyInv, Feeding,
              DecodedInOrder, DecodedInv, KnownChunk, LastInv
<1>. QED BY <1>1, <1>2, <1>3, StartKeeps, PressStopKeeps, StopEndsKeeps, DecoderFailsKeeps,
            LossKeeps DEF Next, ReceiveLoop

\* All of this at any time: what the tasks, the page and the decoder know fits together.
THEOREM SubscriberSound == Spec => []SubscriberInv
BY SubscriberStarts, SubscriberKeeps, PTL DEF Spec

\* Every variable of the page, its tasks and its streams keeps its type.
THEOREM TypesCorrect == Spec => []TypeOK
<1>1. SubscriberInv => TypeOK
  BY DEF SubscriberInv
<1>. QED BY <1>1, SubscriberSound, PTL

\* The decoder gets the groups one after the other, newer ones only, and of each
\* all objects from the first to the last it gets.
THEOREM InOrder == Spec => []DecodedInOrder
<1>1. SubscriberInv => DecodedInOrder
  BY DEF SubscriberInv
<1>. QED BY <1>1, SubscriberSound, PTL

\* A frame is refused for want of a keyframe only while stop flushes the decoder.
THEOREM RefusedByStop == Spec => RefusesOnlyWhenStopping
<1>. DEFINE Refused(s) == task[s] # "rejected" /\ task'[s] = "rejected"
            A == \A s \in Stream : Refused(s) => stopping
<1>1. SubscriberInv /\ [Next]_vars => A
  <2>. SUFFICES ASSUME SubscriberInv, [Next]_vars, NEW s \in Stream, Refused(s) PROVE stopping
    OBVIOUS
  <2>. USE DEF SubscriberInv
  <2>1. ReadObject(s) /\ s \notin aborted /\ decoder = "configured" /\ Decode(s)
    <3>1. task \in [Stream -> TaskState]
      BY DEF TypeOK, TaskState
    <3>2. task' # task
      OBVIOUS
    <3>3. ~DecoderFails /\ ~StopEnds /\ ~ReceiveLoop /\ ~LoseConnection
      BY <3>1 DEF DecoderFails, StopEnds, ReceiveLoop, SkipGroup, TakeGroup, ReceiveFails,
                  LoseConnection
    <3>4. PICK t \in Stream : ProcessGroup(t)
      BY <3>2, <3>3 DEF Next, Start, PressStop, Relay, Arrive, SendObject, EndStream,
                        BreakStream, vars
    <3>5. ReadObject(t) /\ t = s
      BY <3>1, <3>4 DEF ProcessGroup, Flushed, EndOfGroup, ReadObject, Leave, Decode
    <3>. QED BY <3>1, <3>5 DEF ReadObject, Leave
  <2>2. Feeding(s) /\ taken'[s] = taken[s] + 1 /\ taken[s] \in Nat
    BY <2>1, ObjectTaken, Types DEF Feeding, ReadObject
  <2>3. needKey /\ taken'[s] > 1
    BY <2>1 DEF Decode
  <2>. QED BY <2>2, <2>3 DEF KeyInv
<1>. HIDE DEF A
<1>2. Spec => [][A]_vars
  BY <1>1, SubscriberSound, PTL DEF Spec
<1>. QED BY <1>2 DEF A, RefusesOnlyWhenStopping
================================================================================
