------------------------- MODULE DataForwardProofs -------------------------
(***************************************************************************)
(* Safety of the relay's data plane for any number of groups, subscribers  *)
(* and objects, and any faults.                                            *)
(***************************************************************************)
EXTENDS DataForwardProperties, TLAPS

----------------------------------------------------------------------------
(* The inductive invariant *)

\* Where a task stands bounds what it has read and whom it writes to.
ProgressInv ==
    \A g \in Group :
        /\ pc[g] # "none" => src[g] # "none"
        /\ pc[g] \in {"none", "lookup", "drain"} => writers[g] = {}
        /\ pc[g] \in {"none", "lookup", "open"} => read[g] = 0
        /\ pc[g] = "write" => read[g] # 0
        /\ read[g] <= written[g]
        /\ src[g] = "none" => written[g] = 0

TaskInv == TypeOK /\ ProgressInv

\* The objects of a group from the first on, without a gap.
Prefix(objs) == objs = [i \in 1..Len(objs) |-> i]

\* One copy: it is a prefix of what the task has read; a writer's is all of it,
\* the next writer's lacks the last object; a copy that is still to be opened
\* is not there; a finished one is complete or its source broke.
FaithfulCopy(g, s) ==
    LET c == copy[g][s]
    IN  /\ Prefix(c.objs)
        /\ Len(c.objs) <= read[g]
        /\ s \in writers[g] => Len(c.objs) = read[g]
        /\ pc[g] = "write" /\ s \in todo[g] => Len(c.objs) = read[g] - 1
        /\ pc[g] \in {"none", "lookup"} \/ (pc[g] = "open" /\ s \in todo[g]) => c.st = "none"
        /\ c.st = "fin" => src[g] = "cut" \/ (src[g] = "fin" /\ Len(c.objs) = written[g])

CopyInv == \A g \in Group, s \in Subscriber : FaithfulCopy(g, s)

ForwardInv == TaskInv /\ CopyInv

----------------------------------------------------------------------------
(* Types and progress *)

LEMMA TaskInit == Init => TaskInv
BY BoundAssumption DEF Init, TaskInv, TypeOK, ProgressInv, NoCopy

\* A change of what the task holds for one subscriber, or of the states of
\* copies, keeps the type of the copies.
CopyType == [Group -> [Subscriber -> [st : {"none", "open", "fin", "stopped"},
                                      objs : Seq(1..MaxObjects)]]]

LEMMA FinType ==
    ASSUME copy \in CopyType, NEW g \in Group, NEW fins, copy' = WithFin(g, fins)
    PROVE  copy' \in CopyType
BY DEF CopyType, WithFin

LEMMA StateType ==
    ASSUME copy \in CopyType, NEW g \in Group, NEW s \in Subscriber,
           NEW st \in {"none", "open", "fin", "stopped"}, copy' = [copy EXCEPT ![g][s].st = st]
    PROVE  copy' \in CopyType
<1>1. copy[g][s] \in [st : {"none", "open", "fin", "stopped"}, objs : Seq(1..MaxObjects)]
  BY DEF CopyType
<1>2. [copy[g][s] EXCEPT !.st = st]
        \in [st : {"none", "open", "fin", "stopped"}, objs : Seq(1..MaxObjects)]
  BY <1>1
<1> QED BY <1>2 DEF CopyType

LEMMA ObjectType ==
    ASSUME copy \in CopyType, NEW g \in Group, NEW s \in Subscriber, NEW n \in 1..MaxObjects,
           copy' = [copy EXCEPT ![g][s].objs = Append(@, n)]
    PROVE  copy' \in CopyType
<1>1. copy[g][s] \in [st : {"none", "open", "fin", "stopped"}, objs : Seq(1..MaxObjects)]
  BY DEF CopyType
<1>2. Append(copy[g][s].objs, n) \in Seq(1..MaxObjects)
  BY <1>1
<1> QED BY <1>1, <1>2 DEF CopyType

LEMMA TaskControl ==
    ASSUME TaskInv, Control
    PROVE  TaskInv'
<1> USE DEF TaskInv, TypeOK, ProgressInv, sources, tasks
<1>1. CASE PublisherAccepts
  BY <1>1 DEF PublisherAccepts
<1>2. CASE RecordSubscription
  BY <1>2, SubscriberAssumption DEF RecordSubscription
<1>3. CASE LosePublisher
  BY <1>3 DEF LosePublisher, UnderWay
<1>4. CASE RemovePublisher
  BY <1>4 DEF RemovePublisher
<1>5. ASSUME NEW s \in Subscriber, Aggregate(s) \/ RemoveSubscriber(s)
      PROVE  TaskInv'
  BY <1>5 DEF Aggregate, RemoveSubscriber
<1>6. ASSUME NEW s \in Subscriber, LoseLink(s)
      PROVE  TaskInv'
  BY <1>6 DEF LoseLink
<1> QED BY <1>1, <1>2, <1>3, <1>4, <1>5, <1>6 DEF Control

LEMMA TaskStream ==
    ASSUME TaskInv, NEW g \in Group, PublisherStream(g)
    PROVE  TaskInv'
<1> USE BoundAssumption DEF TaskInv, TypeOK, ProgressInv, peers, tasks
<1>1. CASE OpenSubgroup(g)
  BY <1>1 DEF OpenSubgroup
<1>2. CASE WriteObject(g)
  BY <1>2 DEF WriteObject
<1>3. CASE FinishSubgroup(g) \/ ResetSubgroup(g)
  BY <1>3 DEF FinishSubgroup, ResetSubgroup
<1> QED BY <1>1, <1>2, <1>3 DEF PublisherStream

LEMMA TaskHandle ==
    ASSUME TaskInv, NEW g \in Group, HandleDataStream(g)
    PROVE  TaskInv'
<1> USE BoundAssumption DEF TaskInv, TypeOK, ProgressInv, peers, sources
<1>1. CASE Receive(g)
  BY <1>1 DEF Receive
<1>2. CASE LookUp(g)
  BY <1>2 DEF LookUp
<1>3. CASE ReadObject(g)
  BY <1>3 DEF ReadObject
<1>4. CASE EndOfStream(g) \/ ReadFails(g)
  <2>1. copy' \in CopyType
    BY <1>4, FinType DEF EndOfStream, ReadFails, CopyType
  <2> QED BY <1>4, <2>1 DEF EndOfStream, ReadFails, CopyType
<1>5. CASE Drain(g)
  <2>1. CASE read[g] < written[g] /\ read' = [read EXCEPT ![g] = @ + 1] /\ UNCHANGED pc
    BY <1>5, <2>1 DEF Drain
  <2>2. CASE pc' = [pc EXCEPT ![g] = "done"] /\ UNCHANGED read
    BY <1>5, <2>2 DEF Drain
  <2> QED BY <1>5, <2>1, <2>2 DEF Drain
<1>6. ASSUME NEW s \in Subscriber, OpenCopy(g, s)
      PROVE  TaskInv'
  <2>1. copy' \in CopyType
    BY <1>6, StateType DEF OpenCopy, CopyType
  <2>2. /\ todo' = [todo EXCEPT ![g] = @ \ {s}]
        /\ pc' = [pc EXCEPT ![g] = IF todo[g] = {s} THEN "read" ELSE "open"]
        /\ pc[g] = "open" /\ UNCHANGED <<read, src, written, upstream, members, link, pub>>
    BY <1>6 DEF OpenCopy
  <2>3. writers' \in {writers, [writers EXCEPT ![g] = @ \cup {s}]}
    BY <1>6 DEF OpenCopy
  <2>4. todo[g] = {s} => todo'[g] = {}
    BY <2>2
  <2>5. TypeOK'
    <3>1. /\ todo' \in [Group -> SUBSET Subscriber] /\ writers' \in [Group -> SUBSET Subscriber]
          /\ pc' \in [Group -> {"none", "lookup", "open", "read", "write", "drain", "done"}]
      <4>1. todo' \in [Group -> SUBSET Subscriber]
        BY <2>2
      <4>2. pc' \in [Group -> {"none", "lookup", "open", "read", "write", "drain", "done"}]
        BY <2>2
      <4>3. writers' \in [Group -> SUBSET Subscriber]
        <5>1. CASE writers' = writers
          BY <5>1
        <5>2. CASE writers' = [writers EXCEPT ![g] = @ \cup {s}]
          BY <5>2
        <5> QED BY <5>1, <5>2, <2>3
      <4> QED BY <4>1, <4>2, <4>3
    <3>2. ASSUME NEW h \in Group
          PROVE  /\ todo'[h] # {} => pc'[h] \in {"open", "write"}
                 /\ todo'[h] \cap writers'[h] = {}
      <4>1. CASE h = g
        <5>1. todo'[g] = todo[g] \ {s}
          BY <2>2
        <5>2. writers'[g] = writers[g] \/ writers'[g] = writers[g] \cup {s}
          BY <2>3
        <5>3. todo[g] \cap writers[g] = {}
          OBVIOUS
        <5>4. todo'[g] # {} => pc'[g] = "open"
          BY <2>2, <2>4
        <5> QED BY <4>1, <5>1, <5>2, <5>3, <5>4
      <4>2. CASE h # g
        BY <2>2, <2>3, <4>2
      <4> QED BY <4>1, <4>2
    <3> QED BY <2>1, <2>2, <3>1, <3>2 DEF CopyType
  <2>6. ProgressInv'
    BY <2>2, <2>3
  <2> QED BY <2>5, <2>6
<1>7. ASSUME NEW s \in Subscriber, ForwardObject(g, s)
      PROVE  TaskInv'
  <2>1. read[g] \in 1..MaxObjects
    BY <1>7 DEF ForwardObject
  <2>2. copy' \in CopyType
    BY <1>7, <2>1, ObjectType DEF ForwardObject, CopyType
  <2>3. /\ todo' = [todo EXCEPT ![g] = @ \ {s}]
        /\ pc' = [pc EXCEPT ![g] = IF todo[g] = {s} THEN "read" ELSE "write"]
        /\ pc[g] = "write" /\ UNCHANGED <<read, src, written, upstream, members, link, pub>>
    BY <1>7 DEF ForwardObject
  <2>4. writers' \in {writers, [writers EXCEPT ![g] = @ \cup {s}]}
    BY <1>7 DEF ForwardObject
  <2>5. todo[g] = {s} => todo'[g] = {}
    BY <2>3
  <2>6. TypeOK'
    <3>1. /\ todo' \in [Group -> SUBSET Subscriber] /\ writers' \in [Group -> SUBSET Subscriber]
          /\ pc' \in [Group -> {"none", "lookup", "open", "read", "write", "drain", "done"}]
      <4>1. todo' \in [Group -> SUBSET Subscriber]
        BY <2>3
      <4>2. pc' \in [Group -> {"none", "lookup", "open", "read", "write", "drain", "done"}]
        BY <2>3
      <4>3. writers' \in [Group -> SUBSET Subscriber]
        <5>1. CASE writers' = writers
          BY <5>1
        <5>2. CASE writers' = [writers EXCEPT ![g] = @ \cup {s}]
          BY <5>2
        <5> QED BY <5>1, <5>2, <2>4
      <4> QED BY <4>1, <4>2, <4>3
    <3>2. ASSUME NEW h \in Group
          PROVE  /\ todo'[h] # {} => pc'[h] \in {"open", "write"}
                 /\ todo'[h] \cap writers'[h] = {}
      <4>1. CASE h = g
        <5>1. todo'[g] = todo[g] \ {s}
          BY <2>3
        <5>2. writers'[g] = writers[g] \/ writers'[g] = writers[g] \cup {s}
          BY <2>4
        <5>3. todo[g] \cap writers[g] = {}
          OBVIOUS
        <5>4. todo'[g] # {} => pc'[g] = "write"
          BY <2>3, <2>5
        <5> QED BY <4>1, <5>1, <5>2, <5>3, <5>4
      <4>2. CASE h # g
        BY <2>3, <2>4, <4>2
      <4> QED BY <4>1, <4>2
    <3> QED BY <2>2, <2>3, <3>1, <3>2 DEF CopyType
  <2>7. ProgressInv'
    BY <2>3, <2>4
  <2> QED BY <2>6, <2>7
<1> QED BY <1>1, <1>2, <1>3, <1>4, <1>5, <1>6, <1>7 DEF HandleDataStream

LEMMA TaskStep == TaskInv /\ [Next]_vars => TaskInv'
<1> SUFFICES ASSUME TaskInv, [Next]_vars PROVE TaskInv'
  OBVIOUS
<1>1. ASSUME NEW g \in Group, NEW s \in Subscriber, CancelCopy(g, s)
      PROVE  TaskInv'
  <2>1. copy' \in CopyType
    BY <1>1, StateType DEF CancelCopy, CopyType, TaskInv, TypeOK
  <2> QED BY <1>1, <2>1 DEF CancelCopy, CopyType, TaskInv, TypeOK, ProgressInv, peers, sources, tasks
<1>2. CASE UNCHANGED vars
  BY <1>2 DEF vars, TaskInv, TypeOK, ProgressInv
<1> QED BY <1>1, <1>2, TaskControl, TaskStream, TaskHandle DEF Next

\* Every variable keeps its type, and only a task that opens or writes has
\* subscribers to do.
THEOREM TypeCorrect == Spec => []TypeOK
<1>1. TaskInv => TypeOK
  BY DEF TaskInv
<1> QED BY <1>1, TaskInit, TaskStep, PTL DEF Spec

----------------------------------------------------------------------------
(* The copies *)

LEMMA PrefixAppend ==
    ASSUME NEW objs \in Seq(1..MaxObjects), Prefix(objs), NEW n, n = Len(objs) + 1
    PROVE  Prefix(Append(objs, n))
BY DEF Prefix

LEMMA CopyInit == Init => CopyInv
BY DEF Init, CopyInv, FaithfulCopy, Prefix, NoCopy

\* A stream that ended stays as it is, or what is left of it is lost.
EndKept(g) ==
    src[g] \in {"fin", "cut"} => src'[g] \in {src[g], "cut"} /\ written'[g] = written[g]

\* What the publisher and the control plane do leaves every copy and every task
\* alone, and nothing is added to a stream that ended.
LEMMA CopyKept ==
    ASSUME TaskInv, CopyInv, UNCHANGED tasks, UNCHANGED copy, \A g \in Group : EndKept(g)
    PROVE  CopyInv'
BY DEF CopyInv, FaithfulCopy, EndKept, tasks, TaskInv, TypeOK

LEMMA CopyControl ==
    ASSUME TaskInv, CopyInv, Control \/ \E g \in Group : PublisherStream(g)
    PROVE  CopyInv'
<1>1. UNCHANGED tasks /\ UNCHANGED copy
  BY DEF Control, PublisherStream, PublisherAccepts, RecordSubscription, LosePublisher,
         RemovePublisher, Aggregate, LoseLink, RemoveSubscriber, OpenSubgroup, WriteObject,
         FinishSubgroup, ResetSubgroup
<1>2. \A g \in Group : EndKept(g)
  <2>1. CASE Control
    BY <2>1 DEF Control, PublisherAccepts, RecordSubscription, LosePublisher, RemovePublisher,
                Aggregate, LoseLink, RemoveSubscriber, UnderWay, sources, EndKept, TaskInv, TypeOK
  <2>2. ASSUME NEW g \in Group, PublisherStream(g)
        PROVE  \A h \in Group : EndKept(h)
    BY <2>2 DEF PublisherStream, OpenSubgroup, WriteObject, FinishSubgroup, ResetSubgroup,
                EndKept, TaskInv, TypeOK
  <2> QED BY <2>1, <2>2
<1> QED BY <1>1, <1>2, CopyKept

\* A finishing task leaves prefixes alone, and finishes only copies that hold
\* all there was to read.
LEMMA CopyFin ==
    ASSUME TaskInv, CopyInv, NEW g \in Group, EndOfStream(g) \/ ReadFails(g)
    PROVE  CopyInv'
<1>1. /\ pc[g] = "read" /\ copy' = WithFin(g, writers[g])
      /\ src[g] = "cut" \/ (src[g] = "fin" /\ read[g] = written[g])
      /\ pc' = [pc EXCEPT ![g] = "done"]
      /\ UNCHANGED <<read, todo, writers, src, written>>
  BY DEF EndOfStream, ReadFails, AtEnd, sources
<1> SUFFICES ASSUME NEW h \in Group, NEW s \in Subscriber
             PROVE  FaithfulCopy(h, s)'
  BY DEF CopyInv
<1>2. copy \in CopyType
  BY DEF TaskInv, TypeOK, CopyType
<1>3. copy'[h][s].objs = copy[h][s].objs
  BY <1>1, <1>2 DEF WithFin, CopyType
<1>4. copy'[h][s].st \in {copy[h][s].st, "fin"}
  BY <1>1, <1>2 DEF WithFin, CopyType
<1>5. copy'[h][s].st = copy[h][s].st \/ (h = g /\ s \in writers[g])
  BY <1>1, <1>2 DEF WithFin, CopyType
<1>6. pc'[h] = pc[h] \/ (h = g /\ pc'[h] = "done")
  BY <1>1 DEF TaskInv, TypeOK
<1>7. FaithfulCopy(h, s)
  BY DEF CopyInv
<1> QED BY <1>1, <1>3, <1>4, <1>5, <1>6, <1>7 DEF FaithfulCopy

LEMMA CopyForward ==
    ASSUME TaskInv, CopyInv, NEW g \in Group, NEW q \in Subscriber, ForwardObject(g, q)
    PROVE  CopyInv'
<1>1. /\ pc[g] = "write" /\ q \in todo[g] /\ UNCHANGED <<read, src, written>>
      /\ todo' = [todo EXCEPT ![g] = @ \ {q}]
      /\ pc' = [pc EXCEPT ![g] = IF todo[g] = {q} THEN "read" ELSE "write"]
  BY DEF ForwardObject, sources
<1>2. \/ /\ copy[g][q].st = "open"
         /\ copy' = [copy EXCEPT ![g][q].objs = Append(@, read[g])]
         /\ writers' = [writers EXCEPT ![g] = @ \cup {q}]
      \/ UNCHANGED <<copy, writers>>
  BY DEF ForwardObject, Writable
<1> SUFFICES ASSUME NEW h \in Group, NEW s \in Subscriber
             PROVE  FaithfulCopy(h, s)'
  BY DEF CopyInv
<1>3. FaithfulCopy(h, s) /\ FaithfulCopy(g, q)
  BY DEF CopyInv
<1>4. copy \in CopyType
  BY DEF TaskInv, TypeOK, CopyType
<1>5. /\ s \in todo'[h] => s \in todo[h]
      /\ pc'[h] = pc[h] \/ (h = g /\ pc'[h] \in {"read", "write"})
      /\ h = g /\ s = q => s \notin todo'[h]
  BY <1>1 DEF TaskInv, TypeOK
<1>6. CASE UNCHANGED <<copy, writers>>
  BY <1>1, <1>3, <1>5, <1>6 DEF FaithfulCopy
<1>7. CASE /\ copy[g][q].st = "open"
           /\ copy' = [copy EXCEPT ![g][q].objs = Append(@, read[g])]
           /\ writers' = [writers EXCEPT ![g] = @ \cup {q}]
  <2>1. CASE h = g /\ s = q
    <3>1. copy[g][q].objs \in Seq(1..MaxObjects) /\ read[g] \in Nat
      BY <1>4 DEF CopyType, TaskInv, TypeOK
    <3>2. /\ copy'[g][q].st = copy[g][q].st
          /\ copy'[g][q].objs = Append(copy[g][q].objs, read[g])
      BY <1>4, <1>7 DEF CopyType
    <3>3. Len(copy[g][q].objs) = read[g] - 1 /\ Prefix(copy[g][q].objs)
      BY <1>1, <1>3 DEF FaithfulCopy
    <3>4. Prefix(copy'[g][q].objs) /\ Len(copy'[g][q].objs) = read[g]
      BY <3>1, <3>2, <3>3, PrefixAppend
    <3> QED BY <1>1, <1>7, <1>3, <1>5, <2>1, <3>2, <3>4 DEF FaithfulCopy
  <2>2. CASE ~(h = g /\ s = q)
    <3>1. copy'[h][s] = copy[h][s] /\ (s \in writers'[h] => s \in writers[h])
      BY <1>4, <1>7, <2>2 DEF CopyType, TaskInv, TypeOK
    <3> QED BY <1>1, <1>3, <1>5, <3>1 DEF FaithfulCopy
  <2> QED BY <2>1, <2>2
<1> QED BY <1>2, <1>6, <1>7

\* The steps of a task that leave all copies alone.
LEMMA CopyRead ==
    ASSUME TaskInv, CopyInv, NEW g \in Group,
           Receive(g) \/ LookUp(g) \/ ReadObject(g) \/ Drain(g)
    PROVE  CopyInv'
<1> SUFFICES ASSUME NEW h \in Group, NEW s \in Subscriber
             PROVE  FaithfulCopy(h, s)'
  BY DEF CopyInv
<1>1. FaithfulCopy(h, s) /\ UNCHANGED <<copy, src, written>>
  BY DEF CopyInv, Receive, LookUp, ReadObject, Drain, sources
<1>2. Len(copy[h][s].objs) \in Nat
  BY DEF TaskInv, TypeOK
<1> USE DEF TaskInv, TypeOK, ProgressInv
<1>3. CASE Receive(g) \/ LookUp(g)
  BY <1>1, <1>2, <1>3 DEF Receive, LookUp, FaithfulCopy
<1>4. CASE ReadObject(g)
  <2>1. CASE h = g
    BY <1>1, <1>2, <1>4, <2>1 DEF ReadObject, FaithfulCopy
  <2>2. CASE h # g
    BY <1>1, <1>4, <2>2 DEF ReadObject, FaithfulCopy
  <2> QED BY <2>1, <2>2
<1>5. CASE Drain(g)
  BY <1>1, <1>2, <1>5 DEF Drain, FaithfulCopy
<1> QED BY <1>3, <1>4, <1>5

\* A copy that is opened was not there before.
LEMMA CopyOpen ==
    ASSUME TaskInv, CopyInv, NEW g \in Group, NEW q \in Subscriber, OpenCopy(g, q)
    PROVE  CopyInv'
<1>1. /\ pc[g] = "open" /\ q \in todo[g] /\ UNCHANGED <<read, src, written>>
      /\ todo' = [todo EXCEPT ![g] = @ \ {q}]
      /\ pc' = [pc EXCEPT ![g] = IF todo[g] = {q} THEN "read" ELSE "open"]
  BY DEF OpenCopy, sources
<1>2. \/ /\ writers' = [writers EXCEPT ![g] = @ \cup {q}]
         /\ copy' = [copy EXCEPT ![g][q].st = "open"]
      \/ UNCHANGED <<copy, writers>>
  BY DEF OpenCopy
<1> SUFFICES ASSUME NEW h \in Group, NEW s \in Subscriber
             PROVE  FaithfulCopy(h, s)'
  BY DEF CopyInv
<1>3. FaithfulCopy(h, s) /\ read[g] = 0
  BY <1>1 DEF CopyInv, TaskInv, ProgressInv
<1>4. copy \in CopyType /\ Len(copy[h][s].objs) \in Nat
  BY DEF TaskInv, TypeOK, CopyType
<1>5. /\ s \in todo'[h] => s \in todo[h]
      /\ pc'[h] = pc[h] \/ (h = g /\ pc'[h] = "read")
      /\ h = g /\ s = q => s \notin todo'[h]
      /\ h = g => pc'[h] \in {"open", "read"}
  BY <1>1 DEF TaskInv, TypeOK
<1>6. CASE UNCHANGED <<copy, writers>>
  BY <1>1, <1>3, <1>5, <1>6 DEF FaithfulCopy
<1>7. CASE /\ writers' = [writers EXCEPT ![g] = @ \cup {q}]
           /\ copy' = [copy EXCEPT ![g][q].st = "open"]
  <2>1. CASE h = g /\ s = q
    <3>1. copy'[g][q].st = "open" /\ copy'[g][q].objs = copy[g][q].objs
      BY <1>4, <1>7 DEF CopyType
    <3> QED BY <1>1, <1>3, <1>4, <1>5, <2>1, <3>1 DEF FaithfulCopy
  <2>2. CASE ~(h = g /\ s = q)
    <3>1. copy'[h][s] = copy[h][s] /\ (s \in writers'[h] => s \in writers[h])
      BY <1>4, <1>7, <2>2 DEF CopyType, TaskInv, TypeOK
    <3> QED BY <1>1, <1>3, <1>5, <3>1 DEF FaithfulCopy
  <2> QED BY <2>1, <2>2
<1> QED BY <1>2, <1>6, <1>7

LEMMA CopyCancel ==
    ASSUME TaskInv, CopyInv, NEW g \in Group, NEW q \in Subscriber, CancelCopy(g, q)
    PROVE  CopyInv'
<1> SUFFICES ASSUME NEW h \in Group, NEW s \in Subscriber
             PROVE  FaithfulCopy(h, s)'
  BY DEF CopyInv
<1>1. FaithfulCopy(h, s) /\ copy \in CopyType
  BY DEF CopyInv, TaskInv, TypeOK, CopyType
<1>2. /\ copy'[h][s].objs = copy[h][s].objs
      /\ \/ copy'[h][s].st = copy[h][s].st
         \/ copy'[h][s].st = "stopped" /\ copy[h][s].st = "open"
  BY <1>1 DEF CancelCopy, Writable, CopyType
<1>3. UNCHANGED <<pc, read, todo, writers, src, written>>
  BY DEF CancelCopy, tasks, sources
<1> QED BY <1>1, <1>2, <1>3 DEF FaithfulCopy

LEMMA ForwardStep == ForwardInv /\ [Next]_vars => ForwardInv'
<1> SUFFICES ASSUME TaskInv, CopyInv, [Next]_vars PROVE CopyInv'
  BY TaskStep DEF ForwardInv
<1>1. ASSUME NEW g \in Group, HandleDataStream(g) PROVE CopyInv'
  BY <1>1, CopyFin, CopyForward, CopyRead, CopyOpen DEF HandleDataStream
<1>2. CASE UNCHANGED vars
  BY <1>2, CopyKept DEF vars, tasks, EndKept
<1> QED BY <1>1, <1>2, CopyControl, CopyCancel DEF Next

LEMMA ForwardInvariant == Spec => []ForwardInv
<1>1. Init => ForwardInv
  BY TaskInit, CopyInit DEF ForwardInv
<1> QED BY <1>1, ForwardStep, PTL DEF Spec

----------------------------------------------------------------------------
(* The properties *)

\* A subscriber gets the objects of a group from the first on, with no gap and
\* no repetition, and FIN of a finished group whose end was not lost with the
\* publisher's connection means that it is complete.
THEOREM Complete == Spec => []CompleteCopies
<1>1. ForwardInv => CompleteCopies
  <2> SUFFICES ASSUME TaskInv, CopyInv, NEW g \in Group, NEW s \in Subscriber
               PROVE  LET c == copy[g][s]
                      IN  /\ Prefix(c.objs)
                          /\ Len(c.objs) <= written[g]
                          /\ c.st = "fin" /\ src[g] = "fin" => Len(c.objs) = written[g]
    BY DEF ForwardInv, CompleteCopies, Prefix
  <2>1. FaithfulCopy(g, s) /\ read[g] <= written[g]
    BY DEF CopyInv, TaskInv, ProgressInv
  <2>2. read[g] \in Nat /\ written[g] \in Nat /\ Len(copy[g][s].objs) \in Nat
    BY BoundAssumption DEF TaskInv, TypeOK
  <2> QED BY <2>1, <2>2 DEF FaithfulCopy
<1> QED BY <1>1, ForwardInvariant, PTL

\* The relay holds one object of a stream: no subscriber that it still writes to
\* lags behind more than the object it is forwarding.
THEOREM OneObject == Spec => []HoldsOneObject
<1>1. ForwardInv => HoldsOneObject
  BY DEF ForwardInv, CopyInv, FaithfulCopy, HoldsOneObject
<1> QED BY <1>1, ForwardInvariant, PTL

----------------------------------------------------------------------------
(* The refinement *)

\* What a step of the data plane is for one subscriber's copy.
LEMMA CopyStutters ==
    ASSUME NEW g \in Group, NEW s \in Subscriber, src'[g] = src[g], written'[g] = written[g],
           copy'[g][s] = copy[g][s]
    PROVE  Copy(g, s)!CopyStep
BY DEF Copy!CopyStep, Copy!copyVars

LEMMA CopyPublishes ==
    ASSUME TaskInv, NEW g \in Group, NEW s \in Subscriber,
           Control \/ \E h \in Group : PublisherStream(h)
    PROVE  Copy(g, s)!CopyStep
<1>1. UNCHANGED copy
  BY DEF Control, PublisherStream, PublisherAccepts, RecordSubscription, LosePublisher,
         RemovePublisher, Aggregate, LoseLink, RemoveSubscriber, OpenSubgroup, WriteObject,
         FinishSubgroup, ResetSubgroup
<1>2. \/ src[g] = "none" /\ src'[g] = "open" /\ written'[g] = written[g]
      \/ src[g] = "open" /\ src'[g] \in {"fin", "cut"} /\ written'[g] = written[g]
      \/ src[g] = "fin" /\ src'[g] = "cut" /\ written'[g] = written[g]
      \/ src[g] = "open" /\ written'[g] = written[g] + 1 /\ src'[g] = src[g]
      \/ src'[g] = src[g] /\ written'[g] = written[g]
  <2>1. CASE Control
    BY <2>1 DEF Control, PublisherAccepts, RecordSubscription, LosePublisher, RemovePublisher,
                Aggregate, LoseLink, RemoveSubscriber, UnderWay, sources, TaskInv, TypeOK
  <2>2. ASSUME NEW h \in Group, PublisherStream(h)
        PROVE  <1>2!:
    BY <2>2 DEF PublisherStream, OpenSubgroup, WriteObject, FinishSubgroup, ResetSubgroup,
                TaskInv, TypeOK
  <2> QED BY <2>1, <2>2
<1> QED BY <1>1, <1>2 DEF Copy!CopyStep, Copy!CopyNext, Copy!Publish, Copy!copyVars

LEMMA CopyHandles ==
    ASSUME ForwardInv, NEW g \in Group, NEW s \in Subscriber, NEW h \in Group,
           HandleDataStream(h)
    PROVE  Copy(g, s)!CopyStep
<1> USE DEF Copy!CopyStep, Copy!CopyNext
<1>1. UNCHANGED <<src, written>> /\ TaskInv /\ FaithfulCopy(g, s) /\ copy \in CopyType
  BY DEF HandleDataStream, Receive, LookUp, ReadObject, EndOfStream, ReadFails, Drain, OpenCopy,
         ForwardObject, sources, ForwardInv, CopyInv, TaskInv, TypeOK, CopyType
<1>2. CASE Receive(h) \/ LookUp(h) \/ ReadObject(h) \/ Drain(h)
  BY <1>1, <1>2, CopyStutters DEF Receive, LookUp, ReadObject, Drain
<1>3. CASE EndOfStream(h) \/ ReadFails(h)
  <2>1. /\ pc[h] = "read" /\ copy' = WithFin(h, writers[h])
        /\ src[h] = "cut" \/ (src[h] = "fin" /\ read[h] = written[h])
    BY <1>3 DEF EndOfStream, ReadFails, AtEnd
  <2>2. CASE g = h /\ s \in writers[h] /\ Writable(h, s)
    <3>1. copy'[g][s].st = "fin" /\ copy'[g][s].objs = copy[g][s].objs
      BY <1>1, <2>1, <2>2 DEF WithFin, CopyType
    <3>2. Copy(g, s)!Finish
      BY <1>1, <2>1, <2>2, <3>1 DEF Copy!Finish, Writable, FaithfulCopy
    <3> QED BY <3>2
  <2>3. CASE ~(g = h /\ s \in writers[h] /\ Writable(h, s))
    BY <1>1, <2>1, <2>3, CopyStutters DEF WithFin, CopyType
  <2> QED BY <2>2, <2>3
<1>4. ASSUME NEW q \in Subscriber, OpenCopy(h, q) PROVE Copy(g, s)!CopyStep
  <2>1. CASE g = h /\ s = q /\ copy' = [copy EXCEPT ![h][q].st = "open"]
    <3>1. copy'[g][s].st = "open" /\ copy'[g][s].objs = copy[g][s].objs
      BY <1>1, <2>1 DEF CopyType
    <3>2. copy[g][s].st = "none" /\ src[g] # "none"
      BY <1>1, <1>4, <2>1 DEF OpenCopy, FaithfulCopy, TaskInv, ProgressInv
    <3> QED BY <1>1, <3>1, <3>2 DEF Copy!Begin
  <2>2. CASE g # h \/ s # q \/ copy' = copy
    BY <1>1, <1>4, <2>2, CopyStutters DEF OpenCopy, CopyType
  <2> QED BY <1>4, <2>1, <2>2 DEF OpenCopy
<1>5. ASSUME NEW q \in Subscriber, ForwardObject(h, q) PROVE Copy(g, s)!CopyStep
  <2>1. CASE g = h /\ s = q /\ Writable(h, q)
    <3>1. /\ copy'[g][s].st = copy[g][s].st
          /\ copy'[g][s].objs = Append(copy[g][s].objs, read[g])
      <4>1. copy' = [copy EXCEPT ![g][s].objs = Append(@, read[g])]
        BY <1>5, <2>1 DEF ForwardObject
      <4> QED BY <1>1, <4>1 DEF CopyType
    <3>2. copy[g][s].st = "open" /\ Len(copy[g][s].objs) = read[g] - 1
      BY <1>1, <1>5, <2>1 DEF ForwardObject, FaithfulCopy, Writable
    <3>3. read[g] \in Nat /\ read[g] <= written[g] /\ written[g] \in Nat
      BY <1>1, BoundAssumption DEF TaskInv, TypeOK, ProgressInv
    <3>4. Len(copy[g][s].objs) + 1 = read[g] /\ Len(copy[g][s].objs) < written[g]
      BY <3>2, <3>3
    <3> QED BY <1>1, <3>1, <3>2, <3>4 DEF Copy!Forward
  <2>2. CASE g # h \/ s # q \/ ~Writable(h, q)
    BY <1>1, <1>5, <2>2, CopyStutters DEF ForwardObject, CopyType
  <2> QED BY <2>1, <2>2
<1> QED BY <1>2, <1>3, <1>4, <1>5 DEF HandleDataStream

LEMMA CopyStops ==
    ASSUME ForwardInv, NEW g \in Group, NEW s \in Subscriber, NEW h \in Group,
           NEW q \in Subscriber, CancelCopy(h, q)
    PROVE  Copy(g, s)!CopyStep
<1>1. UNCHANGED <<src, written>> /\ copy \in CopyType
  BY DEF CancelCopy, sources, ForwardInv, TaskInv, TypeOK, CopyType
<1>2. CASE g = h /\ s = q
  BY <1>1, <1>2 DEF CancelCopy, Writable, CopyType, Copy!CopyStep, Copy!CopyNext, Copy!Stop
<1>3. CASE g # h \/ s # q
  BY <1>1, <1>3, CopyStutters DEF CancelCopy, CopyType
<1> QED BY <1>2, <1>3

\* No subscriber sees more of a stream than a faithful copy of it: each copy of
\* each stream implements StreamCopy.
THEOREM Refinement == Spec => ImplementsCopy
<1> DEFINE Start == \A g \in Group, s \in Subscriber : Copy(g, s)!CopyInit
           Step  == \A g \in Group, s \in Subscriber : Copy(g, s)!CopyStep
<1>1. Init => Start
  BY DEF Init, NoCopy, Copy!CopyInit
<1>2. ForwardInv /\ [Next]_vars => [Step]_vars
  <2> SUFFICES ASSUME ForwardInv, Next PROVE Step
    OBVIOUS
  <2> TaskInv
    BY DEF ForwardInv
  <2> QED BY CopyPublishes, CopyHandles, CopyStops DEF Next
<1>3. Spec => [][Step]_vars
  BY <1>2, ForwardInvariant, PTL DEF Spec
<1> QED BY <1>1, <1>3 DEF ImplementsCopy, Spec
=============================================================================
