----------------------- MODULE DataForwardProperties -----------------------
(***************************************************************************)
(* What the data plane of moqt-relay must do.                              *)
(***************************************************************************)
EXTENDS DataForward

\* Every variable keeps its type; only a task that opens or writes has
\* subscribers to do, and no writer is both done and to do.
TypeOK ==
    /\ upstream \in {"asked", "accepted", "recorded"}
    /\ members \subseteq Subscriber
    /\ link \in [Subscriber -> {"up", "lost"}]
    /\ pub \in {"up", "lost"}
    /\ src \in [Group -> {"none", "open", "fin", "cut"}]
    /\ written \in [Group -> 0..MaxObjects]
    /\ pc \in [Group -> {"none", "lookup", "open", "read", "write", "drain", "done"}]
    /\ read \in [Group -> 0..MaxObjects]
    /\ todo \in [Group -> SUBSET Subscriber]
    /\ writers \in [Group -> SUBSET Subscriber]
    /\ copy \in [Group -> [Subscriber -> [st : {"none", "open", "fin", "stopped"},
                                          objs : Seq(1..MaxObjects)]]]
    /\ \A g \in Group :
          /\ todo[g] # {} => pc[g] \in {"open", "write"}
          /\ todo[g] \cap writers[g] = {}

\* Whatever joins, leaves and breaks meanwhile, a subscriber gets the objects
\* of a group from the first on, with no gap and no repetition; and where the
\* publisher finished the group and no connection loss took its end away, FIN
\* means that the group is complete.
CompleteCopies ==
    \A g \in Group, s \in Subscriber :
        LET c == copy[g][s]
        IN  /\ c.objs = [i \in 1..Len(c.objs) |-> i]
            /\ Len(c.objs) <= written[g]
            /\ c.st = "fin" /\ src[g] = "fin" => Len(c.objs) = written[g]

\* The relay holds at most one object of a stream: no subscriber it still
\* writes to is further behind than the object the relay is forwarding.
HoldsOneObject ==
    \A g \in Group : \A s \in Subscriber :
        /\ s \in writers[g] => Len(copy[g][s].objs) = read[g]
        /\ pc[g] = "write" /\ s \in todo[g] => Len(copy[g][s].objs) = read[g] - 1

\* Each subscriber's copy of each stream implements StreamCopy.
Copy(g, s) == INSTANCE StreamCopy WITH
    src <- src[g], written <- written[g], st <- copy[g][s].st, objs <- copy[g][s].objs

\* No subscriber sees more of a stream than a faithful copy of it: the
\* conjunction of Copy(g, s)!CopySpec over all streams and subscribers.
ImplementsCopy ==
    /\ \A g \in Group, s \in Subscriber : Copy(g, s)!CopyInit
    /\ [][\A g \in Group, s \in Subscriber : Copy(g, s)!CopyStep]_vars

----------------------------------------------------------------------------
\* tokio runs every task that can run, and every subscriber reads: a write
\* that cannot fail succeeds some day.
FairSpec ==
    /\ Spec
    /\ \A g \in Group : WF_vars(HandleDataStream(g))

\* Who is subscribed when the relay looks a finished group up gets all of it,
\* unless its own connection breaks or it cancels, or the publisher's is lost
\* before the group was read to its end: the failure of one subscriber does not
\* harm the others.
MembersGetTheGroup ==
    \A g \in Group, s \in Subscriber :
        (pc[g] = "lookup" /\ s \in members /\ src[g] = "fin")
        ~> \/ copy[g][s].st = "fin" /\ Len(copy[g][s].objs) = written[g]
           \/ link[s] = "lost" \/ copy[g][s].st = "stopped"
           \/ s \notin members \/ src[g] = "cut"

----------------------------------------------------------------------------
\* A statement of the documentation that the code does not live up to

\* moqt-relay.md: when the publisher's stream is closed by FIN, the streams to
\* the subscribers are: FIN does not stand for anything else.
FinMeansFin ==
    \A g \in Group, s \in Subscriber : copy[g][s].st = "fin" => src[g] = "fin"
=============================================================================
