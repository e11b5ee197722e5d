--------------------------- MODULE NativeSubscriber ---------------------------
(***************************************************************************)
(* moqt-sub (moqt-sub/src/main.rs).                                        *)
(*                                                                         *)
(* The main task waits for PUBLISH_DONE and closes the session 200 ms      *)
(* later; a second task takes the data streams one after the other and     *)
(* reads each to its end before it takes the next.  What it prints, or     *)
(* writes to stdout as IVF, is out.                                        *)
(***************************************************************************)
EXTENDS Session

CONSTANT Stream \* the groups that may be sent

VARIABLES
    sub,        \* where the main task stands
    recv,       \* where the receive task stands
    reading,    \* the group it reads
    got,        \* how many objects of a group it has read
    played,     \* the groups it has taken, in order
    out,        \* the objects it has put out, in order
    copy        \* the streams to it: what the relay wrote

outVars    == <<reading, got, played, out>>
subscriber == <<sub, recv, outVars>>

NoCopy == [st |-> "none", objs |-> << >>]

\* started tells whether the program is run at all.
SubscriberInit(started) ==
    /\ sub = (IF started THEN "connect" ELSE "ended") /\ recv = "off"
    /\ reading = None /\ got = [g \in Stream |-> 0]
    /\ played = << >> /\ out = << >>
    /\ copy = [g \in Stream |-> NoCopy]

----------------------------------------------------------------------------
\* The main task

ConnectSubscriber ==
    /\ sub = "connect"
    /\ ReadSetup("sub", "client")
    /\ UNCHANGED <<subscriber, copy>>

Subscribe ==
    /\ sub = "connect" /\ Ready("sub", "client") /\ Up("sub")
    /\ OpenRequest("subscribe")
    /\ sub' = "subscribe"
    /\ UNCHANGED <<link, setup, uni, answers>>
    /\ UNCHANGED <<recv, outVars, copy>>

\* main returns: the connection is dropped, the receive task cancelled.
LeaveMain == sub' = "ended" /\ recv' = "over" /\ Close("sub")

\* SUBSCRIBE_OK starts the receive task; any other answer ends main.
SubscribeAnswered ==
    /\ sub = "subscribe" /\ answers["subscribe"] # << >>
    /\ LET m == Head(answers["subscribe"])
       IN  /\ Read("subscribe", m)
           /\ IF m.type = "OK" THEN sub' = "await" /\ recv' = "next" /\ UNCHANGED link
                               ELSE LeaveMain
    /\ UNCHANGED <<setup, uni, requests>>
    /\ UNCHANGED <<outVars, copy>>

\* recv_publish_done.  The count it carries is not used.
RecvPublishDone ==
    /\ sub = "await" /\ answers["subscribe"] # << >>
    /\ LET m == Head(answers["subscribe"])
       IN  /\ Read("subscribe", m)
           /\ IF m.type = "DONE" THEN sub' = "linger" /\ UNCHANGED <<recv, link>>
                                 ELSE LeaveMain
    /\ UNCHANGED <<setup, uni, requests>>
    /\ UNCHANGED <<outVars, copy>>

\* An await that needs the connection fails: ? ends main.
SubscriberFails ==
    /\ sub \in {"connect", "subscribe", "await"} /\ Down("sub") /\ LeaveMain
    /\ UNCHANGED <<setup, uni, requests, answers>>
    /\ UNCHANGED <<outVars, copy>>

\* 200 ms after PUBLISH_DONE; slept tells whether they may be over.
CloseSubscriber(slept) ==
    /\ sub = "linger" /\ slept
    /\ sub' = "closing" /\ Close("sub")
    /\ UNCHANGED <<setup, uni, requests, answers>>
    /\ UNCHANGED <<recv, outVars, copy>>

\* The receive task is awaited.
SubscriberEnds ==
    /\ sub = "closing" /\ recv = "over"
    /\ sub' = "ended"
    /\ UNCHANGED session
    /\ UNCHANGED <<recv, outVars, copy>>

----------------------------------------------------------------------------
\* The receive task

TakeGroup(g) ==
    /\ recv = "next" /\ NextStream("sub", "client", g)
    /\ reading' = g /\ played' = Append(played, g)
    /\ recv' = "read"
    /\ UNCHANGED <<link, setup, requests, answers>>
    /\ UNCHANGED <<sub, got, out, copy>>

\* next_event fails: the loop ends.
ReceiveEnds ==
    /\ recv = "next" /\ Down("sub")
    /\ recv' = "over"
    /\ UNCHANGED session
    /\ UNCHANGED <<sub, outVars, copy>>

\* What has arrived can be read, also when the connection is down.
ReadObject ==
    /\ recv = "read" /\ got[reading] < Len(copy[reading].objs)
    /\ got' = [got EXCEPT ![reading] = @ + 1]
    /\ out' = Append(out, copy[reading].objs[got'[reading]])
    /\ UNCHANGED session
    /\ UNCHANGED <<sub, recv, reading, played, copy>>

\* Mutant: the next group is taken when no object is there to be read.
LeaveWhenEmpty ==
    /\ recv = "read" /\ (got[reading] = Len(copy[reading].objs) \/ Down("sub"))
    /\ recv' = "next"
    /\ UNCHANGED session
    /\ UNCHANGED <<sub, outVars, copy>>

\* read_object returns None, or fails because the connection is down.
EndOfGroup ==
    /\ recv = "read"
    /\ \/ copy[reading].st = "fin" /\ got[reading] = Len(copy[reading].objs)
       \/ Down("sub")
    /\ recv' = "next"
    /\ UNCHANGED session
    /\ UNCHANGED <<sub, outVars, copy>>

----------------------------------------------------------------------------
SubscriberMain(slept) ==
    \/ ConnectSubscriber \/ Subscribe \/ SubscribeAnswered \/ RecvPublishDone
    \/ SubscriberFails \/ CloseSubscriber(slept) \/ SubscriberEnds

ReceiveTask == (\E g \in Stream : TakeGroup(g)) \/ ReceiveEnds \/ ReadObject \/ EndOfGroup
=============================================================================
