------------------------------- MODULE Session -------------------------------
(***************************************************************************)
(* MoqtSession (moqt-core/src/session/mod.rs) between the relay and the    *)
(* two native programs that share a track: one connection each.            *)
(*                                                                         *)
(* A unidirectional stream is Control or the number of the group it        *)
(* carries; a bidirectional one is the request it was opened for.  Streams *)
(* wait in the order in which they were opened until the peer accepts      *)
(* them.  answers holds what was written on a request's stream and is not  *)
(* read yet; "FIN" stands for its writer being dropped.                    *)
(***************************************************************************)
EXTENDS Naturals, Sequences

CONSTANTS
    None,
    Control     \* the control stream

ASSUME NoneAssumption == None \notin Nat /\ Control \notin Nat

Conn == {"pub", "sub"}
End  == {"client", "relay"}

Upstream == {"upstream", "other"}       \* SUBSCRIBEs of the relay, to the publisher
Request  == {"announce", "subscribe"} \cup Upstream

ASSUME RequestAssumption == None \notin Request

Peer(e)   == IF e = "client" THEN "relay" ELSE "client"
ConnOf(r) == IF r = "subscribe" THEN "sub" ELSE "pub"
From(r)   == IF r \in Upstream THEN "relay" ELSE "client"

VARIABLES
    link,       \* "up", or "down" for both ends
    setup,      \* connect (client) or accept (relay) has "sent" SETUP or is "ready"
    uni,        \* unidirectional streams opened by an end and not accepted yet
    bidi,       \* bidirectional ones
    nextId,     \* RequestIdAllocator.next_id
    id,         \* the id of a request that was sent, or None
    answers     \* messages on their way to the sender of a request

session == <<link, setup, uni, bidi, nextId, id, answers>>
requests == <<bidi, nextId, id>>

Up(c)   == link[c] = "up"
Down(c) == link[c] = "down"

----------------------------------------------------------------------------
\* RequestIdAllocator::client and ::server.
FirstId(e) == IF e = "client" THEN 0 ELSE 1

\* A connection that is not used is down from the start.
SessionInit(used) ==
    /\ link = [c \in Conn |-> IF c \in used THEN "up" ELSE "down"]
    /\ setup = [c \in Conn |-> [e \in End |-> "sent"]]
    /\ uni = [c \in Conn |-> [e \in End |-> IF c \in used THEN <<Control>> ELSE << >>]]
    /\ bidi = [c \in Conn |-> [e \in End |-> << >>]]
    /\ nextId = [c \in Conn |-> [e \in End |-> FirstId(e)]]
    /\ id = [r \in Request |-> None]
    /\ answers = [r \in Request |-> << >>]

----------------------------------------------------------------------------
\* connect and accept.  Both ends open their control stream and write SETUP
\* before they read, so this has happened in the initial states.

\* Accept a stream, whichever comes first, and read SETUP from it.
ReadSetup(c, e) ==
    /\ setup[c][e] = "sent" /\ uni[c][Peer(e)] # << >>
    /\ Head(uni[c][Peer(e)]) = Control
    /\ uni' = [uni EXCEPT ![c][Peer(e)] = Tail(@)]
    /\ setup' = [setup EXCEPT ![c][e] = "ready"]
    /\ UNCHANGED <<link, requests, answers>>

Ready(c, e) == setup[c][e] = "ready"

----------------------------------------------------------------------------
\* Requests.  The helpers say what becomes of their variables and leave the
\* others to the action that uses them.

\* publish_namespace and subscribe: open a stream, allocate, write.
OpenRequest(r) ==
    LET c == ConnOf(r)
        e == From(r)
    IN  /\ id' = [id EXCEPT ![r] = nextId[c][e]]
        /\ nextId' = [nextId EXCEPT ![c][e] = @ + 2]
        /\ bidi' = [bidi EXCEPT ![c][e] = Append(@, r)]

\* next_event, when a request has arrived: end e takes the oldest.
NextRequest(c, e, r) ==
    /\ Ready(c, e)
    /\ bidi[c][Peer(e)] # << >> /\ r = Head(bidi[c][Peer(e)])
    /\ bidi' = [bidi EXCEPT ![c][Peer(e)] = Tail(@)]

\* next_event, when a data stream and its header have arrived.  What was
\* received before a connection broke can still be accepted.
NextStream(c, e, g) ==
    /\ Ready(c, e)
    /\ uni[c][Peer(e)] # << >> /\ g = Head(uni[c][Peer(e)])
    /\ uni' = [uni EXCEPT ![c][Peer(e)] = Tail(@)]

\* open_data_stream: open a stream and write the SubgroupHeader.
OpenStream(c, e, g) == uni' = [uni EXCEPT ![c][e] = Append(@, g)]

Message(type, n) == [type |-> type, streams |-> n]

\* What is written to a connection that is down does not arrive.
Answer(r, m) ==
    answers' = IF Up(ConnOf(r)) THEN [answers EXCEPT ![r] = Append(@, m)] ELSE answers

\* read_message on the stream of request r.
Read(r, m) ==
    /\ answers[r] # << >> /\ m = Head(answers[r])
    /\ answers' = [answers EXCEPT ![r] = Tail(@)]

\* The last handle of the connection is dropped, or close() is called.
Close(c) == link' = [link EXCEPT ![c] = "down"]

LoseLink(c) ==
    /\ Up(c) /\ Close(c)
    /\ UNCHANGED <<setup, uni, requests, answers>>
=============================================================================
