-------------------------- MODULE TrackAggregation --------------------------
(***************************************************************************)
(* What subscription aggregation promises (src/docs/design/moqt-relay.md,  *)
(* "Subscription Aggregation"), with no tasks, locks or sessions: a track  *)
(* has at most one attempt to open an upstream and, while it has an        *)
(* upstream, no attempt; the upstream a track has never turns into another *)
(* one; subscribers join an upstream that exists; an upstream that lost    *)
(* its last subscriber is forgotten.                                       *)
(***************************************************************************)
CONSTANTS Track, Req, None

VARIABLES
    opening,    \* the request that is opening the upstream of a track, or None
    serving,    \* the request whose upstream serves a track, or None
    members     \* the requests that the upstream of a track serves

aggVars == <<opening, serving, members>>

AggInit ==
    /\ opening = [t \in Track |-> None]
    /\ serving = [t \in Track |-> None]
    /\ members = [t \in Track |-> {}]

BeginOpening(t, r) ==
    /\ opening[t] = None /\ serving[t] = None
    /\ opening' = [opening EXCEPT ![t] = r]
    /\ UNCHANGED <<serving, members>>

GiveUp(t) ==
    /\ opening[t] # None
    /\ opening' = [opening EXCEPT ![t] = None]
    /\ UNCHANGED <<serving, members>>

Establish(t) ==
    /\ opening[t] # None
    /\ opening' = [opening EXCEPT ![t] = None]
    /\ serving' = [serving EXCEPT ![t] = opening[t]]
    /\ members' = [members EXCEPT ![t] = {opening[t]}]

Join(t, r) ==
    /\ serving[t] # None /\ opening[t] = None
    /\ members' = [members EXCEPT ![t] = @ \cup {r}]
    /\ UNCHANGED <<opening, serving>>

\* A session leaves: in any tracks, members go, and with the last one (or
\* with the publisher) the upstream.
Leave ==
    /\ members' \in [Track -> SUBSET Req]
    /\ \A t \in Track :
          /\ members'[t] \subseteq members[t]
          /\ serving'[t] = IF members'[t] = {} THEN None ELSE serving[t]
    /\ serving' \in [Track -> Req \cup {None}]
    /\ UNCHANGED opening

AggNext ==
    \/ \E t \in Track, r \in Req : BeginOpening(t, r) \/ Join(t, r)
    \/ \E t \in Track : GiveUp(t) \/ Establish(t)
    \/ Leave

AggSpec == AggInit /\ [][AggNext]_aggVars
=============================================================================
