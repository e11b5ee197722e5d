------------------------------ MODULE MCRelay ------------------------------
(***************************************************************************)
(* Instances of Relay for TLC.  Namespaces are the sequences of fields     *)
(* <<"live">> and <<"live", "cam">>; the tracks lie in the longer one.     *)
(***************************************************************************)
EXTENDS RelayProperties, TLC

Short == <<"live">>
Long  == <<"live", "cam">>

OneNamespace  == {Long}
TwoNamespaces == {Short, Long}

OneTrack  == {[namespace |-> Long, name |-> "video"]}
TwoTracks == {[namespace |-> Long, name |-> "video"], [namespace |-> Short, name |-> "audio"]}

Plain   == {"NextGroupStart"}
AnyForm == AllForms

ReqSymmetry == Permutations(Req)
=============================================================================
