--------------------------- MODULE MCWebSubscriber ---------------------------
(***************************************************************************)
(* Instances of WebSubscriber for TLC: two streams of one group and one of *)
(* the next, or three groups.                                              *)
(***************************************************************************)
EXTENDS WebSubscriber

CONSTANTS s1, s2, s3

Groups == [s \in {s1, s2, s3} |-> CASE s = s1 -> 0 [] s = s2 -> 1 [] s = s3 -> 2]
=============================================================================
