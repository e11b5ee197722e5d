----------------------------- MODULE StreamCopy -----------------------------
(***************************************************************************)
(* What one subscriber may see of one stream of the publisher: its objects *)
(* from the first on, in order, each as it was written and once; FIN not   *)
(* before the last of them, unless the publisher's stream broke, be it     *)
(* after its end was sent.  Relay, tasks and other subscribers do not      *)
(* appear.                                                                 *)
(***************************************************************************)
EXTENDS Naturals, Sequences

VARIABLES
    src,        \* the publisher's stream: "none", "open", "fin" or "cut"
    written,    \* the number of objects written to it
    st,         \* the copy: "none", "open", "fin" or "stopped"
    objs        \* the objects in the copy

copyVars == <<src, written, st, objs>>

CopyInit == src = "none" /\ written = 0 /\ st = "none" /\ objs = << >>

Publish ==
    /\ \/ src = "none" /\ src' = "open" /\ UNCHANGED written
       \/ src = "open" /\ src' \in {"fin", "cut"} /\ UNCHANGED written
       \/ src = "fin" /\ src' = "cut" /\ UNCHANGED written
       \/ src = "open" /\ written' = written + 1 /\ UNCHANGED src
    /\ UNCHANGED <<st, objs>>

Begin ==
    /\ src # "none" /\ st = "none"
    /\ st' = "open"
    /\ UNCHANGED <<src, written, objs>>

Forward ==
    /\ st = "open" /\ Len(objs) < written
    /\ objs' = Append(objs, Len(objs) + 1)
    /\ UNCHANGED <<src, written, st>>

Finish ==
    /\ st = "open"
    /\ src = "cut" \/ (src = "fin" /\ Len(objs) = written)
    /\ st' = "fin"
    /\ UNCHANGED <<src, written, objs>>

Stop ==
    /\ st = "open"
    /\ st' = "stopped"
    /\ UNCHANGED <<src, written, objs>>

CopyNext == Publish \/ Begin \/ Forward \/ Finish \/ Stop

CopyStep == CopyNext \/ UNCHANGED copyVars

CopySpec == CopyInit /\ [][CopyStep]_copyVars
=============================================================================
