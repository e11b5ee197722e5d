---------------------------- MODULE MCNativeTrack ----------------------------
(***************************************************************************)
(* The scenarios in which one track is looked at.  Each adds to the plain  *)
(* one what its comment says, with as few frames as that needs.            *)
(***************************************************************************)
EXTENDS NativeTrackProperties

Pipe(frames, asks, timely, breaks) ==
    [mode |-> "pipe", frames |-> frames, asks |-> asks, timely |-> timely, breaks |-> breaks]

Demo(timely, breaks) ==
    [mode |-> "demo", frames |-> 0, asks |-> {"upstream"}, timely |-> timely, breaks |-> breaks]

MCScenarios == {
    Pipe(3, {"upstream"}, TRUE, {}),        \* three frames, any of them keyframes
    Pipe(2, Upstream, TRUE, {}),            \* two SUBSCRIBEs for a publisher that takes one
    Pipe(1, {"upstream"}, FALSE, {}),       \* sleeps that are too short
    Pipe(1, {"upstream"}, TRUE, {"sub"}),   \* moqt-sub is cut off
    Pipe(3, {"other"}, TRUE, {"pub"}),      \* moqt-pub is cut off while stdin is ahead of it
    Demo(TRUE, {}), Demo(FALSE, {}), Demo(TRUE, {"pub"}), Demo(TRUE, {"sub"})}
=============================================================================
