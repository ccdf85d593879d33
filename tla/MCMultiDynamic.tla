---------------------------- MODULE MCMultiDynamic ----------------------------
(* Small instances of the Dynamic scheduler for TLC.                       *)
EXTENDS MultiDynamic

CONSTANTS main, w1, w2, w3   \* the main thread and its workers

OneThread == {main}
TwoThreads == {main, w1}
ThreeThreads == {main, w1, w2}
FourThreads == {main, w1, w2, w3}

(* An accelerator as fast as a core, and one three times as fast (or slow). *)
SpeedSet == {1, 3}
=============================================================================
