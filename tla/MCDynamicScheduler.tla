-------------------------- MODULE MCDynamicScheduler --------------------------
(* Small instances of the Dynamic scheduler of the ZC702 for TLC.          *)
EXTENDS DynamicScheduler

CONSTANTS main, w1, w2   \* the main thread and its workers

AllThreads == {main, w1, w2}

(* With tokens, and with the accelerator reserved for the main thread.     *)
BothBuilds == BOOLEAN

(* The accelerator as fast as a core, and three times as fast (or slow).   *)
SpeedSet == {1, 3}
=============================================================================
