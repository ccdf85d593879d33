------------------------------ MODULE MCMultiHap ------------------------------
(* Small instances of the LogFit scheduler of the ZCU102 for TLC.          *)
EXTENDS MultiHap

CONSTANTS t1, t2, t3   \* the threads

ThreeThreads == {t1, t2, t3}

(* A core is as fast as an accelerator, or a third. *)
SpeedSet == {<<1, 1>>, <<3, 1>>}
=============================================================================
