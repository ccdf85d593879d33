-------------------------- MODULE MCLogFitScheduler --------------------------
(* Small instances of the LogFit scheduler of the ZC702 for TLC.           *)
EXTENDS LogFitScheduler

CONSTANTS t1, t2, t3   \* the threads

ThreeThreads == {t1, t2, t3}
=============================================================================
