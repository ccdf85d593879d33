------------------------------- MODULE Pipeline -------------------------------
(***************************************************************************)
(* The two-stage TBB pipeline the schedulers of this repository are:       *)
(* a serial stage that hands out the iteration space chunk by chunk, from  *)
(* its first iteration to its last, and a parallel stage in which threads  *)
(* run the chunks they hold.  It leaves open who gets which chunk and how  *)
(* long it is, which is all the schedulers differ in, and it lies between  *)
(* them and ParallelFor.                                                   *)
(***************************************************************************)
EXTENDS Integers

CONSTANTS
  Threads,     (* The TBB threads.                                         *)
  First, Last  (* The iteration space [First, Last) of a call.             *)

VARIABLES
  inCall,  (* Is pipe.run in progress?                                     *)
  begin,   (* First iteration nobody holds yet.                            *)
  eof,     (* The serial stage has returned NULL.                          *)
  held,    (* The iterations each thread still has to run.                 *)
  times    (* How often each iteration was run in this call.               *)

vars == <<inCall, begin, eof, held, times>>

Space == First..(Last - 1)

Init ==
  /\ inCall = FALSE
  /\ begin = Last
  /\ eof = TRUE
  /\ held = [t \in Threads |-> {}]
  /\ times = [i \in Space |-> 1]

(* heterogeneous_parallel_for sets up the pipeline. *)
Call ==
  /\ ~ inCall
  /\ inCall' = TRUE
  /\ begin' = First
  /\ eof' = FALSE
  /\ times' = [i \in Space |-> 0]
  /\ UNCHANGED held

(* The serial stage gives a thread that has nothing to run [begin, e).     *)
Take(t, e) ==
  /\ inCall /\ ~ eof
  /\ held[t] = {}
  /\ e \in begin..Last
  /\ held' = [held EXCEPT ![t] = begin..(e - 1)]
  /\ begin' = e
  /\ UNCHANGED <<inCall, eof, times>>

(* It has nothing left to give. *)
End ==
  /\ inCall /\ ~ eof
  /\ begin = Last
  /\ eof' = TRUE
  /\ UNCHANGED <<inCall, begin, held, times>>

(* A thread runs what it holds. *)
Run(t) ==
  /\ times' = [i \in Space |-> IF i \in held[t] THEN times[i] + 1 ELSE times[i]]
  /\ held' = [held EXCEPT ![t] = {}]
  /\ UNCHANGED <<inCall, begin, eof>>

(* pipe.run returns. *)
Return ==
  /\ inCall /\ eof
  /\ \A t \in Threads : held[t] = {}
  /\ inCall' = FALSE
  /\ UNCHANGED <<begin, eof, held, times>>

Next ==
  \/ Call
  \/ \E t \in Threads, e \in First..Last : Take(t, e)
  \/ End
  \/ \E t \in Threads : Run(t)
  \/ Return

Spec == Init /\ [][Next]_vars

=============================================================================
