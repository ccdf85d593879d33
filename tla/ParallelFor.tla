----------------------------- MODULE ParallelFor -----------------------------
(***************************************************************************)
(* What every heterogeneous scheduler of this repository promises to its   *)
(* caller: heterogeneous_parallel_for(first, last, body) runs the body for *)
(* every iteration of [first, last) exactly once, on some device and in    *)
(* some order, and does not return before the last of them is done.        *)
(***************************************************************************)
EXTENDS Integers

CONSTANT Space  \* the iteration space [first, last) of one call

VARIABLES
  active,  \* is a call in progress?
  times    \* how often each iteration has been run in the current call

vars == <<active, times>>

Pending == {i \in Space : times[i] = 0}

TypeOK ==
  /\ active \in BOOLEAN
  /\ times \in [Space -> {0, 1}]

Init ==
  /\ active = FALSE
  /\ times = [i \in Space |-> 1]

(* The caller starts a loop: nothing has been run yet. *)
Start ==
  /\ ~ active
  /\ active' = TRUE
  /\ times' = [i \in Space |-> 0]

(* Some device completes a set of iterations nobody has run before. *)
Execute(S) ==
  /\ active
  /\ S \subseteq Pending
  /\ times' = [i \in Space |-> IF i \in S THEN 1 ELSE times[i]]
  /\ UNCHANGED active

(* The call returns once nothing is left. *)
Return ==
  /\ active
  /\ Pending = {}
  /\ active' = FALSE
  /\ UNCHANGED times

Next ==
  \/ Start
  \/ \E S \in SUBSET Space : Execute(S)
  \/ Return

Spec == Init /\ [][Next]_vars

=============================================================================
