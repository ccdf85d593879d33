-------------------------------- MODULE Offload --------------------------------
(***************************************************************************)
(* What a kernel call (kernelgemmN_hp, kernelspmmN_hpc, ...) promises to   *)
(* the scheduler thread that makes it: the core computes the chunk exactly *)
(* once per call, and the call returns only afterwards.                    *)
(***************************************************************************)
CONSTANT Acc  \* the accelerators

VARIABLE call  \* where the call on each accelerator is

Init == call = [a \in Acc |-> "none"]

(* The thread bound to the accelerator launches the hardware function.     *)
Launch(a) == call[a] = "none" /\ call' = [call EXCEPT ![a] = "computing"]

(* The core finishes the chunk.                                            *)
Compute(a) == call[a] = "computing" /\ call' = [call EXCEPT ![a] = "computed"]

(* The call returns.                                                       *)
Return(a) == call[a] = "computed" /\ call' = [call EXCEPT ![a] = "none"]

Next == \E a \in Acc : Launch(a) \/ Compute(a) \/ Return(a)

Spec == Init /\ [][Next]_call

(* Every call returns.                                                     *)
CallsReturn == \A a \in Acc : call[a] # "none" ~> call[a] = "none"

FairSpec ==
  Spec /\ \A a \in Acc : WF_call(Compute(a)) /\ WF_call(Return(a))

=============================================================================
