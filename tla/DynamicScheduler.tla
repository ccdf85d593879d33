--------------------------- MODULE DynamicScheduler ---------------------------
(***************************************************************************)
(* The Dynamic scheduler of the ZC702 hosts                                *)
(* (zc702/schedulers/DynamicScheduler.h).                                  *)
(*                                                                         *)
(* It has the two pipeline stages of the ZCU102 one, but threads are not   *)
(* bound to accelerators: gpuStatus, an atomic counter, holds one token    *)
(* per accelerator.  The serial stage decrements it first and looks at the *)
(* result; a thread that is refused gives the token back and takes a chunk *)
(* for its core.  A thread whose accelerator chunk is done gives its token *)
(* back from the parallel stage, at any moment, also between the two steps *)
(* of a refused thread.  Built with HOSTPRI_LINUX or HOSTA7 there are no   *)
(* tokens: the main thread takes every accelerator chunk.                  *)
(*                                                                         *)
(* gpuThroughput and fG are floats all threads write without a lock; they  *)
(* are written in steps of their own.  A throughput is a positive integer, *)
(* which one is open, and fG the pair of the two it is the quotient of.    *)
(***************************************************************************)
EXTENDS Integers, FiniteSets, FiniteSetsExt

CONSTANTS
  Threads,     (* The TBB threads, task_scheduler_init(numcpus + numgpus). *)
  NoThread,    (* No thread.                                               *)
  Main,        (* main_thread.                                             *)
  Builds,      (* Built with HOSTPRI_LINUX or HOSTA7?  Either or both.     *)
  numCPUs, numGPUs,
  ChunkGPU,    (* Third argument of Initialize.                            *)
  First, Last, (* The iteration space of a call.                           *)
  InitialFG,   (* First guess of the speed-up of the accelerator (5).      *)
  Speeds,      (* Throughputs a chunk may be measured at.                  *)
  MaxCalls     (* Bound on the number of calls (time steps).               *)

(* The scripts run 0..2 cores with one accelerator and 1..2 without.       *)
ASSUME ThreadsAssumption ==
  /\ Main \in Threads
  /\ NoThread \notin Threads
  /\ IsFiniteSet(Threads)
  /\ numCPUs \in Nat
  /\ numGPUs \in {0, 1}
  /\ numCPUs + numGPUs > 0
  /\ Cardinality(Threads) = numCPUs + numGPUs
  /\ Builds \subseteq BOOLEAN

ASSUME NumbersAssumption ==
  /\ ChunkGPU \in Nat \ {0}
  /\ First \in Nat /\ Last \in Nat /\ First <= Last
  /\ InitialFG \in Nat \ {0}
  /\ Speeds \subseteq Nat \ {0}
  /\ MaxCalls \in Nat

VARIABLES
  dedicated,      (* The build: has the main thread the accelerator?       *)
  inCall,         (* Is pipe.run in progress?                              *)
  calls,          (* How many calls were made.                             *)
  begin,          (* First iteration nobody holds yet.                     *)
  eof,            (* The serial stage has returned NULL.                   *)
  refused,        (* Thread in the serial stage that was refused a token.  *)
  gpuStatus,      (* The tokens.                                           *)
  pc,             (* Where each thread is in the parallel stage.           *)
  bundle,         (* The Bundle each thread holds.                         *)
  gpuThroughput,  (* Last throughput of the accelerator.                   *)
  cpuThroughput,  (* Thread-local: last throughput of its CPU chunks.      *)
  fG,             (* Speed-up of the accelerator over a core, a pair.      *)
  totGPU, totCPU, (* Iterations the statistics attribute to either device. *)
  times,          (* How often each iteration was run in this call.        *)
  onCPU           (* Iterations cores have run or will run, in all calls.  *)

vars == <<dedicated, inCall, calls, begin, eof, refused, gpuStatus, pc, bundle,
          gpuThroughput, cpuThroughput, fG, totGPU, totCPU, times, onCPU>>

Space == First..(Last - 1)
Remaining == Last - begin

NoBundle == [begin |-> First, end |-> First, type |-> "none"]
Held(t) == bundle[t].begin..(bundle[t].end - 1)

-----------------------------------------------------------------------------
Init ==
  /\ dedicated \in Builds
  /\ inCall = FALSE
  /\ calls = 0
  /\ begin = Last
  /\ eof = TRUE
  /\ refused = NoThread
  /\ gpuStatus = 0
  /\ pc = [t \in Threads |-> "free"]
  /\ bundle = [t \in Threads |-> NoBundle]
  /\ gpuThroughput = 0
  /\ cpuThroughput = [t \in Threads |-> 0]
  /\ fG = <<InitialFG, 1>>
  /\ totGPU = 0 /\ totCPU = 0
  /\ times = [i \in Space |-> 1]
  /\ onCPU = 0

(* heterogeneous_parallel_for up to pipe.run. *)
ParallelForCall ==
  /\ ~ inCall
  /\ calls < MaxCalls
  /\ calls' = calls + 1
  /\ inCall' = TRUE
  /\ begin' = First
  /\ eof' = FALSE
  /\ gpuStatus' = numGPUs
  /\ times' = [i \in Space |-> 0]
  /\ UNCHANGED <<dedicated, refused, pc, bundle, gpuThroughput, cpuThroughput,
                 fG, totGPU, totCPU, onCPU>>

-----------------------------------------------------------------------------
(* The serial stage.                                                       *)

(* Any free thread may enter until the stage said NULL, one at a time.     *)
MayEnter(t) == inCall /\ ~ eof /\ refused = NoThread /\ pc[t] = "free"

(* Faulty variant: the end of a chunk taken for its last iteration. *)
Claim_Inclusive(t, e, type) ==
  /\ bundle' =
       [bundle EXCEPT ![t] = [begin |-> begin, end |-> e, type |-> type]]
  /\ begin' = e + 1
  /\ pc' = [pc EXCEPT ![t] = "run"]

(* The thread leaves the serial stage with the iterations up to e. *)
Claim(t, e, type) ==
  /\ bundle' =
       [bundle EXCEPT ![t] = [begin |-> begin, end |-> e, type |-> type]]
  /\ begin' = e
  /\ pc' = [pc EXCEPT ![t] = "run"]

(* Faulty variant: the last chunk reaches past the end. *)
ClaimGPU_Unclipped(t) ==
  /\ Claim(t, begin + ChunkGPU, "GPU")
  /\ totGPU' = totGPU + ChunkGPU
  /\ UNCHANGED <<totCPU, onCPU>>

(* The accelerator branch of the serial stage. *)
ClaimGPU(t) ==
  LET e == Min({begin + ChunkGPU, Last})
  IN  /\ Claim(t, e, "GPU")
      /\ totGPU' = totGPU + (e - begin)
      /\ UNCHANGED <<totCPU, onCPU>>

(* Faulty variant: the chunk is not capped by an even share of the rest. *)
NextChunkCPU_Uncapped ==
  Max({IF numGPUs = 0 THEN Max({Remaining \div numCPUs, 1})
       ELSE (ChunkGPU * fG[2]) \div fG[1], 1})

(* Faulty variant: a slow core gets an empty chunk. *)
NextChunkCPU_NoFloor ==
  LET share == Max({Remaining \div numCPUs, 1})
  IN  IF numGPUs = 0 THEN share
      ELSE Min({(ChunkGPU * fG[2]) \div fG[1], share})

(* chunkCPU, as the serial stage computes it. *)
NextChunkCPU ==
  LET share == Max({Remaining \div numCPUs, 1})
  IN  IF numGPUs = 0 THEN share
      ELSE Max({Min({(ChunkGPU * fG[2]) \div fG[1], share}), 1})

(* The core branch of the serial stage; a last chunk that were longer than *)
(* the rest is added to totGPU (DynamicScheduler.h:163).                   *)
ClaimCPU(t) ==
  LET size == NextChunkCPU
      fits == size <= Remaining
      e == IF fits THEN begin + size ELSE Last
  IN  /\ Claim(t, e, "CPU")
      /\ totCPU' = IF fits THEN totCPU + size ELSE totCPU
      /\ totGPU' = IF fits THEN totGPU ELSE totGPU + Remaining
      /\ onCPU' = onCPU + (e - begin)

(* Faulty variant: gpuStatus-- >= 0, the old value is tested. *)
TakeToken_OldValue(t) ==
  /\ ~ dedicated
  /\ MayEnter(t)
  /\ begin < Last
  /\ gpuStatus >= 0
  /\ gpuStatus' = gpuStatus - 1
  /\ ClaimGPU(t)
  /\ UNCHANGED <<dedicated, inCall, calls, eof, refused, gpuThroughput,
                 cpuThroughput, fG, times>>

(* --gpuStatus >= 0: the thread has a token and takes a chunk. *)
TakeToken(t) ==
  /\ ~ dedicated
  /\ MayEnter(t)
  /\ begin < Last
  /\ gpuStatus > 0
  /\ gpuStatus' = gpuStatus - 1
  /\ ClaimGPU(t)
  /\ UNCHANGED <<dedicated, inCall, calls, eof, refused, gpuThroughput,
                 cpuThroughput, fG, times>>

(* --gpuStatus < 0: refused; the counter is one short until it is repaid.  *)
RefuseToken(t) ==
  /\ ~ dedicated
  /\ MayEnter(t)
  /\ begin < Last
  /\ gpuStatus <= 0
  /\ gpuStatus' = gpuStatus - 1
  /\ refused' = t
  /\ UNCHANGED <<dedicated, inCall, calls, begin, eof, pc, bundle,
                 gpuThroughput, cpuThroughput, fG, totGPU, totCPU, times,
                 onCPU>>

(* Faulty variant: a refused thread does not repay the token. *)
SerialCPU_KeepsToken(t) ==
  /\ refused = t
  /\ refused' = NoThread
  /\ ClaimCPU(t)
  /\ UNCHANGED <<dedicated, inCall, calls, eof, gpuStatus, gpuThroughput,
                 cpuThroughput, fG, times>>

(* gpuStatus++, and the refused thread works on its core. *)
SerialCPU(t) ==
  /\ refused = t
  /\ refused' = NoThread
  /\ gpuStatus' = gpuStatus + 1
  /\ ClaimCPU(t)
  /\ UNCHANGED <<dedicated, inCall, calls, eof, gpuThroughput, cpuThroughput,
                 fG, times>>

(* Without tokens: the main thread for the accelerator, others for cores. *)
SerialDedicated(t) ==
  /\ dedicated
  /\ MayEnter(t)
  /\ begin < Last
  /\ IF t = Main /\ numGPUs > 0 THEN ClaimGPU(t) ELSE ClaimCPU(t)
  /\ UNCHANGED <<dedicated, inCall, calls, eof, refused, gpuStatus,
                 gpuThroughput, cpuThroughput, fG, times>>

(* Faulty variant: the end of the space is never noticed. *)
SerialEnd_OffByOne(t) ==
  /\ MayEnter(t)
  /\ begin > Last
  /\ eof' = TRUE
  /\ UNCHANGED <<dedicated, inCall, calls, begin, refused, gpuStatus, pc,
                 bundle, gpuThroughput, cpuThroughput, fG, totGPU, totCPU,
                 times, onCPU>>

(* Nothing left: NULL ends the input. *)
SerialEnd(t) ==
  /\ MayEnter(t)
  /\ begin >= Last
  /\ eof' = TRUE
  /\ UNCHANGED <<dedicated, inCall, calls, begin, refused, gpuStatus, pc,
                 bundle, gpuThroughput, cpuThroughput, fG, totGPU, totCPU,
                 times, onCPU>>

-----------------------------------------------------------------------------
(* The parallel stage.                                                     *)

(* The body runs every iteration of the chunk once more. *)
RunChunk(t) ==
  times' = [i \in Space |-> IF i \in Held(t) THEN times[i] + 1 ELSE times[i]]

(* OperatorGPU, and the throughput all threads read. *)
OperatorGPU(t) ==
  /\ pc[t] = "run" /\ bundle[t].type = "GPU"
  /\ RunChunk(t)
  /\ \E s \in Speeds : gpuThroughput' = s
  /\ pc' = [pc EXCEPT ![t] = "rate"]
  /\ UNCHANGED <<dedicated, inCall, calls, begin, eof, refused, gpuStatus,
                 bundle, cpuThroughput, fG, totGPU, totCPU, onCPU>>

(* OperatorCPU, and the throughput of this thread. *)
OperatorCPU(t) ==
  /\ pc[t] = "run" /\ bundle[t].type = "CPU"
  /\ RunChunk(t)
  /\ \E s \in Speeds : cpuThroughput' = [cpuThroughput EXCEPT ![t] = s]
  /\ pc' = [pc EXCEPT ![t] = "rate"]
  /\ UNCHANGED <<dedicated, inCall, calls, begin, eof, refused, gpuStatus,
                 bundle, gpuThroughput, fG, totGPU, totCPU, onCPU>>

(* fG from the last two throughputs, once the other device has one: after  *)
(* a chunk of the accelerator that is the thread's own CPU throughput.     *)
UpdateFG(t) ==
  /\ pc[t] = "rate"
  /\ fG' = IF gpuThroughput > 0 /\ cpuThroughput[t] > 0
             THEN <<gpuThroughput, cpuThroughput[t]>> ELSE fG
  /\ IF bundle[t].type = "GPU" /\ ~ dedicated
       THEN /\ pc' = [pc EXCEPT ![t] = "token"]
            /\ UNCHANGED bundle
       ELSE /\ pc' = [pc EXCEPT ![t] = "free"]
            /\ bundle' = [bundle EXCEPT ![t] = NoBundle]
  /\ UNCHANGED <<dedicated, inCall, calls, begin, eof, refused, gpuStatus,
                 gpuThroughput, cpuThroughput, totGPU, totCPU, times, onCPU>>

(* "To release GPU token", and delete bundle. *)
ReleaseToken(t) ==
  /\ pc[t] = "token"
  /\ gpuStatus' = gpuStatus + 1
  /\ pc' = [pc EXCEPT ![t] = "free"]
  /\ bundle' = [bundle EXCEPT ![t] = NoBundle]
  /\ UNCHANGED <<dedicated, inCall, calls, begin, eof, refused, gpuThroughput,
                 cpuThroughput, fG, totGPU, totCPU, times, onCPU>>

(* Faulty variant: returns although a chunk is under way. *)
PipeReturn_NoDrain ==
  /\ inCall /\ eof
  /\ inCall' = FALSE
  /\ UNCHANGED <<dedicated, calls, begin, eof, refused, gpuStatus, pc, bundle,
                 gpuThroughput, cpuThroughput, fG, totGPU, totCPU, times,
                 onCPU>>

(* pipe.run returns when its input has ended and every token is back. *)
PipeReturn ==
  /\ inCall /\ eof
  /\ \A t \in Threads : pc[t] = "free"
  /\ inCall' = FALSE
  /\ UNCHANGED <<dedicated, calls, begin, eof, refused, gpuStatus, pc, bundle,
                 gpuThroughput, cpuThroughput, fG, totGPU, totCPU, times,
                 onCPU>>

(* A free thread enters the serial stage and takes one of its branches. *)
Enter(t) ==
  TakeToken(t) \/ RefuseToken(t) \/ SerialDedicated(t) \/ SerialEnd(t)

(* What a thread that is in a stage does next. *)
Work(t) ==
  \/ SerialCPU(t) \/ OperatorGPU(t) \/ OperatorCPU(t)
  \/ UpdateFG(t) \/ ReleaseToken(t)

Next ==
  \/ ParallelForCall
  \/ \E t \in Threads : TakeToken(t)
  \/ \E t \in Threads : RefuseToken(t)
  \/ \E t \in Threads : SerialCPU(t)
  \/ \E t \in Threads : SerialDedicated(t)
  \/ \E t \in Threads : SerialEnd(t)
  \/ \E t \in Threads : OperatorGPU(t)
  \/ \E t \in Threads : OperatorCPU(t)
  \/ \E t \in Threads : UpdateFG(t)
  \/ \E t \in Threads : ReleaseToken(t)
  \/ PipeReturn

Spec == Init /\ [][Next]_vars

(* TBB runs the serial stage on some free thread as long as there is       *)
(* input, a thread in a stage goes on, and pipe.run returns when it can.   *)
FairSpec ==
  /\ Spec
  /\ WF_vars(\E t \in Threads : Enter(t))
  /\ \A t \in Threads : WF_vars(Work(t))
  /\ WF_vars(PipeReturn)

-----------------------------------------------------------------------------
TypeOK ==
  /\ dedicated \in BOOLEAN
  /\ inCall \in BOOLEAN
  /\ calls \in 0..MaxCalls
  /\ begin \in First..Last
  /\ eof \in BOOLEAN
  /\ refused \in Threads \union {NoThread}
  /\ gpuStatus \in -1..numGPUs
  /\ pc \in [Threads -> {"free", "run", "rate", "token"}]
  /\ bundle \in [Threads -> [begin : First..Last, end : First..Last,
                             type : {"none", "CPU", "GPU"}]]
  /\ gpuThroughput \in Nat
  /\ cpuThroughput \in [Threads -> Nat]
  /\ fG \in (Nat \ {0}) \X (Nat \ {0})
  /\ totGPU \in Nat /\ totCPU \in Nat /\ onCPU \in Nat
  /\ times \in [Space -> Nat]

OnGPU == {t \in Threads : bundle[t].type = "GPU"}

(* No token is lost or made: those in gpuStatus, those of the chunks under *)
(* way and the one a refused thread owes are numGPUs, however the          *)
(* decrements of the serial stage and the increments of the parallel one   *)
(* interleave; so between calls all of them are back.                      *)
TokensConserved ==
  ~ dedicated /\ calls > 0 =>
    gpuStatus + Cardinality(OnGPU) =
      numGPUs - (IF refused = NoThread THEN 0 ELSE 1)

(* The one accelerator is never given a second chunk while it has one:     *)
(* the hardware function and the interrupt driver have no lock.            *)
OneChunkOnAccelerator == Cardinality(OnGPU) <= numGPUs

(* "Total n. of bodies on CPU" and "... on FPGA" (lines 358 and 359) are   *)
(* what the cores and the accelerator were given.                          *)
TotalsByDevice ==
  LET handed == IF calls = 0 THEN 0
                ELSE (calls - 1) * (Last - First) + (begin - First)
  IN  totCPU = onCPU /\ totCPU + totGPU = handed

(* Each iteration in front of begin that is no longer held, and no other,  *)
(* has been run once.  A thread keeps its Bundle after it has run it.      *)
RunOnce ==
  LET Waiting(i) == \E t \in Threads : pc[t] = "run" /\ i \in Held(t)
  IN  \A i \in Space : times[i] = IF i < begin /\ ~ Waiting(i) THEN 1 ELSE 0

(* The scheduler implements the promise of heterogeneous_parallel_for. *)
PF == INSTANCE ParallelFor WITH active <- inCall
Implements == PF!Spec

(* Every call returns. *)
CallReturns == inCall ~> ~ inCall

(* Upper bound on the steps a call still takes.  An iteration not yet      *)
(* taken costs four: on a core a refusal, the chunk, its run and the       *)
(* update of fG, on the accelerator the chunk, its run, the update and the *)
(* release of the token.  A chunk under way costs what is left of them.    *)
StepsLeft ==
  4 * Remaining - (IF refused = NoThread THEN 0 ELSE 1)
    + Cardinality({t \in Threads : pc[t] \in {"run", "rate"}})
    + Cardinality({t \in Threads : pc[t] = "run"})
    + Cardinality(OnGPU)
    + (IF eof THEN 0 ELSE 1) + (IF inCall THEN 1 ELSE 0)

(* No call goes round in circles: each step of any thread brings the       *)
(* return nearer.  Refusals do not repeat: a refused thread gives the      *)
(* token back and takes a chunk before any other is refused, and no chunk  *)
(* is empty.                                                               *)
CallShortens == [][inCall => StepsLeft' < StepsLeft]_vars

=============================================================================
