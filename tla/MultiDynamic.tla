----------------------------- MODULE MultiDynamic -----------------------------
(***************************************************************************)
(* The Dynamic scheduler of the ZCU102 hosts (Schedulers/MultiDynamic.h).  *)
(*                                                                         *)
(* heterogeneous_parallel_for runs a TBB pipeline of two stages over the   *)
(* iteration space [First, Last).  The serial stage (MySerialFilter) binds *)
(* accelerators to threads and carves the next chunk off the front of the  *)
(* space; the parallel stage (MyParallelFilter) runs the chunk on the      *)
(* device it was made for and measures its throughput.  A thread carries   *)
(* its chunk from the serial stage through the parallel one, so a thread   *)
(* is either free or holds one Bundle.                                     *)
(*                                                                         *)
(* Throughputs are positive integers measured in a common unit; which one  *)
(* is measured is open, as the execution times are (they also cover the    *)
(* unsynchronised end_tc shared by the accelerator threads).  The float    *)
(* quotient fG = gpu/cpu is kept as a pair and the truncations to int are  *)
(* the integer divisions below.                                            *)
(***************************************************************************)
EXTENDS Integers, FiniteSets

CONSTANTS
  Threads,     (* The TBB threads, task_scheduler_init(nCPUs + nGPUs).     *)
  Main,        (* The thread that calls heterogeneous_parallel_for.        *)
  nCPUs,       (* Params.numcpus.                                          *)
  nGPUs,       (* Params.numgpus, the number of FPGA accelerators.         *)
  Kernels,     (* Hardware functions the body can dispatch to.             *)
  ChunkGPU,    (* Params.gpuChunk.                                         *)
  First, Last, (* The iteration space of a call.                           *)
  InitialFG,   (* First guess of the speed-up of an accelerator (8).       *)
  InitialPart, (* Part of the space a first CPU chunk may be (100).        *)
  Speeds,      (* Throughputs a chunk may be measured at.                  *)
  MaxCalls     (* Bound on the number of calls.                            *)

ASSUME ThreadsAssumption ==
  /\ Main \in Threads
  /\ IsFiniteSet(Threads)
  /\ nCPUs \in Nat
  /\ nGPUs \in Nat
  /\ nCPUs + nGPUs > 0
  /\ Cardinality(Threads) = nCPUs + nGPUs

(* The accelerators "must be preloaded in fpga" (GEMM.h:78), and the       *)
(* largest dispatch of the bodies has four cases.                          *)
ASSUME KernelsAssumption ==
  /\ Kernels \in 0..4
  /\ nGPUs <= Kernels

ASSUME NumbersAssumption ==
  /\ ChunkGPU \in Nat
  /\ First \in Nat /\ Last \in Nat /\ First <= Last
  /\ InitialFG \in Nat \ {0}
  /\ InitialPart \in Nat \ {0}
  /\ Speeds \subseteq Nat \ {0}
  /\ MaxCalls \in Nat

VARIABLES
  inCall,         (* Is pipe.run in progress?                              *)
  calls,          (* How many calls were made.                             *)
  begin,          (* First iteration nobody holds yet.                     *)
  eof,            (* The serial stage has returned NULL.                   *)
  nAcc,           (* Accelerators not yet bound to a thread.               *)
  myAccId,        (* Thread-local: its accelerator, 0 if it has none.      *)
  chunkCPU,       (* Thread-local: size of its next CPU chunk.             *)
  fG,             (* The main thread's fG, a pair; the other threads       *)
                  (* assign theirs before every use.                       *)
  gpuThroughput,  (* Last throughput of each accelerator.                  *)
  cpuThroughput,  (* Thread-local: last throughput of its CPU chunks.      *)
  bundle,         (* The Bundle a thread holds.                            *)
  heap,           (* Number of allocated Bundles.                          *)
  times           (* How often each iteration was run in this call.        *)

vars == <<inCall, calls, begin, eof, nAcc, myAccId, chunkCPU, fG,
          gpuThroughput, cpuThroughput, bundle, heap, times>>

CPU == 0
Space == First..(Last - 1)
AccIds == 1..nGPUs

NoBundle == [begin |-> First, end |-> First, type |-> -1]

Busy(t) == bundle[t].type # -1

(* The iterations a thread holds. *)
Held(t) == bundle[t].begin..(bundle[t].end - 1)

Min2(a, b) == IF a < b THEN a ELSE b
Max2(a, b) == IF a < b THEN b ELSE a

Remaining == Last - begin

-----------------------------------------------------------------------------
(* The arithmetic of the partitioner.                                      *)

(* maxGpuThroughput: the best of the accelerators, 0 if none has run. *)
FastestGPU ==
  CHOOSE m \in {0} \union {gpuThroughput[i] : i \in AccIds} :
    \A i \in AccIds : gpuThroughput[i] <= m

(* chunkGPU / fG capped by what is left, and by an even share of it. *)
FairChunk(g, c) ==
  Min2((Min2(Remaining, ChunkGPU) * c) \div g,
       (Remaining * c) \div (nCPUs * c + g))

(* chunkCPU once both throughputs are known, else what it was. *)
KnownChunk(t) ==
  IF FastestGPU > 0 /\ cpuThroughput[t] > 0
    THEN FairChunk(FastestGPU, cpuThroughput[t])
    ELSE chunkCPU[t]

(* Faulty variants: no floor of one iteration; a share of the iterations   *)
(* already handed out.                                                     *)
NextChunkCPU_NoFloor(t) ==
  IF nGPUs = 0 THEN Remaining \div nCPUs ELSE KnownChunk(t)
NextChunkCPU_OfDone(t) ==
  IF nGPUs = 0 THEN Max2((begin - First) \div nCPUs, 1) ELSE KnownChunk(t)

(* The chunkCPU the thread computes before it takes iterations; without    *)
(* accelerators the cores schedule themselves (guided).                    *)
NextChunkCPU(t) ==
  IF nGPUs = 0
    THEN Max2(Remaining \div nCPUs, 1)
    ELSE IF KnownChunk(t) = 0 THEN 1 ELSE KnownChunk(t)

(* Faulty variant: the last chunk reaches past the end. *)
ChunkEnd_Unclipped(size) == begin + size

(* Min(begin + size, end): where a chunk of that size ends. *)
ChunkEnd(size) == Min2(begin + size, Last)

(* The main thread's first CPU chunk of a call. *)
FirstChunkCPU ==
  Max2(Min2((ChunkGPU * fG'[2]) \div fG'[1],
            (Last - First) \div InitialPart), 1)

-----------------------------------------------------------------------------
(* The scheduler object exists (its constructor has run), no call yet.     *)
Init ==
  /\ inCall = FALSE
  /\ calls = 0
  /\ begin = Last
  /\ eof = TRUE
  /\ nAcc = nGPUs
  /\ myAccId = [t \in Threads |-> 0]
  /\ chunkCPU = [t \in Threads |-> 0]
  /\ fG = <<0, 1>>
  /\ gpuThroughput = [i \in AccIds |-> 0]
  /\ cpuThroughput = [t \in Threads |-> 0]
  /\ bundle = [t \in Threads |-> NoBundle]
  /\ heap = 0
  /\ times = [i \in Space |-> 1]

(* heterogeneous_parallel_for up to pipe.run: a fresh serial stage over    *)
(* the whole space.  The thread-locals of the workers and the bindings of  *)
(* accelerators stay as the previous call left them.                       *)
ParallelForCall ==
  /\ ~ inCall
  /\ calls < MaxCalls
  /\ calls' = calls + 1
  /\ inCall' = TRUE
  /\ begin' = First
  /\ eof' = FALSE
  /\ fG' = IF fG[1] = 0 THEN <<InitialFG, 1>> ELSE fG
  /\ chunkCPU' = [chunkCPU EXCEPT ![Main] = FirstChunkCPU]
  /\ times' = [i \in Space |-> 0]
  /\ UNCHANGED <<nAcc, myAccId, gpuThroughput, cpuThroughput, bundle, heap>>

(* The serial stage may be entered by any free thread until it said NULL. *)
MayEnter(t) == inCall /\ ~ eof /\ ~ Busy(t)

(* Faulty variant: the end of a chunk taken for its last iteration. *)
Claim_Inclusive(t, e, type) ==
  /\ bundle' = [bundle EXCEPT ![t] = [begin |-> begin, end |-> e, type |-> type]]
  /\ begin' = e + 1
  /\ heap' = heap + 1

(* Both branches of the serial stage end by taking [begin, e).             *)
Claim(t, e, type) ==
  /\ bundle' = [bundle EXCEPT ![t] = [begin |-> begin, end |-> e, type |-> type]]
  /\ begin' = e
  /\ heap' = heap + 1

(* Faulty variants: the accelerator is not taken off the free ones; a      *)
(* thread is never given one.                                              *)
BindAccelerator_NotTaken(t) ==
  IF nAcc > 0 /\ myAccId[t] = 0
    THEN /\ myAccId' = [myAccId EXCEPT ![t] = nAcc]
         /\ UNCHANGED nAcc
    ELSE UNCHANGED <<myAccId, nAcc>>
BindAccelerator_OneLeft(t) ==
  IF nAcc > 1 /\ myAccId[t] = 0
    THEN /\ myAccId' = [myAccId EXCEPT ![t] = nAcc]
         /\ nAcc' = nAcc - 1
    ELSE UNCHANGED <<myAccId, nAcc>>

(* A thread without an accelerator is bound to a free one for good. *)
BindAccelerator(t) ==
  IF nAcc > 0 /\ myAccId[t] = 0
    THEN /\ myAccId' = [myAccId EXCEPT ![t] = nAcc]
         /\ nAcc' = nAcc - 1
    ELSE UNCHANGED <<myAccId, nAcc>>

(* The serial stage, for a thread that has an accelerator. *)
SerialFilterGPU(t) ==
  /\ MayEnter(t)
  /\ begin < Last
  /\ BindAccelerator(t)
  /\ myAccId'[t] # 0
  /\ Claim(t, ChunkEnd(ChunkGPU), myAccId'[t])
  /\ UNCHANGED <<inCall, calls, eof, chunkCPU, fG, gpuThroughput,
                 cpuThroughput, times>>

(* The serial stage, for a thread that works on a core. *)
SerialFilterCPU(t) ==
  /\ MayEnter(t)
  /\ begin < Last
  /\ BindAccelerator(t)
  /\ myAccId'[t] = 0
  /\ fG' = IF t = Main /\ FastestGPU > 0 /\ cpuThroughput[t] > 0
             THEN <<FastestGPU, cpuThroughput[t]>> ELSE fG
  /\ chunkCPU' = [chunkCPU EXCEPT ![t] = NextChunkCPU(t)]
  /\ Claim(t, ChunkEnd(NextChunkCPU(t)), CPU)
  /\ UNCHANGED <<inCall, calls, eof, gpuThroughput, cpuThroughput, times>>

(* The serial stage with nothing left: the Bundle it allocated first is    *)
(* dropped and NULL ends the input.                                        *)
SerialFilterEnd(t) ==
  /\ MayEnter(t)
  /\ begin >= Last
  /\ heap' = heap + 1
  /\ eof' = TRUE
  /\ UNCHANGED <<inCall, calls, begin, nAcc, myAccId, chunkCPU, fG,
                 gpuThroughput, cpuThroughput, bundle, times>>

(* The body runs every iteration of the chunk once more. *)
RunChunk(S) == times' = [i \in Space |-> IF i \in S THEN times[i] + 1 ELSE times[i]]

(* delete bundle. *)
Release(t) ==
  /\ bundle' = [bundle EXCEPT ![t] = NoBundle]
  /\ heap' = heap - 1

(* Faulty variant: the dispatch has no case for the last accelerator. *)
Dispatched_CaseMissing(t) == IF bundle[t].type \in 1..(nGPUs - 1) THEN Held(t) ELSE {}

(* The switch of OperatorGPU: an id without a case runs nothing. *)
Dispatched(t) == IF bundle[t].type \in 1..Kernels THEN Held(t) ELSE {}

(* An empty chunk measures a throughput of zero. *)
Measured(t) == IF Held(t) = {} THEN {0} ELSE Speeds

(* The parallel stage for a chunk of an accelerator. *)
OperatorGPU(t) ==
  /\ Busy(t)
  /\ bundle[t].type # CPU
  /\ RunChunk(Dispatched(t))
  /\ \E s \in Measured(t) :
       gpuThroughput' = [gpuThroughput EXCEPT ![bundle[t].type] = s]
  /\ Release(t)
  /\ UNCHANGED <<inCall, calls, begin, eof, nAcc, myAccId, chunkCPU, fG,
                 cpuThroughput>>

(* The parallel stage for a chunk of a core. *)
OperatorCPU(t) ==
  /\ Busy(t)
  /\ bundle[t].type = CPU
  /\ RunChunk(Held(t))
  /\ \E s \in Measured(t) : cpuThroughput' = [cpuThroughput EXCEPT ![t] = s]
  /\ Release(t)
  /\ UNCHANGED <<inCall, calls, begin, eof, nAcc, myAccId, chunkCPU, fG,
                 gpuThroughput>>

(* Faulty variant: the call does not wait for the chunks under way. *)
PipeReturn_NoDrain ==
  /\ inCall /\ eof
  /\ inCall' = FALSE
  /\ UNCHANGED <<calls, begin, eof, nAcc, myAccId, chunkCPU, fG,
                 gpuThroughput, cpuThroughput, bundle, heap, times>>

(* pipe.run returns when its input has ended and every token is back. *)
PipeReturn ==
  /\ inCall /\ eof
  /\ \A t \in Threads : ~ Busy(t)
  /\ inCall' = FALSE
  /\ UNCHANGED <<calls, begin, eof, nAcc, myAccId, chunkCPU, fG,
                 gpuThroughput, cpuThroughput, bundle, heap, times>>

SerialFilter(t) == SerialFilterGPU(t) \/ SerialFilterCPU(t) \/ SerialFilterEnd(t)

Next ==
  \/ ParallelForCall
  \/ \E t \in Threads : SerialFilterGPU(t)
  \/ \E t \in Threads : SerialFilterCPU(t)
  \/ \E t \in Threads : SerialFilterEnd(t)
  \/ \E t \in Threads : OperatorGPU(t)
  \/ \E t \in Threads : OperatorCPU(t)
  \/ PipeReturn

(* The body returns from every chunk, and TBB hands the serial stage to    *)
(* some free thread, not to any thread in particular.                      *)
Fairness ==
  /\ WF_vars(\E t \in Threads : SerialFilter(t))
  /\ \A t \in Threads : WF_vars(OperatorGPU(t)) /\ WF_vars(OperatorCPU(t))
  /\ WF_vars(PipeReturn)

Spec == Init /\ [][Next]_vars
FairSpec == Spec /\ Fairness

-----------------------------------------------------------------------------
TypeOK ==
  /\ inCall \in BOOLEAN
  /\ calls \in 0..MaxCalls
  /\ begin \in First..Last
  /\ eof \in BOOLEAN
  /\ nAcc \in 0..nGPUs
  /\ myAccId \in [Threads -> 0..nGPUs]
  /\ chunkCPU \in [Threads -> Nat]
  /\ fG \in Nat \X (Nat \ {0})
  /\ gpuThroughput \in [AccIds -> Nat]
  /\ cpuThroughput \in [Threads -> Nat]
  /\ bundle \in [Threads -> [begin : First..Last, end : First..Last, type : -1..nGPUs]]
  /\ heap \in Int
  /\ times \in [Space -> Nat]

(* Exactly the iterations in front of begin that no thread holds have been *)
(* run, and those once: chunks of different threads never overlap, leave   *)
(* no gap and are never run twice, whatever sizes the throughputs give.    *)
RunOnce ==
  \A i \in Space :
    times[i] = IF i < begin /\ \A t \in Threads : i \notin Held(t) THEN 1 ELSE 0

(* When heterogeneous_parallel_for has returned, the whole space has been  *)
(* run: no chunk is still on a device.                                     *)
ReturnedComplete ==
  ~ inCall => \A i \in Space : times[i] = 1

(* An accelerator is driven by one thread at most: no two threads launch   *)
(* the same hardware function or sleep on the same interrupt driver.       *)
AcceleratorOwner ==
  \A t, u \in Threads : t # u /\ myAccId[t] # 0 => myAccId[t] # myAccId[u]

(* The bindings leave exactly nCPUs threads for the cores: never more      *)
(* than nCPUs CPU chunks are under way, and never more than nGPUs others.  *)
DevicesNotOversubscribed ==
  /\ Cardinality({t \in Threads : bundle[t].type = CPU}) <= nCPUs
  /\ Cardinality({t \in Threads : Busy(t) /\ bundle[t].type # CPU}) <= nGPUs

(* Without accelerators the schedule is guided: of two chunks under way,   *)
(* the later one is never the longer one.                                  *)
GuidedShrinks ==
  nGPUs = 0 =>
    \A t, u \in Threads :
      Busy(t) /\ Busy(u) /\ bundle[t].begin < bundle[u].begin
        => bundle[u].end - bundle[u].begin <= bundle[t].end - bundle[t].begin

(* "Deleting bundle to avoid memory leaking" (MultiDynamic.h:335): no      *)
(* Bundle outlives the call it was allocated in.                           *)
NoBundleLeft == ~ inCall => heap = 0

(* The scheduler implements the promise of heterogeneous_parallel_for. *)
PF == INSTANCE ParallelFor WITH active <- inCall
Implements == PF!Spec

(* Every call returns: chunks never become empty while work is left. *)
CallReturns == inCall ~> ~ inCall

(* Upper bound on the steps a call still takes: two for every iteration    *)
(* not yet taken (it is taken and run), one for every chunk under way, and *)
(* the end of the input and of the call.                                   *)
StepsLeft ==
  2 * Remaining + Cardinality({t \in Threads : Busy(t)})
    + (IF eof THEN 0 ELSE 1) + (IF inCall THEN 1 ELSE 0)

(* No call goes round in circles: whichever thread enters whichever stage, *)
(* with whatever throughputs, each step brings the return nearer.  A chunk *)
(* the partitioner makes empty would be a step that does not.              *)
CallShortens == [][inCall => StepsLeft' < StepsLeft]_vars

=============================================================================
