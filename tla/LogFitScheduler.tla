--------------------------- MODULE LogFitScheduler ---------------------------
(***************************************************************************)
(* The LogFit scheduler of the ZC702 hosts                                 *)
(* (zc702/Schedulers/LogFitScheduler.h).                                   *)
(*                                                                         *)
(* Tokens and stages are those of DynamicScheduler, the sizes of the       *)
(* accelerator chunks are found by measuring, as in MultiHap but with the  *)
(* measurements in the parallel stage: the thread that ran an accelerator  *)
(* chunk stores it as a point, doubles the chunk, starts again, or fits    *)
(* the points, and gives its token back afterwards.  Near the end of a     *)
(* call the stop condition holds; then an accelerator gets a last chunk,   *)
(* or is parked: its token is kept and its thread is one more core.        *)
(*                                                                         *)
(* Globals the threads share without a lock are written in steps of their  *)
(* own.  A throughput is a small integer and fG a pair, the quotient of    *)
(* two of them; a pair <<g, 0>> is an infinite quotient.  What the model   *)
(* of the points gives is open.                                            *)
(***************************************************************************)
EXTENDS Integers, FiniteSets

CONSTANTS
  Threads,      (* The TBB threads, task_scheduler_init(numCPUs+numGPUs).  *)
  NoThread,     (* No thread.                                              *)
  GPUCounts,    (* Numbers of accelerators a program may be started with.  *)
  First, Last,  (* The iteration space of a call.                          *)
  InitialChunk, (* (end-begin)*chunkGPU_initratio.                         *)
  minChunkCPU,  (* Least CPU chunk and the first one (both 10).            *)
  numberPoints, (* 4.                                                      *)
  FitChunks,    (* Chunks the fit may give.                                *)
  Speeds,       (* Throughputs a chunk may be measured at.                 *)
  MAXPOINTS,    (* Length of x (1024).                                     *)
  MaxCalls      (* Bound on the number of calls (time steps).              *)

ASSUME ThreadsAssumption ==
  /\ IsFiniteSet(Threads)
  /\ NoThread \notin Threads
  /\ GPUCounts \subseteq {0, 1}
  /\ Threads # {}

(* x is long enough if a call has fewer iterations; the code does not look. *)
ASSUME NumbersAssumption ==
  /\ First \in Nat /\ Last \in Nat /\ First <= Last
  /\ InitialChunk \in Nat /\ minChunkCPU \in Nat \ {0} /\ numberPoints \in Nat
  /\ \A c \in FitChunks : c \in Nat \ {0}
  /\ \A s \in Speeds : s \in Nat \ {0}
  /\ MAXPOINTS \in Nat /\ Last - First < MAXPOINTS
  /\ MaxCalls \in Nat

VARIABLES
  numGPUs,        (* Third argument of the program.                        *)
  inCall, calls,  (* Is pipe.run in progress, and how many calls were made. *)
  begin,          (* First iteration nobody holds yet.                     *)
  eof,            (* The serial stage has returned NULL.                   *)
  nCPUs,          (* Of the serial stage: cores, and accelerators parked.  *)
  refused,        (* Thread in the serial stage that was refused a token.  *)
  gpuStatus,      (* The tokens.                                           *)
  stopConditionModeOn,
  pc, bundle,     (* Where each thread is, and the Bundle it holds.        *)
  gpuThroughput, cpuThroughput, fG, fGvalid,
  stablePhase,    (* FALSE is explorationPhase.                            *)
  firstmeasurement, measurements, x, (* The points measured, by size.      *)
  chunkGPU,       (* Size of the next accelerator chunk.                   *)
  times           (* How often each iteration was run in this call.        *)

call == <<numGPUs, inCall, calls>>
speed == <<gpuThroughput, cpuThroughput, fG, fGvalid>>
points == <<firstmeasurement, measurements, x>>
model == <<stablePhase, points, chunkGPU>>
vars == <<call, begin, eof, nCPUs, refused, gpuStatus, stopConditionModeOn, pc,
          bundle, speed, model, times>>

CPU == "CPU"
GPU == "GPU"
Space == First..(Last - 1)
iterationSpace == Last - First
Remaining == Last - begin
numCPUs == Cardinality(Threads) - numGPUs

NoBundle == [begin |-> First, end |-> First, type |-> "none"]
Held(t) == bundle[t].begin..(bundle[t].end - 1)
Length(t) == bundle[t].end - bundle[t].begin
NoPoints == [i \in 0..(MAXPOINTS - 1) |-> 0]

Min2(a, b) == IF a < b THEN a ELSE b
Max2(a, b) == IF a < b THEN b ELSE a

(* a / fG, as an integer. *)
PerSpeed(a) == (a * fG[2]) \div fG[1]

-----------------------------------------------------------------------------
(* Initialize has run, no call yet. *)
Init ==
  /\ numGPUs \in GPUCounts
  /\ inCall = FALSE /\ calls = 0
  /\ begin = Last /\ eof = TRUE
  /\ nCPUs = numCPUs
  /\ refused = NoThread
  /\ gpuStatus = 0
  /\ stopConditionModeOn = FALSE
  /\ pc = [t \in Threads |-> "free"]
  /\ bundle = [t \in Threads |-> NoBundle]
  /\ gpuThroughput = 0 /\ cpuThroughput = 0
  /\ fG = <<1, 1>> /\ fGvalid = FALSE
  /\ stablePhase = FALSE
  /\ firstmeasurement = TRUE /\ measurements = 0 /\ x = NoPoints
  /\ chunkGPU = 1
  /\ times = [i \in Space |-> 1]

(* heterogeneous_parallel_for up to pipe.run, the new MySerialFilter       *)
(* included: the accelerators that were parked are free again.             *)
ParallelForCall ==
  /\ ~ inCall
  /\ calls < MaxCalls
  /\ inCall' = TRUE /\ calls' = calls + 1
  /\ begin' = First /\ eof' = FALSE
  /\ nCPUs' = numCPUs
  /\ gpuStatus' = numGPUs
  /\ stopConditionModeOn' = FALSE
  /\ chunkGPU' = IF calls = 0 THEN Max2(InitialChunk, 1) ELSE chunkGPU
  /\ times' = [i \in Space |-> 0]
  /\ UNCHANGED <<numGPUs, refused, pc, bundle, speed, stablePhase, points>>

-----------------------------------------------------------------------------
(* The serial stage.                                                       *)

(* Any free thread may enter until the stage said NULL, one at a time.     *)
MayEnter(t) == inCall /\ ~ eof /\ refused = NoThread /\ pc[t] = "free"

(* Faulty variant: the end of a chunk taken for its last iteration. *)
Claim_Inclusive(t, e, type) ==
  /\ bundle' = [bundle EXCEPT ![t] = [begin |-> begin, end |-> Min2(e, Last), type |-> type]]
  /\ begin' = Min2(e + 1, Last)
  /\ pc' = [pc EXCEPT ![t] = "run"]

(* Faulty variant: the last chunk reaches past the end. *)
Claim_Unclipped(t, e, type) ==
  /\ bundle' = [bundle EXCEPT ![t] = [begin |-> begin, end |-> e, type |-> type]]
  /\ begin' = e
  /\ pc' = [pc EXCEPT ![t] = "run"]

(* The thread leaves the serial stage with [begin, e), or what is left. *)
Claim(t, e, type) ==
  /\ bundle' = [bundle EXCEPT ![t] = [begin |-> begin, end |-> Min2(e, Last), type |-> type]]
  /\ begin' = Min2(e, Last)
  /\ pc' = [pc EXCEPT ![t] = "run"]

(* "Checking whether there are enough remaining iterations": would the     *)
(* cores be done with the rest before the accelerator with its chunk?  The *)
(* right side is a quotient of integers.                                   *)
GPU_Stop_Condition ==
  LET rest == Remaining - chunkGPU
      quotient == IF rest >= 0 THEN rest \div nCPUs ELSE - ((- rest) \div nCPUs)
  IN  nCPUs > 1 /\ fGvalid /\ chunkGPU * fG[2] > quotient * fG[1]

(* --gpuStatus >= 0: the thread has a token. *)
TakeToken(t) ==
  /\ MayEnter(t)
  /\ begin < Last
  /\ gpuStatus > 0
  /\ gpuStatus' = gpuStatus - 1
  /\ stopConditionModeOn' =
       IF stablePhase THEN GPU_Stop_Condition ELSE stopConditionModeOn
  /\ UNCHANGED <<call, eof, refused, speed, model, times>>

(* A chunk of the current size. *)
GiveChunk(t) ==
  /\ TakeToken(t)
  /\ ~ stopConditionModeOn'
  /\ Claim(t, begin + chunkGPU, GPU)
  /\ UNCHANGED nCPUs

(* The concord: getLastChunks finds a chunk for the accelerator. *)
ConcordGPU(t) ==
  /\ TakeToken(t)
  /\ stopConditionModeOn'
  /\ \E lastChGPU \in 1..Remaining : Claim(t, begin + lastChGPU, GPU)
  /\ UNCHANGED nCPUs

(* Faulty variant: the parked accelerator's thread is not counted. *)
ConcordCPU_NotCounted(t) ==
  /\ TakeToken(t)
  /\ stopConditionModeOn'
  /\ Claim(t, begin + Remaining \div nCPUs, CPU)
  /\ UNCHANGED nCPUs

(* The concord without the accelerator: its token is kept, so that it is   *)
(* parked for the rest of the call.                                        *)
ConcordCPU(t) ==
  /\ TakeToken(t)
  /\ stopConditionModeOn'
  /\ Claim(t, begin + Remaining \div nCPUs, CPU)
  /\ nCPUs' = nCPUs + 1

(* --gpuStatus < 0: refused; the counter is one short until it is repaid.  *)
RefuseToken(t) ==
  /\ MayEnter(t)
  /\ begin < Last
  /\ gpuStatus <= 0
  /\ gpuStatus' = gpuStatus - 1
  /\ refused' = t
  /\ UNCHANGED <<call, begin, eof, nCPUs, stopConditionModeOn, pc, bundle,
                 speed, model, times>>

(* chunkCPU, as the serial stage computes it; before fG is known it still  *)
(* is what Initialize gave it.                                             *)
NextChunkCPU ==
  IF ~ stopConditionModeOn /\ numGPUs > 0
    THEN IF fGvalid
           THEN Max2(Min2(PerSpeed(chunkGPU),
                          (Remaining * fG[2]) \div (fG[1] + nCPUs * fG[2])),
                     minChunkCPU)
           ELSE minChunkCPU
    ELSE Max2(Remaining \div (nCPUs + 1), minChunkCPU)

(* gpuStatus++, and the refused thread works on its core. *)
SerialCPU(t) ==
  /\ refused = t
  /\ refused' = NoThread
  /\ gpuStatus' = gpuStatus + 1
  /\ Claim(t, begin + NextChunkCPU, CPU)
  /\ UNCHANGED <<call, eof, nCPUs, stopConditionModeOn, speed, model, times>>

(* Nothing left: NULL ends the input. *)
SerialEnd(t) ==
  /\ MayEnter(t)
  /\ begin >= Last
  /\ eof' = TRUE
  /\ UNCHANGED <<call, begin, nCPUs, refused, gpuStatus, stopConditionModeOn,
                 pc, bundle, speed, model, times>>

-----------------------------------------------------------------------------
(* The parallel stage.                                                     *)

(* The body runs every iteration of the chunk once more. *)
RunChunk(t) ==
  times' = [i \in Space |-> IF i \in Held(t) THEN times[i] + 1 ELSE times[i]]

(* "It doesn't update gpuThroughput in the last scheduling interval". *)
Measures(t) == ~ stopConditionModeOn \/ bundle[t].begin = 0

(* The throughput of len iterations: 0 if there are none. *)
Throughputs(len) == IF len = 0 THEN {0} ELSE Speeds

(* executeOnGPU up to the points: run the chunk, and take its throughput.  *)
OperatorGPU(t) ==
  /\ pc[t] = "run" /\ bundle[t].type = GPU
  /\ RunChunk(t)
  /\ IF Measures(t)
       THEN /\ gpuThroughput' \in Throughputs(Length(t))
            /\ fG' = IF cpuThroughput > 0 THEN <<gpuThroughput', cpuThroughput>> ELSE fG
            /\ fGvalid' = (fGvalid \/ cpuThroughput > 0)
       ELSE UNCHANGED <<gpuThroughput, fG, fGvalid>>
  /\ pc' = [pc EXCEPT ![t] = "measure"]
  /\ UNCHANGED <<call, begin, eof, nCPUs, refused, gpuStatus,
                 stopConditionModeOn, bundle, cpuThroughput, model>>

(* The thread leaves the model of the points. *)
Measuring(t) ==
  /\ pc[t] = "measure"
  /\ pc' = [pc EXCEPT ![t] = "token"]
  /\ UNCHANGED <<call, begin, eof, nCPUs, refused, gpuStatus,
                 stopConditionModeOn, bundle, speed, times>>

(* Faulty variant: a point is stored without comparing it.                 *)
Increasing_Unchecked(t) == ~ stablePhase /\ ~ stopConditionModeOn

(* "it only stores increasing chunksize points". *)
Increasing(t) ==
  ~ stablePhase /\ x[measurements] < Length(t) /\ ~ stopConditionModeOn

(* Its point is the first one, or the next. *)
Point == IF firstmeasurement THEN measurements ELSE measurements + 1
Stored(t) == [x EXCEPT ![Point] = Length(t)]

(* Exploration goes on, with a chunk twice as long. *)
Explore(t) ==
  /\ Measuring(t)
  /\ Increasing(t)
  /\ Length(t) < iterationSpace
  /\ measurements' = Point
  /\ firstmeasurement' = FALSE
  /\ x' = Stored(t)
  /\ chunkGPU' = Min2(2 * chunkGPU, iterationSpace)
  /\ UNCHANGED stablePhase

(* The throughput fell although there are few points: exploration starts   *)
(* again, from a tenth of the first chunk.                                 *)
Restart(t) ==
  /\ Measuring(t)
  /\ Increasing(t)
  /\ Point > 0 /\ Point < numberPoints
  /\ measurements' = 0
  /\ firstmeasurement' = TRUE
  /\ x' = NoPoints
  /\ chunkGPU' = Max2(x[0] \div 10, 1)
  /\ UNCHANGED stablePhase

(* The throughput is flat, two points before the last, or the whole space  *)
(* is covered: the points are fitted.                                      *)
Stabilise(t) ==
  LET covered == Length(t) >= iterationSpace
  IN  /\ Measuring(t)
      /\ Increasing(t)
      /\ covered \/ Point >= numberPoints + 2
      /\ measurements' = IF covered THEN Point ELSE Point - 2
      /\ firstmeasurement' = FALSE
      /\ x' = Stored(t)
      /\ stablePhase' = TRUE
      /\ chunkGPU' \in FitChunks

(* In the stable phase the last point follows the chunks. *)
Refit(t) ==
  /\ Measuring(t)
  /\ stablePhase /\ ~ stopConditionModeOn
  /\ x' = [x EXCEPT ![measurements] = Length(t)]
  /\ chunkGPU' \in FitChunks
  /\ UNCHANGED <<stablePhase, firstmeasurement, measurements>>

(* Neither. *)
KeepPoints(t) ==
  /\ Measuring(t)
  /\ ~ Increasing(t)
  /\ ~ stablePhase \/ stopConditionModeOn
  /\ UNCHANGED model

(* "To release the GPU token", and delete bundle. *)
ReleaseToken(t) ==
  /\ pc[t] = "token"
  /\ gpuStatus' = gpuStatus + 1
  /\ pc' = [pc EXCEPT ![t] = "free"]
  /\ bundle' = [bundle EXCEPT ![t] = NoBundle]
  /\ UNCHANGED <<call, begin, eof, nCPUs, refused, stopConditionModeOn, speed,
                 model, times>>

(* executeOnCPU up to its throughput, one for all cores. *)
OperatorCPU(t) ==
  /\ pc[t] = "run" /\ bundle[t].type = CPU
  /\ RunChunk(t)
  /\ cpuThroughput' \in Throughputs(Length(t))
  /\ pc' = [pc EXCEPT ![t] = "rate"]
  /\ UNCHANGED <<call, begin, eof, nCPUs, refused, gpuStatus,
                 stopConditionModeOn, bundle, gpuThroughput, fG, fGvalid, model>>

(* Faulty variant: a core waits for the first throughput of an accelerator. *)
UpdateFG_Waits(t) ==
  /\ pc[t] = "rate"
  /\ gpuThroughput > 0
  /\ IF Measures(t)
       THEN fG' = <<gpuThroughput, cpuThroughput>> /\ fGvalid' = TRUE
       ELSE UNCHANGED <<fG, fGvalid>>
  /\ pc' = [pc EXCEPT ![t] = "free"]
  /\ bundle' = [bundle EXCEPT ![t] = NoBundle]
  /\ UNCHANGED <<call, begin, eof, nCPUs, refused, gpuStatus,
                 stopConditionModeOn, gpuThroughput, cpuThroughput, model, times>>

(* fG, from the throughputs of that moment. *)
UpdateFG(t) ==
  /\ pc[t] = "rate"
  /\ IF gpuThroughput > 0 /\ Measures(t)
       THEN fG' = <<gpuThroughput, cpuThroughput>> /\ fGvalid' = TRUE
       ELSE UNCHANGED <<fG, fGvalid>>
  /\ pc' = [pc EXCEPT ![t] = "free"]
  /\ bundle' = [bundle EXCEPT ![t] = NoBundle]
  /\ UNCHANGED <<call, begin, eof, nCPUs, refused, gpuStatus,
                 stopConditionModeOn, gpuThroughput, cpuThroughput, model, times>>

(* pipe.run returns when its input has ended and every token is back. *)
PipeReturn ==
  /\ inCall /\ eof
  /\ \A t \in Threads : pc[t] = "free"
  /\ inCall' = FALSE
  /\ UNCHANGED <<numGPUs, calls, begin, eof, nCPUs, refused, gpuStatus,
                 stopConditionModeOn, pc, bundle, speed, model, times>>

(* A free thread enters the serial stage and takes one of its branches. *)
Enter(t) ==
  GiveChunk(t) \/ ConcordGPU(t) \/ ConcordCPU(t) \/ RefuseToken(t) \/ SerialEnd(t)

(* What a thread that is in a stage does next. *)
Work(t) ==
  \/ SerialCPU(t) \/ OperatorGPU(t) \/ OperatorCPU(t) \/ UpdateFG(t)
  \/ Explore(t) \/ Restart(t) \/ Stabilise(t) \/ Refit(t) \/ KeepPoints(t)
  \/ ReleaseToken(t)

Next ==
  \/ ParallelForCall
  \/ \E t \in Threads : GiveChunk(t)
  \/ \E t \in Threads : ConcordGPU(t)
  \/ \E t \in Threads : ConcordCPU(t)
  \/ \E t \in Threads : RefuseToken(t)
  \/ \E t \in Threads : SerialCPU(t)
  \/ \E t \in Threads : SerialEnd(t)
  \/ \E t \in Threads : OperatorGPU(t)
  \/ \E t \in Threads : Explore(t)
  \/ \E t \in Threads : Restart(t)
  \/ \E t \in Threads : Stabilise(t)
  \/ \E t \in Threads : Refit(t)
  \/ \E t \in Threads : KeepPoints(t)
  \/ \E t \in Threads : ReleaseToken(t)
  \/ \E t \in Threads : OperatorCPU(t)
  \/ \E t \in Threads : UpdateFG(t)
  \/ PipeReturn

Spec == Init /\ [][Next]_vars

(* TBB runs the serial stage on some free thread as long as there is       *)
(* input, a thread in a stage goes on, and pipe.run returns when it can.   *)
FairSpec ==
  /\ Spec
  /\ WF_vars(\E t \in Threads : Enter(t))
  /\ \A t \in Threads : WF_vars(Work(t))
  /\ WF_vars(PipeReturn)

-----------------------------------------------------------------------------
TypeOK ==
  /\ numGPUs \in GPUCounts
  /\ inCall \in BOOLEAN
  /\ calls \in 0..MaxCalls
  /\ begin \in First..Last
  /\ eof \in BOOLEAN
  /\ nCPUs \in Nat
  /\ refused \in Threads \union {NoThread}
  /\ gpuStatus \in -1..1
  /\ stopConditionModeOn \in BOOLEAN
  /\ pc \in [Threads -> {"free", "run", "measure", "token", "rate"}]
  /\ bundle \in [Threads -> [begin : First..Last, end : First..Last,
                             type : {"none", CPU, GPU}]]
  /\ gpuThroughput \in Nat /\ cpuThroughput \in Nat
  /\ fG \in (Nat \ {0}) \X Nat
  /\ fGvalid \in BOOLEAN
  /\ stablePhase \in BOOLEAN
  /\ firstmeasurement \in BOOLEAN
  /\ measurements \in 0..(MAXPOINTS - 1)
  /\ x \in [0..(MAXPOINTS - 1) -> Nat]
  /\ chunkGPU \in Nat \ {0}
  /\ times \in [Space -> Nat]

OnGPU == {t \in Threads : bundle[t].type = GPU}
Parked == nCPUs - numCPUs

(* No token is lost or made, however the two stages interleave: those in   *)
(* gpuStatus, those of the chunks under way, the one a refused thread owes *)
(* and those of parked accelerators, which the serial stage counts as      *)
(* cores from then on, are numGPUs.                                        *)
TokensConserved ==
  calls > 0 =>
    gpuStatus + Cardinality(OnGPU) + Parked =
      numGPUs - (IF refused = NoThread THEN 0 ELSE 1)

(* The one accelerator never has two chunks. *)
OneChunkOnAccelerator == Cardinality(OnGPU) <= numGPUs

(* Each iteration in front of begin that is no longer held, and no other,  *)
(* has been run once, in every phase.                                      *)
RunOnce ==
  LET Waiting(i) == \E t \in Threads : pc[t] = "run" /\ i \in Held(t)
  IN  \A i \in Space : times[i] = IF i < begin /\ ~ Waiting(i) THEN 1 ELSE 0

(* "it only stores increasing chunksize points" (line 663) through         *)
(* explorations, restarts and the stable phase of all calls: the points of *)
(* the exploration grow, none of them is 0, whose logarithm is taken, and  *)
(* a restart leaves none behind.  In the stable phase the last point       *)
(* follows the chunks, whatever their length (line 757); it may repeat or  *)
(* fall below the one before, but no other point moves: every slope but    *)
(* that of the last interval divides by a difference that is not 0.        *)
PointsIncrease ==
  /\ \A i, j \in 0..measurements :
       i < j /\ (stablePhase => j < measurements) => x[i] < x[j]
  /\ ~ firstmeasurement => \A i \in 0..measurements : x[i] > 0
  /\ firstmeasurement => ~ stablePhase /\ measurements = 0 /\ x[0] = 0
  /\ ~ stablePhase => \A i \in (measurements + 1)..(MAXPOINTS - 1) : x[i] = 0

(* The scheduler implements the promise of heterogeneous_parallel_for. *)
PF == INSTANCE ParallelFor WITH active <- inCall
Implements == PF!Spec

(* Every call returns, although parked and fast accelerators leave the     *)
(* cores chunks that may be empty.                                         *)
CallReturns == inCall ~> ~ inCall

(* Upper bound on the steps a call still takes.  An iteration not yet      *)
(* taken costs four: on a core a refusal, the chunk, its run and the       *)
(* update of fG, on the accelerator the chunk, its run, its point and the  *)
(* release of the token.  An accelerator that is not parked may still hand *)
(* its core an empty chunk.                                                *)
StepsLeft ==
  4 * Remaining - (IF refused = NoThread THEN 0 ELSE 1)
    + 3 * (numGPUs - Parked)
    + Cardinality({t \in Threads : pc[t] # "free"})
    + Cardinality({t \in Threads : pc[t] = "run"})
    + Cardinality({t \in Threads : pc[t] \in {"run", "measure"} /\ bundle[t].type = GPU})
    + (IF eof THEN 0 ELSE 1) + (IF inCall THEN 1 ELSE 0)

(* No call goes round in circles, however often the exploration starts     *)
(* again: each step of any thread brings the return nearer, also when a    *)
(* refused thread and a released token cross, or the concord parks an      *)
(* accelerator and gives its core nothing.                                 *)
CallShortens == [][inCall => StepsLeft' < StepsLeft]_vars

=============================================================================
