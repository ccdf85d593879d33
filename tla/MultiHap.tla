------------------------------- MODULE MultiHap -------------------------------
(***************************************************************************)
(* The LogFit scheduler of the ZCU102 hosts (Schedulers/MultiHap.h, class  *)
(* Hap).                                                                   *)
(*                                                                         *)
(* It is the two-stage pipeline of MultiDynamic, with accelerator chunks   *)
(* that are found by measuring.  In the exploration phase every chunk is   *)
(* twice as long as the one before, and each accelerator stores the size   *)
(* of its last chunk as a point of x.  When the throughput is flat, or a   *)
(* chunk has covered the space, a logarithm is fitted through the points:  *)
(* from then on, the stable phase, every chunk comes from the fit.  Near   *)
(* the end of a call the accelerators are retired one by one: with a last  *)
(* aligned chunk, or, once the stop condition holds, with an even part of  *)
(* what remains ("concord").                                               *)
(*                                                                         *)
(* Of a throughput the model keeps what the control depends on: not        *)
(* measured (-1), of an empty chunk (0) or positive (1).  Which throughput *)
(* is measured, and so whether the curve is flat, what the fit gives, how  *)
(* fast an accelerator is relative to a core (fG) and which part of the    *)
(* rest it gets in the concord, is open.                                   *)
(***************************************************************************)
EXTENDS Integers, FiniteSets

CONSTANTS
  Threads,      (* The TBB threads, task_scheduler_init(nCPUs + nGPUs).    *)
  GPUCounts,    (* The values a program may give Params.numgpus; the       *)
                (* other threads are numcpus.                              *)
  First, Last,  (* The iteration space of a call.                          *)
  CHUNKALIGN,   (* CHUNKGPUALIGN and CHUNKCPUALIGN: every program gives    *)
                (* both the same value.                                    *)
  InitialChunk, (* (end-begin)*chunkGPU_initratio.                         *)
  NumberPoints, (* numberPoints (4).                                       *)
  FitChunks,    (* Chunks the fit may give.                                *)
  SpeedUps,     (* Values fG may have, pairs gpu/cpu.                      *)
  BeforeX,      (* Values the memory in front of x may hold.               *)
  MAXPOINTS,    (* Length of x (1024).                                     *)
  MaxCalls      (* Bound on the number of calls (time steps).              *)

ASSUME ThreadsAssumption ==
  /\ IsFiniteSet(Threads)
  /\ GPUCounts \subseteq 0..Cardinality(Threads)

ASSUME SpaceAssumption ==
  /\ First \in Nat /\ Last \in Nat /\ First <= Last
  /\ CHUNKALIGN \in Nat \ {0}
  /\ InitialChunk \in Nat
  /\ NumberPoints \in Nat
  /\ \A c \in FitChunks : c \in Nat /\ c >= CHUNKALIGN /\ c % CHUNKALIGN = 0
  /\ \A fG \in SpeedUps : fG[1] \in Nat \ {0} /\ fG[2] \in Nat \ {0}
  /\ \A v \in BeforeX : v \in Nat

(* x is long enough if no more than MAXPOINTS iterations are handed out;   *)
(* the code does not look.                                                 *)
ASSUME PointsAssumption ==
  /\ MaxCalls \in Nat /\ MAXPOINTS \in Nat \ {0}
  /\ MaxCalls * (Last - First) < MAXPOINTS

VARIABLES
  nGPUs,          (* Params.numgpus.                                       *)
  inCall,         (* Is pipe.run in progress?                              *)
  calls,          (* How many calls were made.                             *)
  begin,          (* First iteration nobody holds yet.                     *)
  eof,            (* The serial stage has returned NULL.                   *)
  nAcc,           (* Accelerators not yet bound to a thread.               *)
  myAccId,        (* Thread-local: its accelerator, 0 if it has none.      *)
  gpuStatus,      (* 1 for an accelerator that is active in this call.     *)
  anyFPGArunning, (* How many are.                                         *)
  chunkGPU,       (* Size of the next accelerator chunk.                   *)
  chunkCPU,       (* Thread-local: size of its next CPU chunk.             *)
  stablePhase,    (* FALSE is explorationPhase.                            *)
  stopConditionModeOn,
  fGvalid,        (* Was fG ever computed from two throughputs?            *)
  gpuThroughput,  (* Of each accelerator: -1, 0 or 1, as said above.       *)
  cpuThroughput,  (* Thread-local: of its last CPU chunk, 0 or 1.          *)
  lastcpuThroughput,  (* Of the last CPU chunk of any thread.              *)
  lastchunkGPU,   (* Thread-local: size of its last measured chunk.        *)
  gpuMeasurement, (* Thread-local: the point its last chunk is for.        *)
  x,              (* Sizes of the chunks measured, 0 for a gap; x[-1] is   *)
                  (* read although it is not part of the array.            *)
  lastmeasurements, nextmeasurements, (* Last point stored, next point     *)
                  (* given out.                                            *)
  bundle,         (* The Bundle a thread holds.                            *)
  times           (* How often each iteration was run in this call.        *)

callVars == <<nGPUs, inCall, calls>>
measured == <<gpuThroughput, cpuThroughput, lastcpuThroughput, lastchunkGPU>>
fit == <<x, lastmeasurements, stablePhase, stopConditionModeOn>>
given == <<gpuMeasurement, nextmeasurements, chunkGPU>>
active == <<gpuStatus, anyFPGArunning>>

vars == <<callVars, begin, eof, nAcc, myAccId, active, chunkCPU, fGvalid,
          measured, fit, given, bundle, times>>

CPU == 0
Space == First..(Last - 1)
iterationSpace == Last - First
Remaining == Last - begin
Points == -1..(MAXPOINTS - 1)
nCPUs == Cardinality(Threads) - nGPUs

NoBundle == [begin |-> First, end |-> First, type |-> -1]
Busy(t) == bundle[t].type # -1
Held(t) == bundle[t].begin..(bundle[t].end - 1)

Min2(a, b) == IF a < b THEN a ELSE b
Max2(a, b) == IF a < b THEN b ELSE a

(* Integer division as the processor does it: by 0 it gives 0.             *)
Div(a, b) == IF b = 0 THEN 0 ELSE a \div b

(* Round to a multiple of CHUNKALIGN, but never below one. *)
ALIGN(a) == Max2(CHUNKALIGN, ((2 * a + CHUNKALIGN) \div (2 * CHUNKALIGN)) * CHUNKALIGN)

(* Faulty variant: rounds to the nearest multiple. *)
ALIGNFLOOR_Rounds(a) == ((2 * a + CHUNKALIGN) \div (2 * CHUNKALIGN)) * CHUNKALIGN

(* Round down to a multiple of CHUNKALIGN, possibly to 0. *)
ALIGNFLOOR(a) == (a \div CHUNKALIGN) * CHUNKALIGN

minChunkCPU == ALIGN(Min2(CHUNKALIGN, iterationSpace \div 100))

-----------------------------------------------------------------------------
(* The constructor of Hap has run, no call yet. *)
Init ==
  /\ nGPUs \in GPUCounts
  /\ inCall = FALSE
  /\ calls = 0
  /\ begin = Last
  /\ eof = TRUE
  /\ nAcc = nGPUs
  /\ myAccId = [t \in Threads |-> 0]
  /\ gpuStatus = [i \in 1..nGPUs |-> 0]
  /\ anyFPGArunning = 0
  /\ chunkGPU = CHUNKALIGN
  /\ chunkCPU = [t \in Threads |-> 0]
  /\ stablePhase = FALSE
  /\ stopConditionModeOn = FALSE
  /\ fGvalid = FALSE
  /\ gpuThroughput = [i \in 1..nGPUs |-> -1]
  /\ cpuThroughput = [t \in Threads |-> 0]
  /\ lastcpuThroughput = 0
  /\ lastchunkGPU = [t \in Threads |-> 0]
  /\ gpuMeasurement = [t \in Threads |-> 0]
  /\ \E v \in BeforeX : x = [i \in Points |-> IF i = -1 THEN v ELSE 0]
  /\ lastmeasurements = 0 /\ nextmeasurements = 0
  /\ bundle = [t \in Threads |-> NoBundle]
  /\ times = [i \in Space |-> 1]

(* heterogeneous_parallel_for up to pipe.run: every accelerator is active  *)
(* again; the very first call sets the first chunk.                        *)
ParallelForCall ==
  /\ ~ inCall
  /\ calls < MaxCalls
  /\ inCall' = TRUE
  /\ calls' = calls + 1
  /\ begin' = First
  /\ eof' = FALSE
  /\ gpuStatus' = [i \in 1..nGPUs |-> 1]
  /\ anyFPGArunning' = nGPUs
  /\ chunkGPU' = IF calls = 0 THEN ALIGN(Max2(InitialChunk, 1)) ELSE chunkGPU
  /\ stopConditionModeOn' = FALSE
  /\ times' = [i \in Space |-> 0]
  /\ UNCHANGED <<nGPUs, nAcc, myAccId, chunkCPU, fGvalid, measured, x,
                 lastmeasurements, stablePhase, gpuMeasurement,
                 nextmeasurements, bundle>>

-----------------------------------------------------------------------------
(* What the points say: the calculations an active accelerator's thread    *)
(* makes in the serial stage, as the set of their possible outcomes.       *)

Fit(points, last, stable, chunk) ==
  [x |-> points, last |-> last, stable |-> stable, chunk |-> chunk]

(* Faulty variant: a point is stored without comparing it.                 *)
Increasing_Unchecked(t) == TRUE

(* "it only stores increasing chunksize points". *)
Increasing(t) ==
  /\ x[lastmeasurements] < lastchunkGPU[t]
  /\ x[gpuMeasurement[t] - 1] < lastchunkGPU[t]
  /\ ~ stopConditionModeOn

(* Exploration: the point is stored; without gaps and with enough of them  *)
(* the curve may be found flat, two points before the last.                *)
Explored(t) ==
  LET points == [x EXCEPT ![gpuMeasurement[t]] = lastchunkGPU[t]]
      last == Max2(lastmeasurements, gpuMeasurement[t])
      covered == points[last] >= iterationSpace
      filledOK == \A k \in 0..(last - 1) : points[k] # 0
      mayBeFlat == filledOK /\ last >= NumberPoints + 2
  IN  {Fit(points, last, FALSE, chunkGPU) : k \in IF covered THEN {} ELSE {0}}
      \union
      {Fit(points, IF covered THEN last ELSE last - 2, TRUE, c) :
         c \in IF covered \/ mayBeFlat THEN FitChunks ELSE {}}

(* In the stable phase the last point follows the chunks of the fit.       *)
Refits(t) == ~ stopConditionModeOn /\ gpuMeasurement[t] = lastmeasurements

(* For a thread whose accelerator is a. *)
Fits(t, a) ==
  IF gpuThroughput[a] = -1 THEN {Fit(x, lastmeasurements, stablePhase, chunkGPU)}
  ELSE IF ~ stablePhase /\ Increasing(t) THEN Explored(t)
  ELSE IF stablePhase /\ Refits(t)
    THEN {Fit([x EXCEPT ![lastmeasurements] = lastchunkGPU[t]],
              lastmeasurements, TRUE, c) : c \in FitChunks}
  ELSE {Fit(x, lastmeasurements, stablePhase, chunkGPU)}

(* GPU_Stop_Condition; the quotient is of integers. *)
GPU_Stop_Condition(chunk) ==
  \/ chunk > Remaining
  \/ begin \div Remaining = 0 /\ chunk * anyFPGArunning > Remaining

-----------------------------------------------------------------------------
(* The serial stage.                                                       *)

(* Any free thread may enter until the stage said NULL, one at a time.     *)
MayEnter(t) == inCall /\ ~ eof /\ ~ Busy(t)

(* Faulty variant: the accelerator stays free. *)
BindAccelerator_Kept(t) ==
  /\ myAccId' = IF nAcc > 0 /\ myAccId[t] = 0 THEN [myAccId EXCEPT ![t] = nAcc] ELSE myAccId
  /\ UNCHANGED nAcc

(* A thread without an accelerator is bound to a free one for good. *)
BindAccelerator(t) ==
  IF nAcc > 0 /\ myAccId[t] = 0
    THEN /\ myAccId' = [myAccId EXCEPT ![t] = nAcc]
         /\ nAcc' = nAcc - 1
    ELSE UNCHANGED <<myAccId, nAcc>>

(* Its accelerator, if it has one that is active. *)
Drives(t, a) == myAccId'[t] = a /\ a # 0 /\ gpuStatus[a] = 1

(* Faulty variant: the end of a chunk taken for its last iteration. *)
Claim_Inclusive(t, e, type) ==
  /\ bundle' = [bundle EXCEPT ![t] = [begin |-> begin, end |-> e, type |-> type]]
  /\ begin' = e + 1

(* Every branch of the serial stage ends by taking [begin, e).             *)
Claim(t, e, type) ==
  /\ bundle' = [bundle EXCEPT ![t] = [begin |-> begin, end |-> e, type |-> type]]
  /\ begin' = e

(* The accelerator branch up to the choice of the chunk. *)
Adopt(t, a, f) ==
  /\ MayEnter(t)
  /\ begin < Last
  /\ BindAccelerator(t)
  /\ Drives(t, a)
  /\ f \in Fits(t, a)
  /\ x' = f.x
  /\ lastmeasurements' = f.last
  /\ stablePhase' = f.stable
  /\ stopConditionModeOn' =
       (stopConditionModeOn \/ (f.stable /\ GPU_Stop_Condition(f.chunk)))
  /\ UNCHANGED <<callVars, eof, fGvalid, measured, times>>

(* Faulty variant: in exploration two chunks are for the same point.       *)
Number_Twice(t, f) ==
  /\ nextmeasurements' = nextmeasurements
  /\ chunkGPU' = IF f.stable THEN f.chunk ELSE Min2(2 * f.chunk, iterationSpace)

(* In exploration a chunk is for the next point, and the next chunk is     *)
(* twice as long.                                                          *)
Number(t, f) ==
  /\ nextmeasurements' = IF f.stable THEN nextmeasurements ELSE nextmeasurements + 1
  /\ chunkGPU' = IF f.stable THEN f.chunk ELSE Min2(2 * f.chunk, iterationSpace)

(* Faulty variant: the counter is left alone. *)
Retire_StatusOnly(a) ==
  /\ gpuStatus' = [gpuStatus EXCEPT ![a] = 0]
  /\ UNCHANGED anyFPGArunning

(* gpuStatus[a]=0 and anyFPGArunning--. *)
Retire(a) ==
  /\ gpuStatus' = [gpuStatus EXCEPT ![a] = 0]
  /\ anyFPGArunning' = anyFPGArunning - 1

(* A chunk that fits into what is left. *)
GiveChunk(t, a, f) ==
  /\ Adopt(t, a, f)
  /\ ~ stopConditionModeOn'
  /\ begin + f.chunk <= Last
  /\ Claim(t, begin + f.chunk, a)
  /\ gpuMeasurement' =
       [gpuMeasurement EXCEPT ![t] = IF f.stable THEN f.last ELSE nextmeasurements]
  /\ Number(t, f)
  /\ UNCHANGED <<active, chunkCPU>>

(* Not enough left: the accelerator retires with the aligned rest.         *)
GiveTail(t, a, f) ==
  /\ Adopt(t, a, f)
  /\ ~ stopConditionModeOn'
  /\ begin + f.chunk > Last
  /\ ALIGNFLOOR(Remaining) > 0
  /\ Claim(t, begin + ALIGNFLOOR(Remaining), a)
  /\ gpuMeasurement' = [gpuMeasurement EXCEPT ![t] = nextmeasurements]
  /\ Number(t, f)
  /\ Retire(a)
  /\ UNCHANGED chunkCPU

(* Less than an aligned chunk left: the accelerator retires, and its       *)
(* thread takes an even part for its core.                                 *)
GiveTailToCPU(t, a, f) ==
  /\ Adopt(t, a, f)
  /\ ~ stopConditionModeOn'
  /\ begin + f.chunk > Last
  /\ ALIGNFLOOR(Remaining) = 0
  /\ Claim(t, begin + Div(Remaining, nCPUs), CPU)
  /\ chunkGPU' = f.chunk
  /\ Retire(a)
  /\ UNCHANGED <<gpuMeasurement, nextmeasurements, chunkCPU>>

(* Does aproxGPUTh_multi give the concord no throughput?  The last point   *)
(* is missing, or the first one, and the chunk it is asked for is empty.   *)
NoThroughput(f) ==
  f.x[f.last] = 0 \/ (f.x[0] = 0 /\ Remaining < anyFPGArunning)

(* The concord: a last chunk, at most an even share of the active          *)
(* accelerators, which is not measured for the fit.                        *)
ConcordGPU(t, a, f) ==
  /\ Adopt(t, a, f)
  /\ stopConditionModeOn'
  /\ ~ NoThroughput(f)
  /\ \E myChunk \in 0..(Remaining \div anyFPGArunning) :
       Claim(t, Min2(begin + myChunk, Last), a)
  /\ gpuMeasurement' = [gpuMeasurement EXCEPT ![t] = nextmeasurements]
  /\ chunkGPU' = f.chunk
  /\ Retire(a)
  /\ UNCHANGED <<nextmeasurements, chunkCPU>>

(* The share of a core without accelerators, never 0. *)
CPUShare == ALIGN(Max2(Div(Remaining, nCPUs), minChunkCPU))

(* The concord for an accelerator ten times slower than a core, or of      *)
(* which nothing is known: even to a core not measured yet it then loses.  *)
ConcordCPU(t, a, f) ==
  /\ Adopt(t, a, f)
  /\ stopConditionModeOn'
  /\ lastcpuThroughput > 0 \/ NoThroughput(f)
  /\ chunkCPU' = [chunkCPU EXCEPT ![t] = CPUShare]
  /\ Claim(t, Min2(begin + CPUShare, Last), CPU)
  /\ chunkGPU' = f.chunk
  /\ Retire(a)
  /\ UNCHANGED <<gpuMeasurement, nextmeasurements>>

(* Faulty variant: no least chunk. *)
NextChunkCPU_NoMinimum(t) ==
  IF anyFPGArunning = 0 THEN {Div(Remaining, nCPUs)}
  ELSE IF fGvalid'
    THEN {Min2((chunkGPU * fG[2]) \div fG[1],
               (Remaining * fG[2]) \div (fG[1] + nCPUs * fG[2])) : fG \in SpeedUps}
  ELSE {IF chunkCPU[t] = 0 THEN minChunkCPU ELSE chunkCPU[t]}

(* Faulty variant: chunks of a core are not aligned. *)
NextChunkCPU_Unaligned(t) ==
  IF anyFPGArunning = 0 THEN {Max2(Div(Remaining, nCPUs), minChunkCPU)}
  ELSE IF fGvalid'
    THEN {Max2(Min2((chunkGPU * fG[2]) \div fG[1],
                    (Remaining * fG[2]) \div (fG[1] + nCPUs * fG[2])),
               1) : fG \in SpeedUps}
  ELSE {IF chunkCPU[t] = 0 THEN minChunkCPU ELSE chunkCPU[t]}

(* Sizes the next CPU chunk may have, for the values of fG. *)
NextChunkCPU(t) ==
  IF anyFPGArunning = 0 THEN {CPUShare}
  ELSE IF fGvalid'
    THEN {ALIGN(Max2(Min2((chunkGPU * fG[2]) \div fG[1],
                          (Remaining * fG[2]) \div (fG[1] + nCPUs * fG[2])),
                     minChunkCPU)) : fG \in SpeedUps}
  ELSE {IF chunkCPU[t] = 0 THEN minChunkCPU ELSE chunkCPU[t]}

(* Is an active accelerator's throughput known, and that of the core?      *)
Comparable(t) ==
  /\ anyFPGArunning > 0
  /\ \E i \in 1..nGPUs : gpuThroughput[i] > 0
  /\ cpuThroughput[t] > 0

(* The core branch, also for a thread whose accelerator is retired.        *)
SerialFilterCPU(t) ==
  /\ MayEnter(t)
  /\ begin < Last
  /\ BindAccelerator(t)
  /\ \A a \in 1..nGPUs : ~ Drives(t, a)
  /\ fGvalid' = (fGvalid \/ Comparable(t))
  /\ \E size \in NextChunkCPU(t) :
       /\ chunkCPU' = [chunkCPU EXCEPT ![t] = size]
       /\ Claim(t, Min2(begin + size, Last), CPU)
  /\ UNCHANGED <<callVars, eof, active, measured, fit, given, times>>

(* Nothing left: NULL ends the input. *)
SerialFilterEnd(t) ==
  /\ MayEnter(t)
  /\ begin >= Last
  /\ eof' = TRUE
  /\ UNCHANGED <<callVars, begin, nAcc, myAccId, active, chunkCPU, fGvalid,
                 measured, fit, given, bundle, times>>

-----------------------------------------------------------------------------
(* The parallel stage.                                                     *)

(* The body runs every iteration of the chunk once more, then the Bundle   *)
(* is deleted.                                                             *)
Execute(t) ==
  /\ times' = [i \in Space |-> IF i \in Held(t) THEN times[i] + 1 ELSE times[i]]
  /\ bundle' = [bundle EXCEPT ![t] = NoBundle]

Length(t) == bundle[t].end - bundle[t].begin
Sign(n) == IF n > 0 THEN 1 ELSE 0

(* "It doesn't update gpuThorughput in the last scheduling interval".      *)
executeOnGPU(t) ==
  /\ Busy(t)
  /\ bundle[t].type # CPU
  /\ Execute(t)
  /\ IF ~ stopConditionModeOn \/ bundle[t].begin = 0
       THEN /\ gpuThroughput' = [gpuThroughput EXCEPT ![bundle[t].type] = Sign(Length(t))]
            /\ lastchunkGPU' = [lastchunkGPU EXCEPT ![t] = Length(t)]
       ELSE UNCHANGED <<gpuThroughput, lastchunkGPU>>
  /\ UNCHANGED <<callVars, begin, eof, nAcc, myAccId, active, chunkCPU, fGvalid,
                 cpuThroughput, lastcpuThroughput, fit, given>>

executeOnCPU(t) ==
  /\ Busy(t)
  /\ bundle[t].type = CPU
  /\ Execute(t)
  /\ cpuThroughput' = [cpuThroughput EXCEPT ![t] = Sign(Length(t))]
  /\ lastcpuThroughput' = Sign(Length(t))
  /\ UNCHANGED <<callVars, begin, eof, nAcc, myAccId, active, chunkCPU, fGvalid,
                 gpuThroughput, lastchunkGPU, fit, given>>

(* Faulty variant: the call does not wait for the chunks under way. *)
PipeReturn_NoDrain ==
  /\ inCall /\ eof
  /\ inCall' = FALSE
  /\ UNCHANGED <<nGPUs, calls, begin, eof, nAcc, myAccId, active, chunkCPU,
                 fGvalid, measured, fit, given, bundle, times>>

(* pipe.run returns when its input has ended and every token is back. *)
PipeReturn ==
  /\ inCall /\ eof
  /\ \A t \in Threads : ~ Busy(t)
  /\ inCall' = FALSE
  /\ UNCHANGED <<nGPUs, calls, begin, eof, nAcc, myAccId, active, chunkCPU,
                 fGvalid, measured, fit, given, bundle, times>>

-----------------------------------------------------------------------------
SerialFilterGPU(t) ==
  \E a \in 1..nGPUs : \E f \in Fits(t, a) :
    \/ GiveChunk(t, a, f) \/ GiveTail(t, a, f) \/ GiveTailToCPU(t, a, f)
    \/ ConcordGPU(t, a, f) \/ ConcordCPU(t, a, f)

Next ==
  \/ ParallelForCall
  \/ \E t \in Threads : \E a \in 1..nGPUs : \E f \in Fits(t, a) : GiveChunk(t, a, f)
  \/ \E t \in Threads : \E a \in 1..nGPUs : \E f \in Fits(t, a) : GiveTail(t, a, f)
  \/ \E t \in Threads : \E a \in 1..nGPUs : \E f \in Fits(t, a) : GiveTailToCPU(t, a, f)
  \/ \E t \in Threads : \E a \in 1..nGPUs : \E f \in Fits(t, a) : ConcordGPU(t, a, f)
  \/ \E t \in Threads : \E a \in 1..nGPUs : \E f \in Fits(t, a) : ConcordCPU(t, a, f)
  \/ \E t \in Threads : SerialFilterCPU(t)
  \/ \E t \in Threads : SerialFilterEnd(t)
  \/ \E t \in Threads : executeOnGPU(t)
  \/ \E t \in Threads : executeOnCPU(t)
  \/ PipeReturn

Spec == Init /\ [][Next]_vars

(* The body returns from every chunk, and TBB hands the serial stage to    *)
(* some free thread, not to any thread in particular.                      *)
FairSpec ==
  /\ Spec
  /\ WF_vars(\E t \in Threads :
               SerialFilterGPU(t) \/ SerialFilterCPU(t) \/ SerialFilterEnd(t))
  /\ \A t \in Threads : WF_vars(executeOnGPU(t)) /\ WF_vars(executeOnCPU(t))
  /\ WF_vars(PipeReturn)

-----------------------------------------------------------------------------
TypeOK ==
  /\ nGPUs \in GPUCounts
  /\ inCall \in BOOLEAN
  /\ calls \in 0..MaxCalls
  /\ begin \in First..Last
  /\ eof \in BOOLEAN
  /\ nAcc \in 0..nGPUs
  /\ myAccId \in [Threads -> 0..nGPUs]
  /\ gpuStatus \in [1..nGPUs -> {0, 1}]
  /\ anyFPGArunning \in 0..nGPUs
  /\ chunkGPU \in Nat
  /\ chunkCPU \in [Threads -> Nat]
  /\ stablePhase \in BOOLEAN
  /\ stopConditionModeOn \in BOOLEAN
  /\ fGvalid \in BOOLEAN
  /\ gpuThroughput \in [1..nGPUs -> {-1, 0, 1}]
  /\ cpuThroughput \in [Threads -> {0, 1}]
  /\ lastcpuThroughput \in {0, 1}
  /\ lastchunkGPU \in [Threads -> Nat]
  /\ gpuMeasurement \in [Threads -> 0..MAXPOINTS]
  /\ x \in [Points -> Nat]
  /\ lastmeasurements \in 0..(MAXPOINTS - 1)
  /\ nextmeasurements \in 0..MAXPOINTS
  /\ bundle \in [Threads -> [begin : First..Last, end : First..Last, type : -1..nGPUs]]
  /\ times \in [Space -> Nat]

(* Exactly the iterations in front of begin that no thread holds have been *)
(* run, and those once, through all phases and whatever the fit gives.     *)
RunOnce ==
  \A i \in Space :
    times[i] = IF i < begin /\ \A t \in Threads : i \notin Held(t) THEN 1 ELSE 0

(* anyFPGArunning, by which the concord divides the rest, is the number of *)
(* active accelerators: each is retired once a call, on every way out.     *)
ActiveCounted ==
  calls > 0 => anyFPGArunning = Cardinality({i \in 1..nGPUs : gpuStatus[i] = 1})

(* No two accelerators measure the same point of the curve, and none a     *)
(* point already stored; afterwards the chunks that end a call, which are  *)
(* as short as it happens, are not taken for the last point of the fit.    *)
PointsApart ==
  LET Measures(t) == Busy(t) /\ bundle[t].type # CPU
  IN  /\ ~ stablePhase =>
           \A t, u \in Threads :
             /\ Measures(t) => /\ gpuMeasurement[t] < nextmeasurements
                               /\ x[gpuMeasurement[t]] = 0
             /\ Measures(t) /\ Measures(u) /\ t # u
                  => gpuMeasurement[t] # gpuMeasurement[u]
      /\ stablePhase => lastmeasurements < nextmeasurements

(* With one accelerator "it only stores increasing chunksize points" (line *)
(* 433) is true of the whole exploration: without gaps the points grow.    *)
PointsIncrease ==
  nGPUs = 1 /\ ~ stablePhase =>
    \A i, j \in 0..lastmeasurements : i < j /\ x[j] # 0 => x[i] < x[j]

(* "the scheduler will tune chunk size to lay in a 64 bytes offset block"  *)
(* (gemm_top.cpp:87): until the stop condition holds and while there is a  *)
(* whole block left, chunks begin at a block.                              *)
BlocksAligned ==
  ~ stopConditionModeOn /\ Remaining >= CHUNKALIGN => (begin - First) % CHUNKALIGN = 0

(* An accelerator has one thread, which alone gives it chunks, from its    *)
(* binding on and in every later call: no two offload to it at once.       *)
AcceleratorOwner ==
  /\ \A t, u \in Threads : myAccId[t] = myAccId[u] /\ myAccId[t] # 0 => t = u
  /\ \A t \in Threads : bundle[t].type \in {-1, CPU, myAccId[t]}

(* The scheduler implements the promise of heterogeneous_parallel_for. *)
PF == INSTANCE ParallelFor WITH active <- inCall
Implements == PF!Spec

(* Every call returns, although tails and last chunks may be empty.        *)
CallReturns == inCall ~> ~ inCall

(* Upper bound on the steps a call still takes: two for each iteration not *)
(* yet taken, the chunk and its run, and one for each chunk under way.     *)
(* Tails and last chunks may be empty, but each retires an accelerator,    *)
(* which pays for one.                                                     *)
StepsLeft ==
  2 * Remaining + 2 * anyFPGArunning + Cardinality({t \in Threads : Busy(t)})
    + (IF eof THEN 0 ELSE 1) + (IF inCall THEN 1 ELSE 0)

(* No call goes round in circles: each step of any thread brings the       *)
(* return nearer.  Doubling, fitting and rounding never make a chunk empty *)
(* but when an accelerator retires, which it does once a call.             *)
CallShortens == [][inCall => StepsLeft' < StepsLeft]_vars

=============================================================================
