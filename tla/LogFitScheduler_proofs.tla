------------------------- MODULE LogFitScheduler_proofs -------------------------
(***************************************************************************)
(* Proofs about the LogFit scheduler of the ZC702 hosts, for every number  *)
(* of threads, iteration space, first chunk, throughput and outcome of the *)
(* fit and of getLastChunks, with and without the accelerator.             *)
(***************************************************************************)
EXTENDS LogFitScheduler, Counting, FiniteSetTheorems, TLAPS

USE ThreadsAssumption, NumbersAssumption

(* What a thread still has to run: it keeps its Bundle a while longer.     *)
HeldBy == [t \in Threads |-> IF pc[t] = "run" THEN Held(t) ELSE {}]

P == INSTANCE Pipeline_proofs WITH held <- HeldBy

-----------------------------------------------------------------------------
(* The inductive invariant.                                                *)

(* A free thread has no Bundle, and a place in a stage tells its device.   *)
Places ==
  /\ \A t \in Threads : pc[t] = "free" <=> bundle[t].type = "none"
  /\ \A t \in Threads : pc[t] \in {"measure", "token"} => bundle[t].type = GPU
  /\ \A t \in Threads : pc[t] = "rate" => bundle[t].type = CPU
  /\ ~ inCall => \A t \in Threads : pc[t] = "free"

(* A refused thread is about to take a chunk for its core. *)
Refused ==
  refused # NoThread => inCall /\ ~ eof /\ begin < Last /\ pc[refused] = "free"

(* There are no tokens before the first call. *)
Started ==
  calls = 0 => ~ inCall /\ gpuStatus = 0 /\ refused = NoThread /\ Parked = 0

(* The accelerator is never given an empty chunk, which would make fG 0.   *)
Filled == \A t \in Threads : bundle[t].type = GPU => bundle[t].begin < bundle[t].end

(* The accelerator has a chunk, is parked, or is neither. *)
Devices == Parked >= 0 /\ Cardinality(OnGPU) + Parked <= numGPUs

(* The stop condition, under which getLastChunks divides by nCPUs, is only *)
(* evaluated in the stable phase, which lasts for ever.                    *)
StopStable == stopConditionModeOn => stablePhase

(* There are no more points than iterations, so that they fit into x.      *)
Enough == ~ stablePhase => measurements <= x[measurements]

IInv ==
  /\ TypeOK
  /\ P!Inv
  /\ Places
  /\ Refused
  /\ Started
  /\ Filled
  /\ Devices
  /\ StopStable
  /\ Enough
  /\ TokensConserved
  /\ PointsIncrease

-----------------------------------------------------------------------------
(* Arithmetic and sets.                                                    *)

(* A share is a natural number, and no more than the whole. *)
LEMMA Share ==
  ASSUME NEW a \in Nat, NEW b \in Nat \ {0}
  PROVE  a \div b \in Nat /\ a \div b <= a
OBVIOUS

(* A product of natural numbers is one. *)
LEMMA MulNat ==
  ASSUME NEW a \in Nat, NEW b \in Nat
  PROVE  a * b \in Nat
OBVIOUS

(* What is left, and how many cores there are. *)
LEMMA Sizes ==
  ASSUME TypeOK
  PROVE  /\ Remaining \in Nat
         /\ numCPUs \in Nat
         /\ iterationSpace \in Nat
         /\ MAXPOINTS \in Nat \ {0}
<1>1. Cardinality(Threads) \in Nat
  BY FS_CardinalityType
<1>2. Cardinality(Threads) # 0
  BY FS_EmptySet
<1>3. numGPUs \in {0, 1}
  BY DEF TypeOK
<1>4. numCPUs \in Nat
  BY <1>1, <1>2, <1>3 DEF numCPUs
<1>5. Remaining \in Nat /\ iterationSpace \in Nat
  BY DEF TypeOK, Remaining, iterationSpace
<1>6. QED BY <1>4, <1>5

(* The chunk of a core is not empty: its divisors are positive. *)
LEMMA CoreChunk ==
  ASSUME TypeOK
  PROVE  NextChunkCPU \in Nat \ {0}
<1>1. /\ Remaining \in Nat /\ fG[1] \in Nat \ {0} /\ fG[2] \in Nat
      /\ nCPUs \in Nat /\ chunkGPU \in Nat /\ minChunkCPU \in Nat \ {0}
  BY Sizes DEF TypeOK
<1> DEFINE speed1 == PerSpeed(chunkGPU)
           share1 == (Remaining * fG[2]) \div (fG[1] + nCPUs * fG[2])
           even == Remaining \div (nCPUs + 1)
<1>2. speed1 \in Nat
  <2>1. chunkGPU * fG[2] \in Nat
    BY <1>1, MulNat
  <2>2. QED BY <1>1, <2>1, Share DEF PerSpeed
<1>3. share1 \in Nat
  <2>1. Remaining * fG[2] \in Nat /\ nCPUs * fG[2] \in Nat
    BY <1>1, MulNat
  <2>2. fG[1] + nCPUs * fG[2] \in Nat \ {0}
    BY <1>1, <2>1
  <2>3. QED BY <2>1, <2>2, Share
<1>4. even \in Nat
  BY <1>1, Share
<1>5. NextChunkCPU =
        IF ~ stopConditionModeOn /\ numGPUs > 0
          THEN IF fGvalid THEN Max2(Min2(speed1, share1), minChunkCPU) ELSE minChunkCPU
          ELSE Max2(even, minChunkCPU)
  BY DEF NextChunkCPU
<1> HIDE DEF speed1, share1, even
<1>6. /\ Max2(Min2(speed1, share1), minChunkCPU) \in Nat \ {0}
      /\ Max2(even, minChunkCPU) \in Nat \ {0}
  BY <1>1, <1>2, <1>3, <1>4 DEF Max2, Min2
<1>7. QED BY <1>1, <1>5, <1>6

(* The end of a chunk lies in the space, and behind its beginning if it    *)
(* can.                                                                    *)
LEMMA ChunkFits ==
  ASSUME TypeOK, NEW size \in Nat
  PROVE  /\ Min2(begin + size, Last) \in begin..Last
         /\ size > 0 /\ begin < Last => begin < Min2(begin + size, Last)
<1>1. begin \in Nat /\ begin <= Last
  BY DEF TypeOK
<1>2. QED BY <1>1 DEF Min2

(* The threads that have the accelerator, and how their number changes. *)
LEMMA Holders ==
  /\ IsFiniteSet(OnGPU)
  /\ Cardinality(OnGPU) \in Nat
  /\ \A t : Cardinality(OnGPU \union {t})
              = IF t \in OnGPU THEN Cardinality(OnGPU) ELSE Cardinality(OnGPU) + 1
  /\ \A t : Cardinality(OnGPU \ {t})
              = IF t \in OnGPU THEN Cardinality(OnGPU) - 1 ELSE Cardinality(OnGPU)
<1>1. IsFiniteSet(OnGPU)
  <2>1. OnGPU \in SUBSET Threads
    BY DEF OnGPU
  <2>2. QED BY <2>1, FS_Subset
<1>2. Cardinality(OnGPU) \in Nat
  BY <1>1, FS_CardinalityType
<1>3. QED BY <1>1, <1>2, FS_AddElement, FS_RemoveElement

(* With the stop condition there is more than one core. *)
LEMMA StopMeansCores ==
  ASSUME TypeOK, StopStable, NEW t \in Threads, TakeToken(t)
  PROVE  /\ stopConditionModeOn' \in BOOLEAN
         /\ stopConditionModeOn' => stablePhase /\ nCPUs > 1
<1>1. stopConditionModeOn' = IF stablePhase THEN GPU_Stop_Condition ELSE stopConditionModeOn
  BY DEF TakeToken
<1>2. stablePhase \in BOOLEAN /\ stopConditionModeOn \in BOOLEAN
  BY DEF TypeOK
<1>3. GPU_Stop_Condition \in BOOLEAN /\ (GPU_Stop_Condition => nCPUs > 1)
  BY DEF GPU_Stop_Condition
<1>4. QED BY <1>1, <1>2, <1>3 DEF StopStable

-----------------------------------------------------------------------------
(* The scheduler is a pipeline.                                            *)

(* Leaving the serial stage with iterations takes them. *)
LEMMA ClaimTakes ==
  ASSUME IInv, NEW t \in Threads, inCall, ~ eof, pc[t] = "free",
         NEW size \in Nat, NEW type \in {CPU, GPU}, Claim(t, begin + size, type),
         UNCHANGED <<inCall, eof, times>>
  PROVE  P!Next
<1> DEFINE e == Min2(begin + size, Last)
<1>1. TypeOK /\ e \in begin..Last
  BY ChunkFits DEF IInv
<1>2. /\ begin' = e
      /\ pc' = [pc EXCEPT ![t] = "run"]
      /\ bundle' = [bundle EXCEPT ![t] = [begin |-> begin, end |-> e, type |-> type]]
  BY DEF Claim
<1> HIDE DEF e
<1>3. begin \in First..Last /\ e \in First..Last
  BY <1>1 DEF TypeOK
<1>4. HeldBy[t] = {}
  BY DEF HeldBy
<1>5. HeldBy' = [HeldBy EXCEPT ![t] = begin..(e - 1)]
  <2>1. Held(t)' = begin..(e - 1) /\ pc'[t] = "run"
    BY <1>1, <1>2 DEF Held, TypeOK
  <2>2. \A u \in Threads \ {t} : Held(u)' = Held(u) /\ pc'[u] = pc[u]
    BY <1>1, <1>2 DEF Held, TypeOK
  <2>3. QED BY <2>1, <2>2 DEF HeldBy
<1>6. P!Take(t, e)
  BY <1>1, <1>2, <1>4, <1>5 DEF P!Take
<1>7. QED BY <1>3, <1>6 DEF P!Next

(* Running a chunk is a step of the pipeline. *)
LEMMA RunRuns ==
  ASSUME IInv, NEW t \in Threads, pc[t] = "run", RunChunk(t),
         NEW next \in {"measure", "rate"}, pc' = [pc EXCEPT ![t] = next],
         UNCHANGED <<inCall, begin, eof, bundle>>
  PROVE  P!Next
<1>1. TypeOK
  BY DEF IInv
<1>2. HeldBy[t] = Held(t)
  BY DEF HeldBy
<1>3. HeldBy' = [HeldBy EXCEPT ![t] = {}]
  <2>1. pc'[t] # "run" /\ \A u \in Threads \ {t} : pc'[u] = pc[u]
    BY <1>1 DEF TypeOK
  <2>2. \A u \in Threads : Held(u)' = Held(u)
    BY DEF Held
  <2>3. QED BY <2>1, <2>2 DEF HeldBy
<1>4. P!Run(t)
  BY <1>2, <1>3 DEF P!Run, RunChunk, Space, P!Space
<1>5. QED BY <1>4 DEF P!Next

(* A thread that has run its chunk goes on without the pipeline. *)
LEMMA GoingOn ==
  ASSUME IInv, NEW t \in Threads, pc[t] # "run",
         NEW next \in {"free", "token"}, pc' = [pc EXCEPT ![t] = next],
         \A u \in Threads \ {t} : bundle'[u] = bundle[u],
         UNCHANGED <<inCall, begin, eof, times>>
  PROVE  UNCHANGED P!vars
<1>1. TypeOK
  BY DEF IInv
<1>2. pc'[t] # "run" /\ \A u \in Threads \ {t} : pc'[u] = pc[u]
  BY <1>1 DEF TypeOK
<1>3. HeldBy' = HeldBy
  BY <1>2 DEF HeldBy, Held
<1>4. QED BY <1>3 DEF P!vars

(* Every step of the scheduler is one of the pipeline, or none. *)
LEMMA StepPipeline == IInv /\ [Next]_vars => [P!Next]_(P!vars)
<1> SUFFICES ASSUME IInv, [Next]_vars PROVE [P!Next]_(P!vars)
  OBVIOUS
<1>1. TypeOK /\ Places /\ Refused /\ StopStable
  BY DEF IInv
<1>2. CASE ParallelForCall
  <2>1. HeldBy' = HeldBy
    BY <1>2 DEF ParallelForCall, HeldBy, Held
  <2>2. P!Call
    BY <1>2, <2>1 DEF ParallelForCall, P!Call, Space, P!Space
  <2>3. QED BY <2>2 DEF P!Next
<1>3. ASSUME NEW t \in Threads, TakeToken(t)
      PROVE  inCall /\ ~ eof /\ pc[t] = "free" /\ UNCHANGED <<inCall, eof, times>>
  BY <1>3 DEF TakeToken, MayEnter, call
<1>4. ASSUME NEW t \in Threads, GiveChunk(t) PROVE P!Next
  <2>1. chunkGPU \in Nat /\ Claim(t, begin + chunkGPU, GPU) /\ TakeToken(t)
    BY <1>1, <1>4 DEF GiveChunk, TypeOK
  <2>2. QED BY <1>3, <2>1, ClaimTakes
<1>5. ASSUME NEW t \in Threads, ConcordGPU(t) PROVE P!Next
  <2>1. PICK n \in 1..Remaining : Claim(t, begin + n, GPU)
    BY <1>5 DEF ConcordGPU
  <2>2. n \in Nat /\ TakeToken(t)
    BY <1>1, <1>5, Sizes DEF ConcordGPU
  <2>3. QED BY <1>3, <2>1, <2>2, ClaimTakes
<1>6. ASSUME NEW t \in Threads, ConcordCPU(t) PROVE P!Next
  <2>1. TakeToken(t) /\ stopConditionModeOn' /\ Claim(t, begin + Remaining \div nCPUs, CPU)
    BY <1>6 DEF ConcordCPU
  <2>2. nCPUs > 1 /\ nCPUs \in Nat /\ Remaining \in Nat
    BY <1>1, <2>1, StopMeansCores, Sizes DEF TypeOK
  <2>3. Remaining \div nCPUs \in Nat
    BY <2>2, Share
  <2>4. QED BY <1>3, <2>1, <2>3, ClaimTakes
<1>7. CASE \E t \in Threads : RefuseToken(t)
  BY <1>7 DEF RefuseToken, P!vars, HeldBy, Held, call
<1>8. ASSUME NEW t \in Threads, SerialCPU(t) PROVE P!Next
  <2>1. refused # NoThread /\ refused = t
    BY <1>8 DEF SerialCPU
  <2>2. /\ inCall /\ ~ eof /\ pc[t] = "free" /\ UNCHANGED <<inCall, eof, times>>
        /\ Claim(t, begin + NextChunkCPU, CPU)
    BY <1>1, <1>8, <2>1 DEF SerialCPU, Refused, call
  <2>3. QED BY <1>1, <2>2, CoreChunk, ClaimTakes
<1>9. CASE \E t \in Threads : SerialEnd(t)
  <2>1. begin = Last /\ inCall /\ ~ eof
    BY <1>1, <1>9 DEF SerialEnd, MayEnter, TypeOK
  <2>2. P!End
    BY <1>9, <2>1 DEF SerialEnd, P!End, HeldBy, Held, call
  <2>3. QED BY <2>2 DEF P!Next
<1>10. ASSUME NEW t \in Threads, OperatorGPU(t) PROVE P!Next
  BY <1>10, RunRuns DEF OperatorGPU, call
<1>11. ASSUME NEW t \in Threads, OperatorCPU(t) PROVE P!Next
  BY <1>11, RunRuns DEF OperatorCPU, call
<1>12. ASSUME NEW t \in Threads, Measuring(t) PROVE UNCHANGED P!vars
  BY <1>12, GoingOn DEF Measuring, call
<1>13. ASSUME NEW t \in Threads, ReleaseToken(t) \/ UpdateFG(t) PROVE UNCHANGED P!vars
  <2>1. /\ pc[t] # "run" /\ pc' = [pc EXCEPT ![t] = "free"]
        /\ bundle' = [bundle EXCEPT ![t] = NoBundle]
        /\ UNCHANGED <<inCall, begin, eof, times>>
    BY <1>13 DEF ReleaseToken, UpdateFG, call
  <2>2. \A u \in Threads \ {t} : bundle'[u] = bundle[u]
    BY <1>1, <2>1 DEF TypeOK
  <2>3. QED BY <2>1, <2>2, GoingOn
<1>14. CASE PipeReturn
  <2>1. HeldBy' = HeldBy /\ \A t \in Threads : HeldBy[t] = {}
    BY <1>14 DEF PipeReturn, HeldBy, Held
  <2>2. P!Return
    BY <1>14, <2>1 DEF PipeReturn, P!Return
  <2>3. QED BY <2>2 DEF P!Next
<1>15. CASE UNCHANGED vars
  BY <1>15 DEF vars, P!vars, HeldBy, Held, call
<1>16. \A t \in Threads :
         Explore(t) \/ Restart(t) \/ Stabilise(t) \/ Refit(t) \/ KeepPoints(t)
           => Measuring(t)
  BY DEF Explore, Restart, Stabilise, Refit, KeepPoints
<1>17. QED
  BY <1>2, <1>4, <1>5, <1>6, <1>7, <1>8, <1>9, <1>10, <1>11, <1>12, <1>13,
     <1>14, <1>15, <1>16 DEF Next

-----------------------------------------------------------------------------
(* Every step keeps the invariant.                                         *)

(* What Claim does to the Bundles and the threads that have a token. *)
LEMMA ClaimKeeps ==
  ASSUME IInv, NEW t \in Threads, inCall, inCall' = inCall, pc[t] = "free",
         NEW size \in Nat, NEW type \in {CPU, GPU}, Claim(t, begin + size, type),
         type = GPU => size > 0 /\ begin < Last
  PROVE  /\ begin' \in First..Last
         /\ pc' \in [Threads -> {"free", "run", "measure", "token", "rate"}]
         /\ bundle' \in [Threads -> [begin : First..Last, end : First..Last,
                                     type : {"none", CPU, GPU}]]
         /\ Places'
         /\ Filled'
         /\ t \notin OnGPU
         /\ OnGPU' = IF type = GPU THEN OnGPU \union {t} ELSE OnGPU
<1> DEFINE e == Min2(begin + size, Last)
<1>1. TypeOK /\ Places /\ Filled
  BY DEF IInv
<1>2. e \in begin..Last /\ (type = GPU => begin < e)
  BY <1>1, ChunkFits
<1>3. /\ begin' = e
      /\ pc' = [pc EXCEPT ![t] = "run"]
      /\ bundle' = [bundle EXCEPT ![t] = [begin |-> begin, end |-> e, type |-> type]]
  BY DEF Claim
<1> HIDE DEF e
<1>4. begin \in First..Last /\ e \in First..Last
  BY <1>1, <1>2 DEF TypeOK
<1>5. begin' \in First..Last
      /\ pc' \in [Threads -> {"free", "run", "measure", "token", "rate"}]
  BY <1>1, <1>3, <1>4 DEF TypeOK
<1>6. bundle' \in [Threads -> [begin : First..Last, end : First..Last,
                              type : {"none", CPU, GPU}]]
  BY <1>1, <1>3, <1>4 DEF TypeOK
<1>7. /\ pc'[t] = "run" /\ bundle'[t] = [begin |-> begin, end |-> e, type |-> type]
      /\ \A u \in Threads \ {t} : pc'[u] = pc[u] /\ bundle'[u] = bundle[u]
  BY <1>1, <1>3 DEF TypeOK
<1>8. Places'
  BY <1>1, <1>7 DEF Places, CPU, GPU
<1>9. Filled'
  BY <1>1, <1>2, <1>7 DEF Filled
<1>10. t \notin OnGPU
  BY <1>1 DEF OnGPU, Places, GPU
<1>11. OnGPU' = IF type = GPU THEN OnGPU \union {t} ELSE OnGPU
  BY <1>7, <1>10 DEF OnGPU
<1>12. QED BY <1>5, <1>6, <1>8, <1>9, <1>10, <1>11

(* The points stay what they are as long as nobody touches them. *)
LEMMA SamePoints ==
  ASSUME IInv, UNCHANGED model
  PROVE  /\ Enough' /\ PointsIncrease' /\ stablePhase' \in BOOLEAN
         /\ firstmeasurement' \in BOOLEAN
         /\ measurements' \in 0..(MAXPOINTS - 1)
         /\ x' \in [0..(MAXPOINTS - 1) -> Nat]
         /\ chunkGPU' \in Nat \ {0}
<1>1. TypeOK /\ Enough /\ PointsIncrease
  BY DEF IInv
<1>2. UNCHANGED <<stablePhase, firstmeasurement, measurements, x, chunkGPU>>
  BY DEF model, points
<1>3. Enough' /\ PointsIncrease'
  BY <1>1, <1>2 DEF Enough, PointsIncrease
<1>4. QED BY <1>1, <1>2, <1>3 DEF TypeOK

(* A new call finds every token back, and no accelerator parked. *)
LEMMA CallKeeps ==
  ASSUME IInv, ParallelForCall, P!Inv'
  PROVE  IInv'
<1>1. TypeOK /\ Places /\ Refused /\ Filled /\ Enough /\ PointsIncrease
  BY DEF IInv
<1>2. /\ ~ inCall /\ calls < MaxCalls /\ calls' = calls + 1 /\ inCall' = TRUE
      /\ begin' = First /\ eof' = FALSE /\ nCPUs' = numCPUs /\ gpuStatus' = numGPUs
      /\ stopConditionModeOn' = FALSE
      /\ chunkGPU' = IF calls = 0 THEN Max2(InitialChunk, 1) ELSE chunkGPU
      /\ times' = [i \in Space |-> 0]
      /\ UNCHANGED <<numGPUs, refused, pc, bundle, gpuThroughput, cpuThroughput,
                     fG, fGvalid, stablePhase, firstmeasurement, measurements, x>>
  BY DEF ParallelForCall, speed, points
<1>3. refused = NoThread
  BY <1>1, <1>2 DEF Refused
<1>4. OnGPU' = {}
  BY <1>1, <1>2 DEF Places, OnGPU, GPU
<1>5. Cardinality(OnGPU') = 0
  BY <1>4, FS_EmptySet
<1>6. numCPUs \in Nat /\ numGPUs \in {0, 1} /\ calls \in Nat
  BY <1>1, Sizes DEF TypeOK
<1>7. Parked' = 0
  <2>1. numCPUs' = numCPUs
    BY <1>2 DEF numCPUs
  <2>2. QED BY <1>2, <1>6, <2>1 DEF Parked
<1>8. TypeOK'
  <2>1. /\ calls' \in 0..MaxCalls /\ begin' \in First..Last /\ gpuStatus' \in -1..1
        /\ nCPUs' \in Nat
    BY <1>1, <1>2, <1>6 DEF TypeOK
  <2>2. chunkGPU' \in Nat \ {0}
    BY <1>1, <1>2 DEF Max2, TypeOK
  <2>3. times' \in [Space -> Nat] /\ inCall' \in BOOLEAN /\ eof' \in BOOLEAN
        /\ stopConditionModeOn' \in BOOLEAN
    BY <1>2
  <2>4. QED BY <1>1, <1>2, <2>1, <2>2, <2>3 DEF TypeOK, Space
<1>9. Places' /\ Refused' /\ Filled'
  BY <1>1, <1>2, <1>3 DEF Places, Refused, Filled
<1>10. Started'
  BY <1>2, <1>6 DEF Started
<1>11. Devices' /\ TokensConserved'
  BY <1>2, <1>3, <1>5, <1>6, <1>7 DEF Devices, TokensConserved
<1>12. StopStable' /\ Enough' /\ PointsIncrease'
  BY <1>1, <1>2 DEF StopStable, Enough, PointsIncrease
<1>13. QED BY <1>8, <1>9, <1>10, <1>11, <1>12 DEF IInv

(* A chunk for the accelerator, of the current size or the last one. *)
LEMMA ClaimGPUKeeps ==
  ASSUME IInv, NEW t \in Threads, TakeToken(t),
         NEW size \in Nat \ {0}, Claim(t, begin + size, GPU), nCPUs' = nCPUs, P!Inv'
  PROVE  IInv'
<1>1. /\ TypeOK /\ Started /\ Devices /\ StopStable /\ TokensConserved
  BY DEF IInv
<1>2. /\ inCall /\ ~ eof /\ refused = NoThread /\ pc[t] = "free" /\ begin < Last
      /\ gpuStatus > 0 /\ gpuStatus' = gpuStatus - 1
      /\ UNCHANGED <<numGPUs, inCall, calls, eof, refused, gpuThroughput,
                     cpuThroughput, fG, fGvalid, model, times>>
  BY DEF TakeToken, MayEnter, call, speed
<1>3. /\ begin' \in First..Last
      /\ pc' \in [Threads -> {"free", "run", "measure", "token", "rate"}]
      /\ bundle' \in [Threads -> [begin : First..Last, end : First..Last,
                                  type : {"none", CPU, GPU}]]
      /\ Places' /\ Filled' /\ t \notin OnGPU /\ OnGPU' = OnGPU \union {t}
  BY <1>2, ClaimKeeps
<1>4. Cardinality(OnGPU') = Cardinality(OnGPU) + 1 /\ Cardinality(OnGPU) \in Nat
  BY <1>3, Holders
<1>5. stopConditionModeOn' \in BOOLEAN /\ (stopConditionModeOn' => stablePhase)
  BY <1>1, StopMeansCores
<1>6. /\ Enough' /\ PointsIncrease' /\ stablePhase' \in BOOLEAN
      /\ firstmeasurement' \in BOOLEAN /\ measurements' \in 0..(MAXPOINTS - 1)
      /\ x' \in [0..(MAXPOINTS - 1) -> Nat] /\ chunkGPU' \in Nat \ {0}
  BY <1>2, SamePoints
<1>7. TypeOK'
  <2>1. gpuStatus' \in -1..1
    BY <1>1, <1>2 DEF TypeOK
  <2>2. QED BY <1>1, <1>2, <1>3, <1>5, <1>6, <2>1 DEF TypeOK, Space
<1>8. calls \in Nat \ {0}
  BY <1>1, <1>2 DEF Started, TypeOK
<1>9. Parked' = Parked /\ Parked \in Int /\ gpuStatus \in Int /\ numGPUs \in Int
  <2>1. numCPUs' = numCPUs
    BY <1>2 DEF numCPUs
  <2>2. numCPUs \in Nat /\ nCPUs \in Nat /\ gpuStatus \in Int /\ numGPUs \in Int
    BY <1>1, Sizes DEF TypeOK
  <2>3. QED BY <2>1, <2>2 DEF Parked
<1>10. gpuStatus + Cardinality(OnGPU) + Parked = numGPUs
  BY <1>1, <1>2, <1>8, <1>9 DEF TokensConserved
<1>11. Devices' /\ TokensConserved'
  BY <1>1, <1>2, <1>4, <1>9, <1>10 DEF Devices, TokensConserved
<1>12. StopStable'
  BY <1>2, <1>5 DEF StopStable, model
<1>13. Refused' /\ Started'
  BY <1>2, <1>8 DEF Refused, Started
<1>14. QED BY <1>3, <1>6, <1>7, <1>11, <1>12, <1>13 DEF IInv

(* The accelerator is parked: its token is kept, and it counts as a core. *)
LEMMA ConcordCPUKeeps ==
  ASSUME IInv, NEW t \in Threads, ConcordCPU(t), P!Inv'
  PROVE  IInv'
<1>1. /\ TypeOK /\ Started /\ Devices /\ StopStable /\ TokensConserved
  BY DEF IInv
<1>2. /\ TakeToken(t) /\ stopConditionModeOn' /\ nCPUs' = nCPUs + 1
      /\ Claim(t, begin + Remaining \div nCPUs, CPU)
      /\ inCall /\ ~ eof /\ refused = NoThread /\ pc[t] = "free" /\ begin < Last
      /\ gpuStatus > 0 /\ gpuStatus' = gpuStatus - 1
      /\ UNCHANGED <<numGPUs, inCall, calls, eof, refused, gpuThroughput,
                     cpuThroughput, fG, fGvalid, model, times>>
  BY DEF ConcordCPU, TakeToken, MayEnter, call, speed
<1>3. stopConditionModeOn' \in BOOLEAN /\ stablePhase /\ nCPUs > 1
  BY <1>1, <1>2, StopMeansCores
<1>4. Remaining \div nCPUs \in Nat
  <2>1. Remaining \in Nat /\ nCPUs \in Nat
    BY <1>1, Sizes DEF TypeOK
  <2>2. QED BY <1>3, <2>1, Share
<1>5. /\ begin' \in First..Last
      /\ pc' \in [Threads -> {"free", "run", "measure", "token", "rate"}]
      /\ bundle' \in [Threads -> [begin : First..Last, end : First..Last,
                                  type : {"none", CPU, GPU}]]
      /\ Places' /\ Filled' /\ OnGPU' = OnGPU
  <2>1. CPU # GPU
    BY DEF CPU, GPU
  <2>2. QED BY <1>2, <1>4, <2>1, ClaimKeeps
<1>6. /\ Enough' /\ PointsIncrease' /\ stablePhase' \in BOOLEAN
      /\ firstmeasurement' \in BOOLEAN /\ measurements' \in 0..(MAXPOINTS - 1)
      /\ x' \in [0..(MAXPOINTS - 1) -> Nat] /\ chunkGPU' \in Nat \ {0}
  BY <1>2, SamePoints
<1>7. TypeOK'
  <2>1. gpuStatus' \in -1..1 /\ nCPUs' \in Nat
    BY <1>1, <1>2 DEF TypeOK
  <2>2. QED BY <1>1, <1>2, <1>3, <1>5, <1>6, <2>1 DEF TypeOK, Space
<1>8. calls \in Nat \ {0}
  BY <1>1, <1>2 DEF Started, TypeOK
<1>9. /\ Parked' = Parked + 1 /\ Parked \in Int /\ gpuStatus \in Int
      /\ numGPUs \in Int /\ Cardinality(OnGPU) \in Nat
  <2>1. numCPUs' = numCPUs
    BY <1>2 DEF numCPUs
  <2>2. numCPUs \in Nat /\ nCPUs \in Nat /\ gpuStatus \in Int /\ numGPUs \in Int
    BY <1>1, Sizes DEF TypeOK
  <2>3. QED BY <1>2, <2>1, <2>2, Holders DEF Parked
<1>10. gpuStatus + Cardinality(OnGPU) + Parked = numGPUs
  BY <1>1, <1>2, <1>8, <1>9 DEF TokensConserved
<1>11. Devices' /\ TokensConserved'
  BY <1>1, <1>2, <1>5, <1>9, <1>10 DEF Devices, TokensConserved
<1>12. StopStable'
  BY <1>2, <1>3 DEF StopStable, model
<1>13. Refused' /\ Started'
  BY <1>2, <1>8 DEF Refused, Started
<1>14. QED BY <1>5, <1>6, <1>7, <1>11, <1>12, <1>13 DEF IInv

(* A thread that gets no token leaves the counter one short. *)
LEMMA RefuseKeeps ==
  ASSUME IInv, NEW t \in Threads, RefuseToken(t), P!Inv'
  PROVE  IInv'
<1>1. TypeOK /\ Places /\ Filled /\ Started /\ Devices /\ StopStable /\ TokensConserved
  BY DEF IInv
<1>2. /\ inCall /\ ~ eof /\ refused = NoThread /\ pc[t] = "free" /\ begin < Last
      /\ gpuStatus <= 0 /\ gpuStatus' = gpuStatus - 1 /\ refused' = t
      /\ UNCHANGED <<numGPUs, inCall, calls, begin, eof, nCPUs, stopConditionModeOn,
                     pc, bundle, gpuThroughput, cpuThroughput, fG, fGvalid, model,
                     times>>
  BY DEF RefuseToken, MayEnter, call, speed
<1>3. /\ Enough' /\ PointsIncrease' /\ stablePhase' \in BOOLEAN
      /\ firstmeasurement' \in BOOLEAN /\ measurements' \in 0..(MAXPOINTS - 1)
      /\ x' \in [0..(MAXPOINTS - 1) -> Nat] /\ chunkGPU' \in Nat \ {0}
  BY <1>2, SamePoints
<1>4. calls \in Nat \ {0} /\ t # NoThread
  BY <1>1, <1>2 DEF Started, TypeOK
<1>5. /\ Parked' = Parked /\ Parked \in Int /\ gpuStatus \in Int /\ numGPUs \in Int
      /\ Cardinality(OnGPU) \in Nat
  <2>1. numCPUs' = numCPUs
    BY <1>2 DEF numCPUs
  <2>2. numCPUs \in Nat /\ nCPUs \in Nat /\ gpuStatus \in Int /\ numGPUs \in Int
    BY <1>1, Sizes DEF TypeOK
  <2>3. QED BY <1>2, <2>1, <2>2, Holders DEF Parked
<1>6. gpuStatus + Cardinality(OnGPU) + Parked = numGPUs
  BY <1>1, <1>2, <1>4, <1>5 DEF TokensConserved
<1>7. gpuStatus = 0 /\ gpuStatus' = -1
  BY <1>1, <1>2, <1>5, <1>6 DEF Devices
<1>8. TypeOK'
  <2>1. gpuStatus' \in -1..1 /\ refused' \in Threads \union {NoThread}
    BY <1>2, <1>7
  <2>2. QED BY <1>1, <1>2, <1>3, <2>1 DEF TypeOK, Space
<1>9. OnGPU' = OnGPU
  BY <1>2 DEF OnGPU
<1>10. Devices' /\ TokensConserved'
  BY <1>1, <1>2, <1>4, <1>5, <1>6, <1>9 DEF Devices, TokensConserved
<1>11. StopStable'
  BY <1>1, <1>2 DEF StopStable, model
<1>12. Places' /\ Filled' /\ Refused' /\ Started'
  BY <1>1, <1>2, <1>4 DEF Places, Filled, Refused, Started
<1>13. QED BY <1>3, <1>8, <1>10, <1>11, <1>12 DEF IInv

(* The refused thread repays the counter and takes a chunk for its core. *)
LEMMA SerialCPUKeeps ==
  ASSUME IInv, NEW t \in Threads, SerialCPU(t), P!Inv'
  PROVE  IInv'
<1>1. TypeOK /\ Refused /\ Started /\ Devices /\ StopStable /\ TokensConserved
  BY DEF IInv
<1>2. /\ refused = t /\ refused # NoThread /\ refused' = NoThread
      /\ gpuStatus' = gpuStatus + 1 /\ Claim(t, begin + NextChunkCPU, CPU)
      /\ UNCHANGED <<numGPUs, inCall, calls, eof, nCPUs, stopConditionModeOn,
                     gpuThroughput, cpuThroughput, fG, fGvalid, model, times>>
  BY DEF SerialCPU, call, speed
<1>3. inCall /\ ~ eof /\ pc[t] = "free"
  BY <1>1, <1>2 DEF Refused
<1>4. /\ begin' \in First..Last
      /\ pc' \in [Threads -> {"free", "run", "measure", "token", "rate"}]
      /\ bundle' \in [Threads -> [begin : First..Last, end : First..Last,
                                  type : {"none", CPU, GPU}]]
      /\ Places' /\ Filled' /\ OnGPU' = OnGPU
  <2>1. CPU # GPU
    BY DEF CPU, GPU
  <2>2. QED BY <1>1, <1>2, <1>3, <2>1, CoreChunk, ClaimKeeps
<1>5. /\ Enough' /\ PointsIncrease' /\ stablePhase' \in BOOLEAN
      /\ firstmeasurement' \in BOOLEAN /\ measurements' \in 0..(MAXPOINTS - 1)
      /\ x' \in [0..(MAXPOINTS - 1) -> Nat] /\ chunkGPU' \in Nat \ {0}
  BY <1>2, SamePoints
<1>6. calls \in Nat \ {0}
  BY <1>1, <1>3 DEF Started, TypeOK
<1>7. /\ Parked' = Parked /\ Parked \in Int /\ gpuStatus \in -1..1
      /\ numGPUs \in {0, 1} /\ Cardinality(OnGPU) \in Nat
  <2>1. numCPUs' = numCPUs
    BY <1>2 DEF numCPUs
  <2>2. numCPUs \in Nat /\ nCPUs \in Nat /\ gpuStatus \in -1..1 /\ numGPUs \in {0, 1}
    BY <1>1, Sizes DEF TypeOK
  <2>3. QED BY <1>2, <2>1, <2>2, Holders DEF Parked
<1>8. gpuStatus + Cardinality(OnGPU) + Parked = numGPUs - 1
  BY <1>1, <1>2, <1>6, <1>7 DEF TokensConserved
<1>9. gpuStatus' \in -1..1
  BY <1>1, <1>2, <1>7, <1>8 DEF Devices
<1>10. TypeOK'
  BY <1>1, <1>2, <1>4, <1>5, <1>9 DEF TypeOK, Space
<1>11. Devices' /\ TokensConserved'
  BY <1>1, <1>2, <1>4, <1>7, <1>8 DEF Devices, TokensConserved
<1>12. StopStable'
  BY <1>1, <1>2 DEF StopStable, model
<1>13. Refused' /\ Started'
  BY <1>2, <1>6 DEF Refused, Started
<1>14. QED BY <1>4, <1>5, <1>10, <1>11, <1>12, <1>13 DEF IInv

(* The accelerator's chunk has been run and measured: it is not empty, so  *)
(* that fG never becomes a zero to divide by.                              *)
LEMMA OperatorGPUKeeps ==
  ASSUME IInv, NEW t \in Threads, OperatorGPU(t), P!Inv'
  PROVE  IInv'
<1>1. /\ TypeOK /\ Places /\ Filled /\ Refused /\ Started /\ Devices
      /\ StopStable /\ TokensConserved
  BY DEF IInv
<1>2. /\ pc[t] = "run" /\ bundle[t].type = GPU /\ RunChunk(t)
      /\ pc' = [pc EXCEPT ![t] = "measure"]
      /\ UNCHANGED <<numGPUs, inCall, calls, begin, eof, nCPUs, refused, gpuStatus,
                     stopConditionModeOn, bundle, cpuThroughput, model>>
  BY DEF OperatorGPU, call
<1>3. gpuThroughput' \in Nat /\ fG' \in (Nat \ {0}) \X Nat
  <2>1. CASE Measures(t)
    <3>1. Length(t) # 0
      BY <1>1, <1>2 DEF Filled, Length, TypeOK
    <3>2. gpuThroughput' \in Nat \ {0}
      BY <2>1, <3>1 DEF OperatorGPU, Throughputs
    <3>3. fG' = IF cpuThroughput > 0 THEN <<gpuThroughput', cpuThroughput>> ELSE fG
      BY <2>1 DEF OperatorGPU
    <3>4. cpuThroughput \in Nat /\ fG \in (Nat \ {0}) \X Nat
      BY <1>1 DEF TypeOK
    <3>5. QED BY <3>2, <3>3, <3>4
  <2>2. CASE ~ Measures(t)
    BY <1>1, <2>2 DEF OperatorGPU, TypeOK
  <2>3. QED BY <2>1, <2>2
<1>4. fGvalid' \in BOOLEAN
  BY <1>1 DEF OperatorGPU, TypeOK
<1>5. times' \in [Space -> Nat]
  BY <1>1, <1>2 DEF RunChunk, TypeOK
<1>6. pc' \in [Threads -> {"free", "run", "measure", "token", "rate"}]
  BY <1>1, <1>2 DEF TypeOK
<1>7. /\ Enough' /\ PointsIncrease' /\ stablePhase' \in BOOLEAN
      /\ firstmeasurement' \in BOOLEAN /\ measurements' \in 0..(MAXPOINTS - 1)
      /\ x' \in [0..(MAXPOINTS - 1) -> Nat] /\ chunkGPU' \in Nat \ {0}
  BY <1>2, SamePoints
<1>8. TypeOK'
  BY <1>1, <1>2, <1>3, <1>4, <1>5, <1>6, <1>7 DEF TypeOK, Space
<1>9. pc'[t] = "measure" /\ \A u \in Threads \ {t} : pc'[u] = pc[u]
  BY <1>1, <1>2 DEF TypeOK
<1>10. Places' /\ Refused'
  BY <1>1, <1>2, <1>9 DEF Places, Refused, TypeOK, GPU, CPU
<1>11. OnGPU' = OnGPU /\ Parked' = Parked
  BY <1>2 DEF OnGPU, Parked, numCPUs
<1>12. Filled' /\ Started' /\ Devices' /\ TokensConserved'
  BY <1>1, <1>2, <1>11 DEF Filled, Started, Devices, TokensConserved
<1>13. StopStable'
  BY <1>1, <1>2 DEF StopStable, model
<1>14. QED BY <1>7, <1>8, <1>10, <1>12, <1>13 DEF IInv

(* A core's chunk has been run and measured. *)
LEMMA OperatorCPUKeeps ==
  ASSUME IInv, NEW t \in Threads, OperatorCPU(t), P!Inv'
  PROVE  IInv'
<1>1. /\ TypeOK /\ Places /\ Filled /\ Refused /\ Started /\ Devices
      /\ StopStable /\ TokensConserved
  BY DEF IInv
<1>2. /\ pc[t] = "run" /\ bundle[t].type = CPU /\ RunChunk(t)
      /\ pc' = [pc EXCEPT ![t] = "rate"] /\ cpuThroughput' \in Throughputs(Length(t))
      /\ UNCHANGED <<numGPUs, inCall, calls, begin, eof, nCPUs, refused, gpuStatus,
                     stopConditionModeOn, bundle, gpuThroughput, fG, fGvalid, model>>
  BY DEF OperatorCPU, call
<1>3. cpuThroughput' \in Nat
  BY <1>2 DEF Throughputs
<1>4. times' \in [Space -> Nat]
  BY <1>1, <1>2 DEF RunChunk, TypeOK
<1>5. pc' \in [Threads -> {"free", "run", "measure", "token", "rate"}]
  BY <1>1, <1>2 DEF TypeOK
<1>6. /\ Enough' /\ PointsIncrease' /\ stablePhase' \in BOOLEAN
      /\ firstmeasurement' \in BOOLEAN /\ measurements' \in 0..(MAXPOINTS - 1)
      /\ x' \in [0..(MAXPOINTS - 1) -> Nat] /\ chunkGPU' \in Nat \ {0}
  BY <1>2, SamePoints
<1>7. TypeOK'
  BY <1>1, <1>2, <1>3, <1>4, <1>5, <1>6 DEF TypeOK, Space
<1>8. pc'[t] = "rate" /\ \A u \in Threads \ {t} : pc'[u] = pc[u]
  BY <1>1, <1>2 DEF TypeOK
<1>9. Places' /\ Refused'
  BY <1>1, <1>2, <1>8 DEF Places, Refused, TypeOK, GPU, CPU
<1>10. OnGPU' = OnGPU /\ Parked' = Parked
  BY <1>2 DEF OnGPU, Parked, numCPUs
<1>11. Filled' /\ Started' /\ Devices' /\ TokensConserved'
  BY <1>1, <1>2, <1>10 DEF Filled, Started, Devices, TokensConserved
<1>12. StopStable'
  BY <1>1, <1>2 DEF StopStable, model
<1>13. QED BY <1>6, <1>7, <1>9, <1>11, <1>12 DEF IInv

(* What storing, discarding or fitting points does to them. *)
LEMMA PointsKept ==
  ASSUME IInv, NEW t \in Threads, pc[t] = "measure",
         Explore(t) \/ Restart(t) \/ Stabilise(t) \/ Refit(t)
  PROVE  /\ Enough' /\ PointsIncrease' /\ StopStable'
         /\ stablePhase' \in BOOLEAN
         /\ firstmeasurement' \in BOOLEAN
         /\ measurements' \in 0..(MAXPOINTS - 1)
         /\ x' \in [0..(MAXPOINTS - 1) -> Nat]
         /\ chunkGPU' \in Nat \ {0}
<1>1. /\ TypeOK /\ Places /\ Filled /\ StopStable /\ Enough /\ PointsIncrease
      /\ iterationSpace \in Nat /\ iterationSpace < MAXPOINTS /\ MAXPOINTS \in Nat \ {0}
  BY Sizes DEF IInv, iterationSpace
<1>2. /\ stablePhase \in BOOLEAN /\ firstmeasurement \in BOOLEAN
      /\ stopConditionModeOn \in BOOLEAN
  BY <1>1 DEF TypeOK
<1>3. /\ measurements \in 0..(MAXPOINTS - 1) /\ x \in [0..(MAXPOINTS - 1) -> Nat]
      /\ chunkGPU \in Nat \ {0}
  BY <1>1 DEF TypeOK
<1>4. Length(t) \in Nat \ {0} /\ Length(t) <= iterationSpace
  <2>1. bundle[t].begin < bundle[t].end
    BY <1>1 DEF Places, Filled
  <2>2. bundle[t].begin \in First..Last /\ bundle[t].end \in First..Last
    BY <1>1 DEF TypeOK
  <2>3. QED BY <2>1, <2>2 DEF Length, iterationSpace
<1> DEFINE len == Length(t)
<1>5. ASSUME Increasing(t)
      PROVE  /\ Point \in 0..(MAXPOINTS - 1) /\ Point <= len
             /\ Stored(t) \in [0..(MAXPOINTS - 1) -> Nat]
  <2>1. ~ stablePhase /\ x[measurements] < len /\ measurements <= x[measurements]
    BY <1>1, <1>5 DEF Increasing, Enough
  <2>2. CASE firstmeasurement
    <3>1. Point = measurements /\ measurements <= len
      BY <1>3, <1>4, <2>1, <2>2 DEF Point
    <3>2. QED BY <1>3, <1>4, <3>1 DEF Stored
  <2>3. CASE ~ firstmeasurement
    <3>1. Point = measurements + 1 /\ x[measurements] \in Nat
      BY <1>3, <2>3 DEF Point
    <3>2. Point \in Nat /\ Point <= len /\ len < MAXPOINTS
      BY <1>1, <1>3, <1>4, <2>1, <3>1
    <3>3. QED BY <1>1, <1>3, <1>4, <3>2 DEF Stored
  <2>4. QED BY <2>2, <2>3
<1>6. stopConditionModeOn' = stopConditionModeOn
  BY DEF Explore, Restart, Stabilise, Refit, Measuring
<1> HIDE DEF len
<1>7. ASSUME Increasing(t)
       PROVE  /\ Point >= measurements
              /\ \A i, j \in 0..Point : i < j => Stored(t)[i] < Stored(t)[j]
              /\ \A i \in 0..Point : Stored(t)[i] > 0
  <2>1. /\ \A i, j \in 0..measurements : i < j => x[i] < x[j]
        /\ ~ firstmeasurement => \A i \in 0..measurements : x[i] > 0
        /\ firstmeasurement => measurements = 0
    BY <1>1, <1>7 DEF PointsIncrease, Increasing
  <2>2. x[measurements] < len /\ len \in Nat \ {0}
    BY <1>4, <1>7 DEF Increasing, len
  <2>3. /\ Stored(t)[Point] = len
        /\ \A i \in 0..(MAXPOINTS - 1) : i # Point => Stored(t)[i] = x[i]
    BY <1>3, <1>5, <1>7 DEF Stored, len
  <2>4. CASE firstmeasurement
    <3>1. Point = 0 /\ measurements = 0
      BY <2>1, <2>4 DEF Point
    <3>2. QED BY <2>2, <2>3, <3>1
  <2>5. CASE ~ firstmeasurement
    <3>1. Point = measurements + 1
      BY <2>5 DEF Point
    <3>2. ASSUME NEW i \in 0..Point, i # Point
          PROVE  i \in 0..measurements /\ Stored(t)[i] = x[i] /\ x[i] \in Nat /\ x[i] > 0
      <4>1. i \in 0..measurements /\ i \in 0..(MAXPOINTS - 1)
        BY <1>3, <3>1, <3>2
      <4>2. QED BY <1>3, <2>1, <2>3, <2>5, <3>2, <4>1
    <3>3. ASSUME NEW i \in 0..Point, NEW j \in 0..Point, i < j
          PROVE  Stored(t)[i] < Stored(t)[j]
      <4>1. i \in 0..measurements /\ i # Point
        BY <1>3, <3>1, <3>3
      <4>2. CASE j = Point
        <5>1. x[i] <= x[measurements] /\ x[i] \in Nat /\ x[measurements] \in Nat
          BY <1>3, <2>1, <4>1
        <5>2. QED BY <2>2, <2>3, <3>2, <4>1, <4>2, <5>1
      <4>3. CASE j # Point
        BY <2>1, <3>2, <3>3, <4>1, <4>3
      <4>4. QED BY <4>2, <4>3
    <3>4. QED BY <1>3, <2>2, <2>3, <3>1, <3>2, <3>3
  <2>6. QED BY <2>4, <2>5
<1>8. CASE Explore(t)
  <2>1. /\ Increasing(t) /\ measurements' = Point /\ firstmeasurement' = FALSE
        /\ x' = Stored(t) /\ stablePhase' = stablePhase /\ ~ stablePhase
    BY <1>8 DEF Explore, Increasing
  <2>2. chunkGPU' \in Nat \ {0}
    <3>1. iterationSpace > 0
      BY <1>1, <1>4
    <3>2. chunkGPU' = Min2(2 * chunkGPU, iterationSpace)
      BY <1>8 DEF Explore
    <3>3. QED BY <1>1, <1>3, <3>1, <3>2 DEF Min2
  <2>3. /\ x'[Point] = len
        /\ \A i \in 0..(MAXPOINTS - 1) : i # Point => x'[i] = x[i]
    BY <1>3, <1>5, <2>1 DEF Stored, len
  <2>4. Enough'
    BY <1>5, <2>1, <2>3 DEF Enough
  <2>5. PointsIncrease'
    <3>1. ASSUME NEW i \in (Point + 1)..(MAXPOINTS - 1) PROVE x'[i] = 0
      <4>1. \A j \in (measurements + 1)..(MAXPOINTS - 1) : x[j] = 0
        BY <1>1, <2>1 DEF PointsIncrease
      <4>2. i \in (measurements + 1)..(MAXPOINTS - 1) /\ i # Point
            /\ i \in 0..(MAXPOINTS - 1)
        BY <1>3, <1>5, <1>7, <2>1
      <4>3. QED BY <2>3, <4>1, <4>2
    <3>2. QED BY <1>7, <2>1, <3>1 DEF PointsIncrease
  <2>6. StopStable'
    BY <1>1, <1>6, <2>1 DEF StopStable
  <2>7. QED BY <1>2, <1>5, <2>1, <2>2, <2>4, <2>5, <2>6
<1>9. CASE Restart(t)
  <2>1. /\ measurements' = 0 /\ firstmeasurement' = TRUE /\ x' = NoPoints
        /\ stablePhase' = stablePhase /\ chunkGPU' = Max2(x[0] \div 10, 1)
    BY <1>9 DEF Restart
  <2>2. x' \in [0..(MAXPOINTS - 1) -> Nat] /\ \A i \in 0..(MAXPOINTS - 1) : x'[i] = 0
    BY <2>1 DEF NoPoints
  <2>3. chunkGPU' \in Nat \ {0}
    <3>1. x[0] \in Nat
      BY <1>1, <1>3
    <3>2. x[0] \div 10 \in Nat
      BY <3>1, Share
    <3>3. QED BY <2>1, <3>2 DEF Max2
  <2>4. 0 \in 0..(MAXPOINTS - 1)
    BY <1>1
  <2>5. Enough'
    BY <1>1, <2>1, <2>2, <2>4 DEF Enough
  <2>6. ~ stablePhase
    BY <1>9 DEF Restart, Increasing
  <2>7. PointsIncrease'
    <3>1. /\ measurements' = 0 /\ firstmeasurement' = TRUE /\ x'[0] = 0
          /\ ~ stablePhase'
      BY <2>1, <2>2, <2>4, <2>6
    <3>2. \A i, j \in 0..0 : ~ i < j
      OBVIOUS
    <3>3. \A i \in 1..(MAXPOINTS - 1) : x'[i] = 0
      BY <1>1, <2>2
    <3>4. QED BY <3>1, <3>2, <3>3 DEF PointsIncrease
  <2>8. StopStable'
    BY <1>1, <1>6, <2>1 DEF StopStable
  <2>9. QED BY <1>2, <2>1, <2>2, <2>3, <2>5, <2>7, <2>8
<1>10. CASE Stabilise(t)
  <2>1. /\ Increasing(t) /\ firstmeasurement' = FALSE /\ x' = Stored(t)
        /\ stablePhase' = TRUE /\ chunkGPU' \in FitChunks
    BY <1>10 DEF Stabilise
  <2>2. measurements' \in 0..(MAXPOINTS - 1)
    <3>1. measurements' = Point \/ (measurements' = Point - 2 /\ Point >= numberPoints + 2)
      BY <1>10 DEF Stabilise
    <3>2. Point \in 0..(MAXPOINTS - 1)
      BY <1>5, <2>1
    <3>3. QED BY <1>1, <3>1, <3>2
  <2>3. measurements' <= Point
    <3>1. measurements' = Point \/ measurements' = Point - 2
      BY <1>10 DEF Stabilise
    <3>2. QED BY <1>5, <2>1, <3>1
  <2>4. PointsIncrease'
    <3>1. \A i \in 0..measurements' : i \in 0..Point
      BY <1>5, <2>1, <2>2, <2>3
    <3>2. QED BY <1>7, <2>1, <3>1 DEF PointsIncrease
  <2>5. Enough' /\ StopStable'
    BY <2>1 DEF Enough, StopStable
  <2>6. QED BY <1>5, <2>1, <2>2, <2>4, <2>5
<1>11. CASE Refit(t)
  <2>1. /\ stablePhase /\ stablePhase' = stablePhase /\ firstmeasurement' = firstmeasurement
        /\ measurements' = measurements /\ chunkGPU' \in FitChunks
        /\ x' = [x EXCEPT ![measurements] = len]
    BY <1>11 DEF Refit, len
  <2>2. x' \in [0..(MAXPOINTS - 1) -> Nat]
    BY <1>3, <1>4, <2>1 DEF len
  <2>3. PointsIncrease'
    <3>1. /\ \A i, j \in 0..measurements : i < j /\ j < measurements => x[i] < x[j]
          /\ ~ firstmeasurement /\ \A i \in 0..measurements : x[i] > 0
      BY <1>1, <2>1 DEF PointsIncrease
    <3>2. x'[measurements] > 0
      BY <1>3, <1>4, <2>1 DEF len
    <3>3. \A i \in 0..measurements : i # measurements => x'[i] = x[i]
      BY <1>3, <2>1
    <3>4. \A i \in 0..measurements : x'[i] > 0
      BY <3>1, <3>2, <3>3
    <3>5. ASSUME NEW i \in 0..measurements, NEW j \in 0..measurements,
                 i < j, j < measurements
          PROVE  x'[i] < x'[j]
      <4>1. i # measurements /\ j # measurements
        BY <1>3, <3>5
      <4>2. QED BY <3>1, <3>3, <3>5, <4>1
    <3>6. QED BY <2>1, <3>1, <3>4, <3>5 DEF PointsIncrease
  <2>4. Enough' /\ StopStable'
    BY <2>1 DEF Enough, StopStable
  <2>5. QED BY <1>2, <1>3, <2>1, <2>2, <2>3, <2>4
<1>12. QED BY <1>8, <1>9, <1>10, <1>11

(* A thread leaves the model of the points, its token still in its hands.  *)
LEMMA MeasureKeeps ==
  ASSUME IInv, NEW t \in Threads,
         Explore(t) \/ Restart(t) \/ Stabilise(t) \/ Refit(t) \/ KeepPoints(t), P!Inv'
  PROVE  IInv'
<1>1. /\ TypeOK /\ Places /\ Filled /\ Refused /\ Started /\ Devices /\ StopStable
      /\ TokensConserved
  BY DEF IInv
<1>2. /\ pc[t] = "measure" /\ pc' = [pc EXCEPT ![t] = "token"]
      /\ UNCHANGED <<numGPUs, inCall, calls, begin, eof, nCPUs, refused, gpuStatus,
                     stopConditionModeOn, bundle, gpuThroughput, cpuThroughput, fG,
                     fGvalid, times>>
  BY DEF Explore, Restart, Stabilise, Refit, KeepPoints, Measuring, call, speed
<1>3. /\ Enough' /\ PointsIncrease' /\ StopStable' /\ stablePhase' \in BOOLEAN
      /\ firstmeasurement' \in BOOLEAN /\ measurements' \in 0..(MAXPOINTS - 1)
      /\ x' \in [0..(MAXPOINTS - 1) -> Nat] /\ chunkGPU' \in Nat \ {0}
  <2>1. CASE Explore(t) \/ Restart(t) \/ Stabilise(t) \/ Refit(t)
    BY <1>2, <2>1, PointsKept
  <2>2. CASE KeepPoints(t)
    <3>1. UNCHANGED model
      BY <2>2 DEF KeepPoints
    <3>2. StopStable'
      BY <1>1, <1>2, <3>1 DEF StopStable, model
    <3>3. QED BY <3>1, <3>2, SamePoints
  <2>3. QED BY <2>1, <2>2
<1>4. pc' \in [Threads -> {"free", "run", "measure", "token", "rate"}]
  BY <1>1, <1>2 DEF TypeOK
<1>5. TypeOK'
  BY <1>1, <1>2, <1>3, <1>4 DEF TypeOK, Space
<1>6. pc'[t] = "token" /\ \A u \in Threads \ {t} : pc'[u] = pc[u]
  BY <1>1, <1>2 DEF TypeOK
<1>7. Places' /\ Refused'
  BY <1>1, <1>2, <1>6 DEF Places, Refused, TypeOK
<1>8. OnGPU' = OnGPU /\ Parked' = Parked
  BY <1>2 DEF OnGPU, Parked, numCPUs
<1>9. Filled' /\ Started' /\ Devices' /\ TokensConserved'
  BY <1>1, <1>2, <1>8 DEF Filled, Started, Devices, TokensConserved
<1>10. QED BY <1>3, <1>5, <1>7, <1>9 DEF IInv

(* A thread that lets its Bundle go is free. *)
LEMMA LettingGo ==
  ASSUME IInv, NEW t \in Threads, pc[t] # "free", pc' = [pc EXCEPT ![t] = "free"],
         bundle' = [bundle EXCEPT ![t] = NoBundle],
         UNCHANGED <<inCall, eof, begin, refused>>
  PROVE  /\ pc' \in [Threads -> {"free", "run", "measure", "token", "rate"}]
         /\ bundle' \in [Threads -> [begin : First..Last, end : First..Last,
                                     type : {"none", CPU, GPU}]]
         /\ Places' /\ Filled' /\ Refused'
         /\ OnGPU' = OnGPU \ {t}
<1>1. TypeOK /\ Places /\ Filled /\ Refused
  BY DEF IInv
<1>2. NoBundle \in [begin : First..Last, end : First..Last, type : {"none", CPU, GPU}]
  BY DEF NoBundle
<1>3. /\ pc' \in [Threads -> {"free", "run", "measure", "token", "rate"}]
      /\ bundle' \in [Threads -> [begin : First..Last, end : First..Last,
                                  type : {"none", CPU, GPU}]]
  BY <1>1, <1>2 DEF TypeOK
<1>4. /\ pc'[t] = "free" /\ bundle'[t].type = "none"
      /\ \A u \in Threads \ {t} : pc'[u] = pc[u] /\ bundle'[u] = bundle[u]
  BY <1>1 DEF TypeOK, NoBundle
<1>5. Places'
  BY <1>1, <1>4 DEF Places
<1>6. Filled'
  BY <1>1, <1>4 DEF Filled, GPU
<1>7. Refused'
  BY <1>1, <1>4 DEF Refused, TypeOK
<1>8. OnGPU' = OnGPU \ {t}
  BY <1>4 DEF OnGPU, GPU
<1>9. QED BY <1>3, <1>5, <1>6, <1>7, <1>8

(* A token comes back. *)
LEMMA ReleaseKeeps ==
  ASSUME IInv, NEW t \in Threads, ReleaseToken(t), P!Inv'
  PROVE  IInv'
<1>1. TypeOK /\ Places /\ Started /\ Devices /\ StopStable /\ TokensConserved
  BY DEF IInv
<1>2. /\ pc[t] = "token" /\ gpuStatus' = gpuStatus + 1
      /\ pc' = [pc EXCEPT ![t] = "free"] /\ bundle' = [bundle EXCEPT ![t] = NoBundle]
      /\ UNCHANGED <<numGPUs, inCall, calls, begin, eof, nCPUs, refused,
                     stopConditionModeOn, gpuThroughput, cpuThroughput, fG, fGvalid,
                     model, times>>
  BY DEF ReleaseToken, call, speed
<1>3. t \in OnGPU /\ inCall
  BY <1>1, <1>2 DEF Places, OnGPU
<1>4. /\ pc' \in [Threads -> {"free", "run", "measure", "token", "rate"}]
      /\ bundle' \in [Threads -> [begin : First..Last, end : First..Last,
                                  type : {"none", CPU, GPU}]]
      /\ Places' /\ Filled' /\ Refused' /\ OnGPU' = OnGPU \ {t}
  BY <1>2, LettingGo
<1>5. /\ Enough' /\ PointsIncrease' /\ stablePhase' \in BOOLEAN
      /\ firstmeasurement' \in BOOLEAN /\ measurements' \in 0..(MAXPOINTS - 1)
      /\ x' \in [0..(MAXPOINTS - 1) -> Nat] /\ chunkGPU' \in Nat \ {0}
  BY <1>2, SamePoints
<1>6. calls \in Nat \ {0}
  BY <1>1, <1>3 DEF Started, TypeOK
<1>7. /\ Cardinality(OnGPU') = Cardinality(OnGPU) - 1
      /\ Cardinality(OnGPU) \in Nat /\ Cardinality(OnGPU') \in Nat
  <2>1. Cardinality(OnGPU \ {t}) = Cardinality(OnGPU) - 1 /\ Cardinality(OnGPU) \in Nat
    BY <1>3, Holders
  <2>2. IsFiniteSet(OnGPU \ {t})
    BY Holders, FS_RemoveElement
  <2>3. Cardinality(OnGPU \ {t}) \in Nat
    BY <2>2, FS_CardinalityType
  <2>4. QED BY <1>4, <2>1, <2>3
<1>8. Parked' = Parked /\ Parked \in Int /\ gpuStatus \in -1..1 /\ numGPUs \in {0, 1}
  <2>1. numCPUs' = numCPUs
    BY <1>2 DEF numCPUs
  <2>2. numCPUs \in Nat /\ nCPUs \in Nat /\ gpuStatus \in -1..1 /\ numGPUs \in {0, 1}
    BY <1>1, Sizes DEF TypeOK
  <2>3. QED BY <1>2, <2>1, <2>2 DEF Parked
<1> DEFINE owed == IF refused = NoThread THEN 0 ELSE 1
<1>9. gpuStatus + Cardinality(OnGPU) + Parked = numGPUs - owed /\ owed \in {0, 1}
  BY <1>1, <1>6, <1>8 DEF TokensConserved
<1>10. owed' = owed
  BY <1>2
<1> HIDE DEF owed
<1>11. gpuStatus' \in -1..1
  BY <1>1, <1>2, <1>7, <1>8, <1>9 DEF Devices
<1>12. TypeOK'
  BY <1>1, <1>2, <1>4, <1>5, <1>11 DEF TypeOK, Space
<1>13. Devices'
  BY <1>1, <1>2, <1>7, <1>8 DEF Devices
<1>14. TokensConserved'
  <2>1. gpuStatus' + Cardinality(OnGPU') + Parked' = numGPUs' - owed'
    BY <1>2, <1>7, <1>8, <1>9, <1>10
  <2>2. QED BY <2>1 DEF TokensConserved, owed
<1>15. StopStable' /\ Started'
  BY <1>1, <1>2, <1>6 DEF StopStable, Started, model
<1>16. QED BY <1>4, <1>5, <1>12, <1>13, <1>14, <1>15 DEF IInv

(* A core computes fG from throughputs other threads may have changed.     *)
LEMMA UpdateFGKeeps ==
  ASSUME IInv, NEW t \in Threads, UpdateFG(t), P!Inv'
  PROVE  IInv'
<1>1. TypeOK /\ Places /\ Started /\ Devices /\ StopStable /\ TokensConserved
  BY DEF IInv
<1>2. /\ pc[t] = "rate"
      /\ pc' = [pc EXCEPT ![t] = "free"] /\ bundle' = [bundle EXCEPT ![t] = NoBundle]
      /\ UNCHANGED <<numGPUs, inCall, calls, begin, eof, nCPUs, refused, gpuStatus,
                     stopConditionModeOn, gpuThroughput, cpuThroughput, model, times>>
  BY DEF UpdateFG, call
<1>3. fG' \in (Nat \ {0}) \X Nat
  <2>1. /\ gpuThroughput \in Nat /\ cpuThroughput \in Nat
        /\ fG \in (Nat \ {0}) \X Nat
    BY <1>1 DEF TypeOK
  <2>2. fG' = IF gpuThroughput > 0 /\ Measures(t)
                THEN <<gpuThroughput, cpuThroughput>> ELSE fG
    BY DEF UpdateFG
  <2>3. QED BY <2>1, <2>2
<1>4. fGvalid' \in BOOLEAN
  BY <1>1 DEF UpdateFG, TypeOK
<1>5. /\ pc' \in [Threads -> {"free", "run", "measure", "token", "rate"}]
      /\ bundle' \in [Threads -> [begin : First..Last, end : First..Last,
                                  type : {"none", CPU, GPU}]]
      /\ Places' /\ Filled' /\ Refused' /\ OnGPU' = OnGPU \ {t}
  BY <1>2, LettingGo
<1>6. OnGPU' = OnGPU /\ Parked' = Parked
  <2>1. t \notin OnGPU
    BY <1>1, <1>2 DEF Places, OnGPU, CPU, GPU
  <2>2. QED BY <1>2, <1>5, <2>1 DEF Parked, numCPUs
<1>7. /\ Enough' /\ PointsIncrease' /\ stablePhase' \in BOOLEAN
      /\ firstmeasurement' \in BOOLEAN /\ measurements' \in 0..(MAXPOINTS - 1)
      /\ x' \in [0..(MAXPOINTS - 1) -> Nat] /\ chunkGPU' \in Nat \ {0}
  BY <1>2, SamePoints
<1>8. TypeOK'
  BY <1>1, <1>2, <1>3, <1>4, <1>5, <1>7 DEF TypeOK, Space
<1>9. Started' /\ Devices' /\ TokensConserved'
  BY <1>1, <1>2, <1>6 DEF Started, Devices, TokensConserved
<1>10. StopStable'
  BY <1>1, <1>2 DEF StopStable, model
<1>11. QED BY <1>5, <1>7, <1>8, <1>9, <1>10 DEF IInv

(* The input ends, the call returns, or nothing happens. *)
LEMMA EndKeeps ==
  ASSUME IInv, (\E t \in Threads : SerialEnd(t)) \/ PipeReturn \/ UNCHANGED vars, P!Inv'
  PROVE  IInv'
<1>1. /\ TypeOK /\ Places /\ Filled /\ Refused /\ Started /\ Devices /\ StopStable
      /\ TokensConserved
  BY DEF IInv
<1>2. UNCHANGED <<numGPUs, calls, begin, nCPUs, refused, gpuStatus,
                  stopConditionModeOn, pc, bundle, gpuThroughput, cpuThroughput, fG,
                  fGvalid, model, times>>
  BY DEF SerialEnd, PipeReturn, vars, call, speed
<1>3. inCall' \in BOOLEAN /\ eof' \in BOOLEAN
  BY <1>1 DEF SerialEnd, PipeReturn, vars, call, TypeOK
<1>4. /\ Enough' /\ PointsIncrease' /\ stablePhase' \in BOOLEAN
      /\ firstmeasurement' \in BOOLEAN /\ measurements' \in 0..(MAXPOINTS - 1)
      /\ x' \in [0..(MAXPOINTS - 1) -> Nat] /\ chunkGPU' \in Nat \ {0}
  BY <1>2, SamePoints
<1>5. TypeOK'
  BY <1>1, <1>2, <1>3, <1>4 DEF TypeOK, Space
<1>6. OnGPU' = OnGPU /\ Parked' = Parked
  BY <1>2 DEF OnGPU, Parked, numCPUs
<1>7. Filled' /\ Devices' /\ TokensConserved'
  BY <1>1, <1>2, <1>6 DEF Filled, Devices, TokensConserved
<1>8. Places' /\ Started'
  BY <1>1, <1>2, <1>6
     DEF Places, Started, SerialEnd, MayEnter, PipeReturn, vars, call
<1>9. Refused'
  BY <1>1, <1>2 DEF Refused, SerialEnd, MayEnter, PipeReturn, vars, call
<1>10. StopStable'
  BY <1>1, <1>2 DEF StopStable, model
<1>11. QED BY <1>4, <1>5, <1>7, <1>8, <1>9, <1>10 DEF IInv

(* The invariant holds before the first call. *)
LEMMA InitIInv == Init => IInv /\ P!Init
<1> SUFFICES ASSUME Init PROVE IInv /\ P!Init
  OBVIOUS
<1> USE DEF Init
<1>1. \A t \in Threads : pc[t] = "free" /\ bundle[t] = NoBundle
  OBVIOUS
<1>2. P!Init
  <2>1. HeldBy = [t \in Threads |-> {}]
    BY <1>1 DEF HeldBy
  <2>2. QED BY <2>1 DEF P!Init, Space, P!Space
<1>3. P!Inv
  BY <1>2, P!InitInv DEF P!Bounds
<1>4. MAXPOINTS \in Nat \ {0} /\ x \in [0..(MAXPOINTS - 1) -> Nat]
      /\ \A i \in 0..(MAXPOINTS - 1) : x[i] = 0
  BY DEF NoPoints
<1>5. numCPUs \in Nat
  <2>1. Cardinality(Threads) \in Nat
    BY FS_CardinalityType
  <2>2. Cardinality(Threads) # 0
    BY FS_EmptySet
  <2>3. numGPUs \in {0, 1}
    OBVIOUS
  <2>4. QED BY <2>1, <2>2, <2>3 DEF numCPUs
<1>6. TypeOK
  <2>1. bundle \in [Threads -> [begin : First..Last, end : First..Last,
                               type : {"none", CPU, GPU}]]
    BY DEF NoBundle
  <2>2. /\ inCall \in BOOLEAN /\ eof \in BOOLEAN /\ stopConditionModeOn \in BOOLEAN
        /\ fGvalid \in BOOLEAN /\ stablePhase \in BOOLEAN /\ firstmeasurement \in BOOLEAN
    OBVIOUS
  <2>3. /\ calls \in 0..MaxCalls /\ begin \in First..Last /\ gpuStatus \in -1..1
        /\ measurements \in 0..(MAXPOINTS - 1) /\ chunkGPU \in Nat \ {0}
        /\ gpuThroughput \in Nat /\ cpuThroughput \in Nat
    BY <1>4
  <2>4. fG \in (Nat \ {0}) \X Nat
    OBVIOUS
  <2>5. nCPUs \in Nat
    BY <1>5
  <2>6. QED BY <1>4, <2>1, <2>2, <2>3, <2>4, <2>5 DEF TypeOK
<1>7. OnGPU = {}
  BY <1>1 DEF OnGPU, NoBundle, GPU
<1>8. Cardinality(OnGPU) = 0 /\ Parked = 0 /\ numGPUs \in {0, 1}
  <2>1. Cardinality(OnGPU) = 0
    BY <1>7, FS_EmptySet
  <2>2. QED BY <1>5, <2>1 DEF Parked
<1>9. TokensConserved /\ Devices /\ Started
  BY <1>8 DEF TokensConserved, Devices, Started
<1>10. Places /\ Refused /\ Filled
  BY <1>1 DEF Places, Refused, Filled, NoBundle, GPU, CPU
<1>11. StopStable
  BY DEF StopStable
<1>12. Enough /\ PointsIncrease
  BY <1>4 DEF Enough, PointsIncrease
<1>13. QED BY <1>2, <1>3, <1>6, <1>9, <1>10, <1>11, <1>12 DEF IInv

(* Every step keeps it. *)
LEMMA NextIInv == IInv /\ [Next]_vars => IInv'
<1> SUFFICES ASSUME IInv, [Next]_vars PROVE IInv'
  OBVIOUS
<1>1. P!Inv'
  BY StepPipeline, P!NextInv DEF IInv, P!Bounds
<1>2. CASE ParallelForCall
  BY <1>1, <1>2, CallKeeps
<1>3. ASSUME NEW t \in Threads, GiveChunk(t) PROVE IInv'
  <2>1. chunkGPU \in Nat \ {0} /\ Claim(t, begin + chunkGPU, GPU)
        /\ TakeToken(t) /\ nCPUs' = nCPUs
    BY <1>3 DEF GiveChunk, IInv, TypeOK
  <2>2. QED BY <1>1, <2>1, ClaimGPUKeeps
<1>4. ASSUME NEW t \in Threads, ConcordGPU(t) PROVE IInv'
  <2>1. PICK n \in 1..Remaining : Claim(t, begin + n, GPU)
    BY <1>4 DEF ConcordGPU
  <2>2. n \in Nat \ {0} /\ TakeToken(t) /\ nCPUs' = nCPUs
    BY <1>4, Sizes DEF ConcordGPU, IInv
  <2>3. QED BY <1>1, <2>1, <2>2, ClaimGPUKeeps
<1>5. CASE \E t \in Threads : ConcordCPU(t)
  BY <1>1, <1>5, ConcordCPUKeeps
<1>6. CASE \E t \in Threads : RefuseToken(t)
  BY <1>1, <1>6, RefuseKeeps
<1>7. CASE \E t \in Threads : SerialCPU(t)
  BY <1>1, <1>7, SerialCPUKeeps
<1>8. CASE \E t \in Threads : OperatorGPU(t)
  BY <1>1, <1>8, OperatorGPUKeeps
<1>9. CASE \E t \in Threads : OperatorCPU(t)
  BY <1>1, <1>9, OperatorCPUKeeps
<1>10. CASE \E t \in Threads :
              Explore(t) \/ Restart(t) \/ Stabilise(t) \/ Refit(t) \/ KeepPoints(t)
  BY <1>1, <1>10, MeasureKeeps
<1>11. CASE \E t \in Threads : ReleaseToken(t)
  BY <1>1, <1>11, ReleaseKeeps
<1>12. CASE \E t \in Threads : UpdateFG(t)
  BY <1>1, <1>12, UpdateFGKeeps
<1>13. CASE (\E t \in Threads : SerialEnd(t)) \/ PipeReturn \/ UNCHANGED vars
  BY <1>1, <1>13, EndKeeps
<1>14. QED
  BY <1>2, <1>3, <1>4, <1>5, <1>6, <1>7, <1>8, <1>9, <1>10, <1>11, <1>12, <1>13
     DEF Next

-----------------------------------------------------------------------------
(* The theorems.                                                           *)

(* The strengthened invariant holds in every state of the scheduler. *)
THEOREM Invariance == Spec => []IInv
<1>1. Init => IInv
  BY InitIInv
<1>2. IInv /\ [Next]_vars => IInv'
  BY NextIInv
<1>3. QED BY <1>1, <1>2, PTL DEF Spec

(* The variables keep their types: fG can be divided by, no chunk reaches  *)
(* outside [first, last), and no point is stored outside x.                *)
THEOREM TypeCorrect == Spec => []TypeOK
<1>1. IInv => TypeOK
  BY DEF IInv
<1>2. QED BY <1>1, Invariance, PTL

(* Tokens are neither lost nor made, parked accelerators counted. *)
THEOREM TokensKept == Spec => []TokensConserved
<1>1. IInv => TokensConserved
  BY DEF IInv
<1>2. QED BY <1>1, Invariance, PTL

(* The accelerator never has two chunks. *)
THEOREM AcceleratorExclusive == Spec => []OneChunkOnAccelerator
<1>1. IInv => OneChunkOnAccelerator
  <2>1. SUFFICES ASSUME IInv PROVE OneChunkOnAccelerator
    OBVIOUS
  <2>2. TypeOK /\ Devices
    BY <2>1 DEF IInv
  <2>3. nCPUs \in Nat /\ numGPUs \in {0, 1} /\ numCPUs \in Nat
    BY <2>2, Sizes DEF TypeOK
  <2>4. Parked \in Int
    BY <2>3 DEF Parked
  <2>5. Cardinality(OnGPU) \in Nat
    BY Holders
  <2>6. QED BY <2>2, <2>3, <2>4, <2>5 DEF Devices, OneChunkOnAccelerator
<1>2. QED BY <1>1, Invariance, PTL

(* No iteration is skipped and none is run twice, in whatever phase. *)
THEOREM RunsOnce == Spec => []RunOnce
<1>1. IInv => RunOnce
  BY DEF IInv, P!Inv, P!RunOnce, RunOnce, HeldBy, Space, P!Space
<1>2. QED BY <1>1, Invariance, PTL

(* The points the model keeps are positive and grow, through explorations, *)
(* restarts and the stable phase of every call; only the last one, which   *)
(* the stable phase overwrites, need not exceed the one before.            *)
THEOREM PointsGrow == Spec => []PointsIncrease
<1>1. IInv => PointsIncrease
  BY DEF IInv
<1>2. QED BY <1>1, Invariance, PTL

(* The steps of the promise are the same seen from the pipeline. *)
LEMMA SamePromise ==
  /\ PF!Init <=> P!PF!Init
  /\ [PF!Next]_(PF!vars) <=> [P!PF!Next]_(P!PF!vars)
BY DEF PF!Init, PF!Next, PF!vars, PF!Start, PF!Execute, PF!Return, PF!Pending,
       P!PF!Init, P!PF!Next, P!PF!vars, P!PF!Start, P!PF!Execute, P!PF!Return,
       P!PF!Pending, Space, P!Space

(* The scheduler implements the pipeline, and with it the promise of       *)
(* heterogeneous_parallel_for.                                             *)
THEOREM ImplementsPromise == Spec => Implements
<1>1. Init => PF!Init
  BY InitIInv, P!InitPromise, SamePromise
<1>2. IInv /\ [Next]_vars => [PF!Next]_(PF!vars)
  BY StepPipeline, P!NextPromise, SamePromise DEF IInv, P!Bounds
<1>3. QED BY <1>1, <1>2, Invariance, PTL DEF Spec, Implements, PF!Spec

-----------------------------------------------------------------------------
(* Every call is over after finitely many steps.                           *)

Holding == {t \in Threads : pc[t] # "free"}
Running == {t \in Threads : pc[t] = "run"}
Unmeasured == {t \in Threads : pc[t] \in {"run", "measure"} /\ bundle[t].type = GPU}

(* The parts of StepsLeft that are not about threads. *)
Owed == IF refused = NoThread THEN 0 ELSE 1
Ahead == (IF eof THEN 0 ELSE 1) + (IF inCall THEN 1 ELSE 0)

(* The most steps a call takes, from its start. *)
MostSteps == 4 * (Last - First) + 3 * numGPUs + 2

(* The threads in each place, and their numbers. *)
LEMMA StagesFinite ==
  /\ IsFiniteSet(Holding) /\ IsFiniteSet(Running) /\ IsFiniteSet(Unmeasured)
  /\ Cardinality(Holding) \in Nat /\ Cardinality(Running) \in Nat
  /\ Cardinality(Unmeasured) \in Nat
<1>1. IsFiniteSet(Holding) /\ IsFiniteSet(Running) /\ IsFiniteSet(Unmeasured)
  BY FS_Subset DEF Holding, Running, Unmeasured
<1>2. QED BY <1>1, FS_CardinalityType

(* The parts of StepsLeft are numbers: a refused thread has an iteration   *)
(* before it, and there are no more accelerators parked than there are.    *)
LEMMA PartsNat ==
  IInv => /\ Remaining \in Nat /\ Owed \in {0, 1} /\ Ahead \in 0..2
          /\ 4 * Remaining - Owed \in Nat
          /\ Parked \in Nat /\ numGPUs \in Nat /\ Parked <= numGPUs
<1> SUFFICES ASSUME IInv
             PROVE  /\ Remaining \in Nat /\ Owed \in {0, 1} /\ Ahead \in 0..2
                    /\ 4 * Remaining - Owed \in Nat
                    /\ Parked \in Nat /\ numGPUs \in Nat /\ Parked <= numGPUs
  OBVIOUS
<1>1. TypeOK /\ Devices /\ Refused
  BY DEF IInv
<1>2. Remaining \in Nat /\ numCPUs \in Nat /\ numGPUs \in {0, 1} /\ nCPUs \in Nat
  BY <1>1, Sizes DEF TypeOK
<1>3. Owed \in {0, 1} /\ Ahead \in 0..2
  BY DEF Owed, Ahead
<1>4. 4 * Remaining - Owed \in Nat
  <2>1. CASE refused = NoThread
    BY <1>2, <2>1 DEF Owed
  <2>2. CASE refused # NoThread
    <3>1. Remaining > 0
      BY <1>1, <2>2 DEF Refused, Remaining, TypeOK
    <3>2. QED BY <1>2, <2>2, <3>1 DEF Owed
  <2>3. QED BY <2>1, <2>2
<1>5. Parked \in Int /\ Parked >= 0 /\ Cardinality(OnGPU) + Parked <= numGPUs
  BY <1>1, <1>2 DEF Parked, Devices
<1>6. Parked \in Nat /\ Parked <= numGPUs
  BY <1>2, <1>5, Holders
<1>7. QED BY <1>2, <1>3, <1>4, <1>6

(* StepsLeft, part by part. *)
LEMMA StepsLeftParts ==
  IInv =>
    StepsLeft = 4 * Remaining - Owed + 3 * (numGPUs - Parked) + Cardinality(Holding)
                  + Cardinality(Running) + Cardinality(Unmeasured) + Ahead
<1> SUFFICES ASSUME IInv
             PROVE  StepsLeft = 4 * Remaining - Owed + 3 * (numGPUs - Parked)
                                  + Cardinality(Holding) + Cardinality(Running)
                                  + Cardinality(Unmeasured) + Ahead
  OBVIOUS
<1>1. Remaining \in Nat /\ Owed \in {0, 1} /\ Parked \in Nat /\ numGPUs \in Nat
  BY PartsNat
<1>2. StepsLeft = 4 * Remaining - Owed + 3 * (numGPUs - Parked) + Cardinality(Holding)
                    + Cardinality(Running) + Cardinality(Unmeasured)
                    + (IF eof THEN 0 ELSE 1) + (IF inCall THEN 1 ELSE 0)
  BY DEF StepsLeft, Owed, Holding, Running, Unmeasured
<1>3. QED BY <1>1, <1>2, StagesFinite DEF Ahead

(* StepsLeft is natural. *)
LEMMA StepsLeftNat == IInv => StepsLeft \in Nat
<1> SUFFICES ASSUME IInv PROVE StepsLeft \in Nat
  OBVIOUS
<1>1. /\ 4 * Remaining - Owed \in Nat /\ Ahead \in Nat
      /\ Parked \in Nat /\ numGPUs \in Nat /\ Parked <= numGPUs
  BY PartsNat
<1>2. 3 * (numGPUs - Parked) \in Nat
  BY <1>1
<1>3. QED BY <1>1, <1>2, StepsLeftParts, StagesFinite

(* All of this holds before and after a step. *)
LEMMA StepsLeftBoth ==
  ASSUME IInv, IInv'
  PROVE  /\ StepsLeft = 4 * Remaining - Owed + 3 * (numGPUs - Parked) + Cardinality(Holding)
                          + Cardinality(Running) + Cardinality(Unmeasured) + Ahead
         /\ StepsLeft' = 4 * Remaining' - Owed' + 3 * (numGPUs' - Parked')
                           + Cardinality(Holding') + Cardinality(Running')
                           + Cardinality(Unmeasured') + Ahead'
         /\ Remaining \in Nat /\ Owed \in {0, 1} /\ Ahead \in 0..2
         /\ Parked \in Nat /\ numGPUs \in Nat
         /\ Remaining' \in Nat /\ Owed' \in {0, 1} /\ Ahead' \in 0..2
         /\ Parked' \in Nat /\ numGPUs' \in Nat
         /\ StepsLeft \in Nat /\ StepsLeft' \in Nat
         /\ Cardinality(Holding') \in Nat /\ Cardinality(Running') \in Nat
         /\ Cardinality(Unmeasured') \in Nat
<1>1. IInv' => (StepsLeft = 4 * Remaining - Owed + 3 * (numGPUs - Parked)
                              + Cardinality(Holding) + Cardinality(Running)
                              + Cardinality(Unmeasured) + Ahead)'
  BY StepsLeftParts, PTL
<1>2. IInv' => (/\ Remaining \in Nat /\ Owed \in {0, 1} /\ Ahead \in 0..2
                /\ 4 * Remaining - Owed \in Nat
                /\ Parked \in Nat /\ numGPUs \in Nat /\ Parked <= numGPUs)'
  BY PartsNat, PTL
<1>3. IInv' => (StepsLeft \in Nat)'
  BY StepsLeftNat, PTL
<1>4. (/\ IsFiniteSet(Holding) /\ IsFiniteSet(Running) /\ IsFiniteSet(Unmeasured)
       /\ Cardinality(Holding) \in Nat /\ Cardinality(Running) \in Nat
       /\ Cardinality(Unmeasured) \in Nat)'
  BY StagesFinite, PTL
<1>5. QED BY <1>1, <1>2, <1>3, <1>4, StepsLeftParts, PartsNat, StepsLeftNat

(* How the numbers change when one thread moves. *)
LEMMA StagesMove ==
  ASSUME NEW t \in Threads,
         \A u \in Threads \ {t} : pc'[u] = pc[u] /\ bundle'[u] = bundle[u]
  PROVE  /\ Cardinality(Holding') = Cardinality(Holding)
              + (IF pc'[t] # "free" THEN 1 ELSE 0) - (IF pc[t] # "free" THEN 1 ELSE 0)
         /\ Cardinality(Running') = Cardinality(Running)
              + (IF pc'[t] = "run" THEN 1 ELSE 0) - (IF pc[t] = "run" THEN 1 ELSE 0)
         /\ Cardinality(Unmeasured') = Cardinality(Unmeasured)
              + (IF pc'[t] \in {"run", "measure"} /\ bundle'[t].type = GPU THEN 1 ELSE 0)
              - (IF pc[t] \in {"run", "measure"} /\ bundle[t].type = GPU THEN 1 ELSE 0)
<1>1. /\ Holding \ {t} = Holding' \ {t}
      /\ t \in Holding' <=> pc'[t] # "free"
      /\ t \in Holding <=> pc[t] # "free"
  BY DEF Holding
<1>2. /\ Running \ {t} = Running' \ {t}
      /\ t \in Running' <=> pc'[t] = "run"
      /\ t \in Running <=> pc[t] = "run"
  BY DEF Running
<1>3. /\ Unmeasured \ {t} = Unmeasured' \ {t}
      /\ t \in Unmeasured' <=> pc'[t] \in {"run", "measure"} /\ bundle'[t].type = GPU
      /\ t \in Unmeasured <=> pc[t] \in {"run", "measure"} /\ bundle[t].type = GPU
  BY DEF Unmeasured
<1>4. Cardinality(Holding') = Cardinality(Holding) + (IF t \in Holding' THEN 1 ELSE 0)
                                                   - (IF t \in Holding THEN 1 ELSE 0)
  BY <1>1, StagesFinite, OneMoves
<1>5. Cardinality(Running') = Cardinality(Running) + (IF t \in Running' THEN 1 ELSE 0)
                                                   - (IF t \in Running THEN 1 ELSE 0)
  BY <1>2, StagesFinite, OneMoves
<1>6. Cardinality(Unmeasured') = Cardinality(Unmeasured)
                                   + (IF t \in Unmeasured' THEN 1 ELSE 0)
                                   - (IF t \in Unmeasured THEN 1 ELSE 0)
  BY <1>3, StagesFinite, OneMoves
<1>7. QED BY <1>1, <1>2, <1>3, <1>4, <1>5, <1>6

(* What taking a chunk does to the parts: a thread more is running.        *)
LEMMA ClaimParts ==
  ASSUME IInv, NEW t \in Threads, pc[t] = "free", begin < Last, NEW size \in Nat,
         NEW type \in {CPU, GPU}, Claim(t, begin + size, type), IInv'
  PROVE  /\ Cardinality(Holding') = Cardinality(Holding) + 1
         /\ Cardinality(Running') = Cardinality(Running) + 1
         /\ type = CPU => Cardinality(Unmeasured') = Cardinality(Unmeasured)
         /\ type = GPU => Cardinality(Unmeasured') = Cardinality(Unmeasured) + 1
         /\ Remaining' <= Remaining
         /\ size > 0 => Remaining' <= Remaining - 1
<1>1. TypeOK /\ Places
  BY DEF IInv
<1> DEFINE e == Min2(begin + size, Last)
<1>2. e \in begin..Last /\ (size > 0 => begin < e)
  BY <1>1, ChunkFits
<1>3. begin' = e
  BY DEF Claim
<1> HIDE DEF e
<1>4. /\ pc'[t] = "run" /\ bundle'[t].type = type
      /\ \A u \in Threads \ {t} : pc'[u] = pc[u] /\ bundle'[u] = bundle[u]
  BY <1>1 DEF Claim, TypeOK
<1>5. /\ Cardinality(Holding') = Cardinality(Holding) + 1 - 0
      /\ Cardinality(Running') = Cardinality(Running) + 1 - 0
      /\ Cardinality(Unmeasured') = Cardinality(Unmeasured)
                                      + (IF type = GPU THEN 1 ELSE 0) - 0
  BY <1>4, StagesMove
<1>6. begin \in Int /\ Last \in Int /\ e \in Int
  BY <1>1, <1>2 DEF TypeOK
<1>7. Remaining' <= Remaining /\ (size > 0 => Remaining' <= Remaining - 1)
  BY <1>2, <1>3, <1>6 DEF Remaining
<1>8. QED BY <1>5, <1>7, StagesFinite DEF CPU, GPU

(* A chunk with the token shortens the call: three steps more for the      *)
(* thread, four less for an iteration.                                     *)
LEMMA ClaimGPUShortens ==
  ASSUME IInv, IInv', NEW t \in Threads, GiveChunk(t) \/ ConcordGPU(t)
  PROVE  StepsLeft' < StepsLeft
<1>1. /\ MayEnter(t) /\ begin < Last
      /\ UNCHANGED <<call, eof, refused, nCPUs>>
  BY DEF GiveChunk, ConcordGPU, TakeToken
<1>2. PICK size \in Nat \ {0} : Claim(t, begin + size, GPU)
  <2>1. CASE GiveChunk(t)
    BY <2>1 DEF GiveChunk, IInv, TypeOK
  <2>2. CASE ConcordGPU(t)
    BY <2>2 DEF ConcordGPU
  <2>3. QED BY <2>1, <2>2
<1>3. /\ Cardinality(Holding') = Cardinality(Holding) + 1
      /\ Cardinality(Running') = Cardinality(Running) + 1
      /\ Cardinality(Unmeasured') = Cardinality(Unmeasured) + 1
      /\ Remaining' <= Remaining - 1
  <2>1. GPU \in {CPU, GPU} /\ pc[t] = "free" /\ size > 0
    BY <1>1 DEF MayEnter
  <2>2. QED BY <1>1, <1>2, <2>1, ClaimParts
<1>4. Owed' = Owed /\ Ahead' = Ahead /\ numGPUs' = numGPUs /\ Parked' = Parked
  BY <1>1 DEF Owed, Ahead, Parked, numCPUs, call
<1>5. QED BY <1>3, <1>4, StepsLeftBoth, StagesFinite

(* Parking an accelerator pays for the chunk its core gets, empty or not.  *)
LEMMA ConcordCPUShortens ==
  ASSUME IInv, IInv', NEW t \in Threads, ConcordCPU(t)
  PROVE  StepsLeft' < StepsLeft
<1>1. /\ TakeToken(t) /\ MayEnter(t) /\ begin < Last /\ stopConditionModeOn'
      /\ UNCHANGED <<call, eof, refused>> /\ nCPUs' = nCPUs + 1
      /\ Claim(t, begin + Remaining \div nCPUs, CPU)
  BY DEF ConcordCPU, TakeToken
<1>2. Remaining \div nCPUs \in Nat
  <2>1. nCPUs > 1 /\ nCPUs \in Nat /\ Remaining \in Nat
    BY <1>1, StopMeansCores, Sizes DEF IInv, TypeOK
  <2>2. QED BY <2>1, Share
<1>3. /\ Cardinality(Holding') = Cardinality(Holding) + 1
      /\ Cardinality(Running') = Cardinality(Running) + 1
      /\ Cardinality(Unmeasured') = Cardinality(Unmeasured)
      /\ Remaining' <= Remaining
  <2> DEFINE size == Remaining \div nCPUs
  <2>1. CPU \in {CPU, GPU} /\ pc[t] = "free" /\ size \in Nat /\ Claim(t, begin + size, CPU)
    BY <1>1, <1>2 DEF MayEnter
  <2> HIDE DEF size
  <2>2. QED BY <1>1, <2>1, ClaimParts
<1>4. Owed' = Owed /\ Ahead' = Ahead /\ numGPUs' = numGPUs
  BY <1>1 DEF Owed, Ahead, call
<1>5. Parked' = Parked + 1
  <2>1. Parked' = (nCPUs + 1) - numCPUs /\ Parked = nCPUs - numCPUs
    BY <1>1 DEF Parked, numCPUs, call
  <2>2. nCPUs \in Int /\ numCPUs \in Int
    <3>1. TypeOK
      BY DEF IInv
    <3>2. nCPUs \in Int
      BY <3>1 DEF TypeOK
    <3>3. QED BY <3>1, <3>2, Sizes DEF TypeOK
  <2>3. (nCPUs + 1) - numCPUs = (nCPUs - numCPUs) + 1
    BY <2>2
  <2>4. QED BY <2>1, <2>3
<1>6. QED BY <1>3, <1>4, <1>5, StepsLeftBoth, StagesFinite

(* The chunk of a refused thread: two steps more for the thread and the    *)
(* refusal repaid, four less for an iteration.                             *)
LEMMA SerialCPUShortens ==
  ASSUME IInv, IInv', NEW t \in Threads, SerialCPU(t)
  PROVE  StepsLeft' < StepsLeft
<1>1. /\ refused = t /\ refused # NoThread /\ refused' = NoThread
      /\ Claim(t, begin + NextChunkCPU, CPU) /\ UNCHANGED <<call, eof, nCPUs>>
  BY DEF SerialCPU
<1>2. pc[t] = "free" /\ begin < Last /\ NextChunkCPU \in Nat /\ NextChunkCPU > 0
  BY <1>1, CoreChunk DEF IInv, Refused
<1>3. /\ Cardinality(Holding') = Cardinality(Holding) + 1
      /\ Cardinality(Running') = Cardinality(Running) + 1
      /\ Cardinality(Unmeasured') = Cardinality(Unmeasured)
      /\ Remaining' <= Remaining - 1
  <2>1. CPU \in {CPU, GPU}
    OBVIOUS
  <2>2. QED BY <1>1, <1>2, <2>1, ClaimParts
<1>4. Ahead' = Ahead /\ numGPUs' = numGPUs /\ Parked' = Parked
  BY <1>1 DEF Ahead, Parked, numCPUs, call
<1>5. Owed = 1 /\ Owed' = 0
  BY <1>1 DEF Owed
<1>6. QED BY <1>3, <1>4, <1>5, StepsLeftBoth, StagesFinite

(* A refusal, the end of the input and the return each count for one.      *)
LEMMA SerialShortens ==
  ASSUME IInv, IInv', (\E t \in Threads : RefuseToken(t) \/ SerialEnd(t)) \/ PipeReturn
  PROVE  StepsLeft' < StepsLeft
<1>1. UNCHANGED <<begin, pc, bundle, nCPUs, numGPUs>>
  BY DEF RefuseToken, SerialEnd, PipeReturn, call
<1>2. /\ Remaining' = Remaining /\ numGPUs' = numGPUs /\ Parked' = Parked
      /\ Holding' = Holding /\ Running' = Running /\ Unmeasured' = Unmeasured
  BY <1>1 DEF Remaining, Parked, numCPUs, Holding, Running, Unmeasured
<1> DEFINE Rest == 4 * Remaining + 3 * (numGPUs - Parked) + Cardinality(Holding)
                     + Cardinality(Running) + Cardinality(Unmeasured)
<1>3. /\ Rest \in Int /\ StepsLeft = Rest - Owed + Ahead /\ StepsLeft' = Rest - Owed' + Ahead'
      /\ Owed \in {0, 1} /\ Ahead \in 0..2
  <2>1. StepsLeft' = 4 * Remaining - Owed' + 3 * (numGPUs - Parked) + Cardinality(Holding)
                       + Cardinality(Running) + Cardinality(Unmeasured) + Ahead'
    BY <1>2, StepsLeftBoth
  <2>2. QED BY <2>1, StepsLeftBoth, StagesFinite
<1> HIDE DEF Rest
<1>4. CASE \E t \in Threads : RefuseToken(t)
  <2>1. refused = NoThread /\ refused' # NoThread /\ UNCHANGED <<inCall, eof>>
    BY <1>4 DEF RefuseToken, MayEnter, call
  <2>2. Owed = 0 /\ Owed' = 1 /\ Ahead' = Ahead
    BY <2>1 DEF Owed, Ahead
  <2>3. QED BY <1>3, <2>2
<1>5. CASE \E t \in Threads : SerialEnd(t)
  <2>1. inCall /\ ~ eof /\ eof' /\ UNCHANGED <<inCall, refused>>
    BY <1>5 DEF SerialEnd, MayEnter, call
  <2>2. Ahead = 2 /\ Ahead' = 1 /\ Owed' = Owed
    BY <2>1 DEF Owed, Ahead
  <2>3. QED BY <1>3, <2>2
<1>6. CASE PipeReturn
  <2>1. inCall /\ eof /\ ~ inCall' /\ UNCHANGED <<eof, refused>>
    BY <1>6 DEF PipeReturn
  <2>2. Ahead = 1 /\ Ahead' = 0 /\ Owed' = Owed
    BY <2>1 DEF Owed, Ahead
  <2>3. QED BY <1>3, <2>2
<1>7. QED BY <1>4, <1>5, <1>6

(* So does each step of the parallel stage, at the least. *)
LEMMA ParallelShortens ==
  ASSUME IInv, IInv', NEW t \in Threads,
         \/ OperatorGPU(t) \/ OperatorCPU(t) \/ UpdateFG(t)
         \/ Measuring(t) \/ ReleaseToken(t)
  PROVE  StepsLeft' < StepsLeft
<1>1. TypeOK /\ Places
  BY DEF IInv
<1>2. UNCHANGED <<call, eof, begin, refused, nCPUs>>
  BY DEF OperatorGPU, OperatorCPU, UpdateFG, Measuring, ReleaseToken
<1>3. \A u \in Threads \ {t} : pc'[u] = pc[u] /\ bundle'[u] = bundle[u]
  BY <1>1 DEF OperatorGPU, OperatorCPU, UpdateFG, Measuring, ReleaseToken, TypeOK
<1>4. Cardinality(Holding') + Cardinality(Running') + Cardinality(Unmeasured')
        < Cardinality(Holding) + Cardinality(Running) + Cardinality(Unmeasured)
  <2>1. CASE OperatorGPU(t)
    <3>1. pc[t] = "run" /\ pc'[t] = "measure" /\ bundle'[t] = bundle[t] /\ bundle[t].type = GPU
      BY <1>1, <2>1 DEF OperatorGPU, TypeOK
    <3>2. /\ Cardinality(Holding') = Cardinality(Holding) + 1 - 1
          /\ Cardinality(Running') = Cardinality(Running) + 0 - 1
          /\ Cardinality(Unmeasured') = Cardinality(Unmeasured) + 1 - 1
      BY <1>3, <3>1, StagesMove
    <3>3. QED BY <3>2, StagesFinite
  <2>2. CASE OperatorCPU(t)
    <3>1. pc[t] = "run" /\ pc'[t] = "rate" /\ bundle'[t] = bundle[t] /\ bundle[t].type = CPU
      BY <1>1, <2>2 DEF OperatorCPU, TypeOK
    <3>2. bundle[t].type # GPU /\ bundle'[t].type # GPU
      BY <3>1 DEF CPU, GPU
    <3>3. /\ Cardinality(Holding') = Cardinality(Holding) + 1 - 1
          /\ Cardinality(Running') = Cardinality(Running) + 0 - 1
          /\ Cardinality(Unmeasured') = Cardinality(Unmeasured) + 0 - 0
      BY <1>3, <3>1, <3>2, StagesMove
    <3>4. QED BY <3>3, StagesFinite
  <2>3. CASE UpdateFG(t)
    <3>1. pc[t] = "rate" /\ pc'[t] = "free"
      BY <1>1, <2>3 DEF UpdateFG, TypeOK
    <3>2. /\ Cardinality(Holding') = Cardinality(Holding) + 0 - 1
          /\ Cardinality(Running') = Cardinality(Running) + 0 - 0
          /\ Cardinality(Unmeasured') = Cardinality(Unmeasured) + 0 - 0
      BY <1>3, <3>1, StagesMove
    <3>3. QED BY <3>2, StagesFinite
  <2>4. CASE Measuring(t)
    <3>1. pc[t] = "measure" /\ pc'[t] = "token" /\ bundle'[t] = bundle[t]
      BY <1>1, <2>4 DEF Measuring, TypeOK
    <3>2. bundle[t].type = GPU
      BY <1>1, <3>1 DEF Places
    <3>3. /\ Cardinality(Holding') = Cardinality(Holding) + 1 - 1
          /\ Cardinality(Running') = Cardinality(Running) + 0 - 0
          /\ Cardinality(Unmeasured') = Cardinality(Unmeasured) + 0 - 1
      BY <1>3, <3>1, <3>2, StagesMove
    <3>4. QED BY <3>3, StagesFinite
  <2>5. CASE ReleaseToken(t)
    <3>1. pc[t] = "token" /\ pc'[t] = "free"
      BY <1>1, <2>5 DEF ReleaseToken, TypeOK
    <3>2. /\ Cardinality(Holding') = Cardinality(Holding) + 0 - 1
          /\ Cardinality(Running') = Cardinality(Running) + 0 - 0
          /\ Cardinality(Unmeasured') = Cardinality(Unmeasured) + 0 - 0
      BY <1>3, <3>1, StagesMove
    <3>3. QED BY <3>2, StagesFinite
  <2>6. QED BY <2>1, <2>2, <2>3, <2>4, <2>5
<1>5. Remaining' = Remaining /\ Owed' = Owed /\ Ahead' = Ahead
      /\ numGPUs' = numGPUs /\ Parked' = Parked
  BY <1>2 DEF Remaining, Owed, Ahead, Parked, numCPUs, call
<1>6. QED BY <1>4, <1>5, StepsLeftBoth, StagesFinite

(* Every step inside a call shortens it. *)
LEMMA StepShortens ==
  ASSUME IInv, IInv', Next, inCall
  PROVE  StepsLeft' < StepsLeft
<1>1. CASE \E t \in Threads : GiveChunk(t) \/ ConcordGPU(t)
  BY <1>1, ClaimGPUShortens
<1>2. CASE \E t \in Threads : ConcordCPU(t)
  BY <1>2, ConcordCPUShortens
<1>3. CASE \E t \in Threads : SerialCPU(t)
  BY <1>3, SerialCPUShortens
<1>4. CASE (\E t \in Threads : RefuseToken(t) \/ SerialEnd(t)) \/ PipeReturn
  BY <1>4, SerialShortens
<1>5. CASE \E t \in Threads :
             \/ OperatorGPU(t) \/ OperatorCPU(t) \/ UpdateFG(t)
             \/ Measuring(t) \/ ReleaseToken(t)
  BY <1>5, ParallelShortens
<1>6. \A t \in Threads :
        Explore(t) \/ Restart(t) \/ Stabilise(t) \/ Refit(t) \/ KeepPoints(t) => Measuring(t)
  BY DEF Explore, Restart, Stabilise, Refit, KeepPoints
<1>7. ~ ParallelForCall
  BY DEF ParallelForCall
<1>8. QED BY <1>1, <1>2, <1>3, <1>4, <1>5, <1>6, <1>7 DEF Next

(* A call starts with MostSteps steps before it. *)
LEMMA CallSteps ==
  ASSUME IInv, IInv', ParallelForCall
  PROVE  StepsLeft' = MostSteps'
<1>1. /\ begin' = First /\ ~ eof' /\ inCall' /\ nCPUs' = numCPUs
      /\ UNCHANGED <<pc, bundle, refused, numGPUs>>
      /\ \A t \in Threads : pc[t] = "free"
  BY DEF ParallelForCall, IInv, Places
<1>2. refused = NoThread
  BY DEF ParallelForCall, IInv, Refused
<1>3. Holding' = {} /\ Running' = {} /\ Unmeasured' = {}
  BY <1>1 DEF Holding, Running, Unmeasured
<1>4. Cardinality(Holding') = 0 /\ Cardinality(Running') = 0 /\ Cardinality(Unmeasured') = 0
  BY <1>3, FS_EmptySet
<1>5. Remaining' = Last - First /\ Owed' = 0 /\ Ahead' = 2
  BY <1>1, <1>2 DEF Remaining, Owed, Ahead
<1>6. Parked' = 0
  <2>1. Parked' = numCPUs - numCPUs /\ numCPUs \in Int
    BY <1>1, Sizes DEF Parked, numCPUs, IInv
  <2>2. QED BY <2>1
<1>7. QED BY <1>4, <1>5, <1>6, StepsLeftBoth DEF MostSteps

(* A call takes at most MostSteps steps, whichever threads take them: each *)
(* uses up one, there are never more left, and never fewer than none.      *)
THEOREM CallIsFinite == Spec => CallShortens /\ [](StepsLeft \in 0..MostSteps)
<1>1. Init => StepsLeft \in 0..MostSteps
  <2>1. SUFFICES ASSUME Init PROVE StepsLeft \in 0..MostSteps
    OBVIOUS
  <2>2. IInv
    BY <2>1, InitIInv
  <2>3. Remaining = 0 /\ Owed = 0 /\ Ahead = 0 /\ Holding = {} /\ Running = {} /\ Unmeasured = {}
    BY <2>1 DEF Init, Remaining, Owed, Ahead, Holding, Running, Unmeasured
  <2>4. Cardinality(Holding) = 0 /\ Cardinality(Running) = 0 /\ Cardinality(Unmeasured) = 0
    BY <2>3, FS_EmptySet
  <2>5. Parked = 0
    <3>1. Parked = numCPUs - numCPUs /\ numCPUs \in Int
      BY <2>1, <2>2, Sizes DEF Init, Parked, IInv
    <3>2. QED BY <3>1
  <2>6. StepsLeft = 3 * numGPUs /\ numGPUs \in Nat
    BY <2>2, <2>3, <2>4, <2>5, StepsLeftParts, PartsNat
  <2>7. QED BY <2>6 DEF MostSteps
<1>2. IInv /\ IInv' /\ [Next]_vars => [inCall => StepsLeft' < StepsLeft]_vars
  BY StepShortens
<1>3. IInv /\ IInv' /\ StepsLeft \in 0..MostSteps /\ [Next]_vars
        => (StepsLeft \in 0..MostSteps)'
  <2> SUFFICES ASSUME IInv, IInv', StepsLeft \in 0..MostSteps, [Next]_vars
               PROVE  StepsLeft' \in 0..MostSteps'
    OBVIOUS
  <2>1. StepsLeft' \in Nat /\ StepsLeft \in Nat /\ MostSteps \in Nat /\ MostSteps' \in Nat
    BY StepsLeftBoth DEF MostSteps
  <2>2. MostSteps' = MostSteps
    BY DEF MostSteps, vars, call, Next, ParallelForCall, GiveChunk, ConcordGPU, ConcordCPU,
           TakeToken, RefuseToken, SerialCPU, SerialEnd, OperatorGPU, Explore, Restart,
           Stabilise, Refit, KeepPoints, Measuring, ReleaseToken, OperatorCPU, UpdateFG,
           PipeReturn
  <2>3. CASE Next /\ inCall
    <3>1. StepsLeft' < StepsLeft
      BY <2>3, StepShortens
    <3>2. QED BY <2>1, <2>2, <3>1
  <2>4. CASE Next /\ ~ inCall
    <3>1. ParallelForCall
      BY <2>4 DEF Next, GiveChunk, ConcordGPU, ConcordCPU, TakeToken, RefuseToken, SerialCPU,
                  SerialEnd, MayEnter, OperatorGPU, Explore, Restart, Stabilise, Refit,
                  KeepPoints, Measuring, ReleaseToken, OperatorCPU, UpdateFG, PipeReturn,
                  IInv, Places, Refused
    <3>2. QED BY <2>1, <3>1, CallSteps
  <2>5. CASE UNCHANGED vars
    <3>1. StepsLeft' = StepsLeft
      BY <2>5 DEF vars, call, StepsLeft, Remaining, Parked, numCPUs
    <3>2. QED BY <2>2, <3>1
  <2>6. QED BY <2>3, <2>4, <2>5
<1>4. QED BY <1>1, <1>2, <1>3, Invariance, PTL DEF Spec, CallShortens

-----------------------------------------------------------------------------
(* The scheduler is a pipeline: every step is one of the pipeline's, or    *)
(* invisible in it.                                                        *)
THEOREM ImplementsPipeline == Spec => P!Spec
<1>1. Init => P!Init
  BY InitIInv
<1>2. QED BY <1>1, StepPipeline, Invariance, PTL DEF Spec, P!Spec

=============================================================================
