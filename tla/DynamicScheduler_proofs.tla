------------------------ MODULE DynamicScheduler_proofs ------------------------
(***************************************************************************)
(* Proofs about the Dynamic scheduler of the ZC702 hosts, for every number *)
(* of cores, iteration space, chunk size and throughput, with and without  *)
(* the accelerator and in both builds.                                     *)
(***************************************************************************)
EXTENDS DynamicScheduler, Counting, FiniteSetTheorems, TLAPS

USE ThreadsAssumption, NumbersAssumption

(* What a thread still has to run: it keeps its Bundle a while longer.     *)
HeldBy == [t \in Threads |-> IF pc[t] = "run" THEN Held(t) ELSE {}]

P == INSTANCE Pipeline_proofs WITH held <- HeldBy

-----------------------------------------------------------------------------
(* The inductive invariant.                                                *)

(* A free thread has no Bundle, and only tokens are given back. *)
Places ==
  /\ \A t \in Threads : pc[t] = "free" <=> bundle[t].type = "none"
  /\ \A t \in Threads : pc[t] = "token" => ~ dedicated /\ bundle[t].type = "GPU"
  /\ ~ inCall => \A t \in Threads : pc[t] = "free"

(* A refused thread is about to take a chunk for its core, which exists. *)
Refused ==
  refused # NoThread =>
    ~ dedicated /\ inCall /\ ~ eof /\ begin < Last /\ pc[refused] = "free" /\ numCPUs > 0

(* Without tokens the accelerator is the main thread's. *)
Owned ==
  dedicated => \A t \in Threads : bundle[t].type = "GPU" => t = Main /\ numGPUs = 1

(* There are no tokens before the first call. *)
Started == calls = 0 => ~ inCall /\ gpuStatus = 0 /\ refused = NoThread

IInv ==
  /\ TypeOK
  /\ P!Inv
  /\ Places
  /\ Refused
  /\ Owned
  /\ Started
  /\ TokensConserved
  /\ OneChunkOnAccelerator
  /\ TotalsByDevice

-----------------------------------------------------------------------------
(* Arithmetic and sets.                                                    *)

(* The larger of two numbers. *)
LEMMA MaxPair ==
  ASSUME NEW a \in Int, NEW b \in Int
  PROVE  Max({a, b}) = IF a >= b THEN a ELSE b
BY DEF Max

(* The smaller of two numbers. *)
LEMMA MinPair ==
  ASSUME NEW a \in Int, NEW b \in Int
  PROVE  Min({a, b}) = IF a <= b THEN a ELSE b
BY DEF Min

(* A share is a natural number, and no more than the whole. *)
LEMMA Share ==
  ASSUME NEW a \in Nat, NEW b \in Nat \ {0}
  PROVE  a \div b \in Nat /\ a \div b <= a
OBVIOUS

(* A product of natural numbers is one. *)
LEMMA MulNat ==
  ASSUME NEW a \in Nat, NEW b \in Nat
  PROVE  a * b \in Nat
OBVIOUS

(* One call more. *)
LEMMA OneMore ==
  ASSUME NEW c \in Nat, NEW n \in Nat
  PROVE  (c - 1) * n + n = ((c + 1) - 1) * n
OBVIOUS

(* The chunk of a core fits into what is left: line 163 is never reached.  *)
LEMMA CoreChunkFits ==
  ASSUME TypeOK, begin < Last, numCPUs > 0
  PROVE  NextChunkCPU \in 1..Remaining
<1>1. Remaining \in Nat \ {0}
  BY DEF TypeOK, Remaining
<1>2. numCPUs \in Nat \ {0}
  OBVIOUS
<1> DEFINE share == Max({Remaining \div numCPUs, 1})
           byFG == (ChunkGPU * fG[2]) \div fG[1]
<1>3. share \in 1..Remaining
  <2>1. Remaining \div numCPUs \in Nat /\ Remaining \div numCPUs <= Remaining
    BY <1>1, <1>2, Share
  <2>2. QED BY <1>1, <2>1, MaxPair
<1>4. byFG \in Nat
  <2>1. fG[1] \in Nat \ {0} /\ fG[2] \in Nat
    BY DEF TypeOK
  <2>2. ChunkGPU * fG[2] \in Nat
    BY <2>1, MulNat
  <2>3. QED BY <2>1, <2>2, Share
<1> DEFINE least == Min({byFG, share})
<1>5. NextChunkCPU = IF numGPUs = 0 THEN share ELSE Max({least, 1})
  BY DEF NextChunkCPU
<1> HIDE DEF share, byFG
<1>6. least \in Nat /\ least <= share
  BY <1>3, <1>4, MinPair
<1> HIDE DEF least
<1>7. Max({least, 1}) = IF least >= 1 THEN least ELSE 1
  BY <1>6, MaxPair
<1>8. QED BY <1>1, <1>3, <1>5, <1>6, <1>7

(* The end of a chunk of the accelerator lies in the space. *)
LEMMA AcceleratorChunkFits ==
  ASSUME TypeOK
  PROVE  Min({begin + ChunkGPU, Last}) \in begin..Last
<1>1. begin \in Nat /\ begin <= Last
  BY DEF TypeOK
<1>2. Min({begin + ChunkGPU, Last})
        = IF begin + ChunkGPU <= Last THEN begin + ChunkGPU ELSE Last
  BY <1>1, MinPair
<1>3. QED BY <1>1, <1>2

(* With no core there is only the main thread. *)
LEMMA NoCores ==
  ASSUME numCPUs = 0
  PROVE  Threads = {Main} /\ numGPUs = 1
<1>1. numGPUs = 1 /\ Cardinality(Threads) = 1
  OBVIOUS
<1>2. QED BY <1>1, FS_Singleton

(* The threads that have the accelerator, and how their number changes. *)
LEMMA Holders ==
  /\ IsFiniteSet(OnGPU)
  /\ Cardinality(OnGPU) \in Nat
  /\ \A t : Cardinality(OnGPU \union {t})
              = IF t \in OnGPU THEN Cardinality(OnGPU) ELSE Cardinality(OnGPU) + 1
  /\ \A t : Cardinality(OnGPU \ {t})
              = IF t \in OnGPU THEN Cardinality(OnGPU) - 1 ELSE Cardinality(OnGPU)
<1>1. IsFiniteSet(OnGPU)
  <2>1. OnGPU \in SUBSET Threads
    BY DEF OnGPU
  <2>2. QED BY <2>1, FS_Subset
<1>2. Cardinality(OnGPU) \in Nat
  BY <1>1, FS_CardinalityType
<1>3. QED BY <1>1, <1>2, FS_AddElement, FS_RemoveElement

-----------------------------------------------------------------------------
(* The scheduler is a pipeline.                                            *)

(* Leaving the serial stage with iterations takes them. *)
LEMMA ClaimTakes ==
  ASSUME IInv, NEW t \in Threads, inCall, ~ eof, pc[t] = "free",
         NEW e \in begin..Last, NEW type \in {"CPU", "GPU"}, Claim(t, e, type),
         UNCHANGED <<inCall, eof, times>>
  PROVE  P!Next
<1>1. TypeOK
  BY DEF IInv
<1>2. /\ begin' = e /\ begin \in First..Last /\ e \in First..Last
      /\ pc' = [pc EXCEPT ![t] = "run"]
      /\ bundle' = [bundle EXCEPT ![t] = [begin |-> begin, end |-> e, type |-> type]]
  BY <1>1 DEF Claim, TypeOK
<1>3. HeldBy[t] = {}
  BY DEF HeldBy
<1>4. HeldBy' = [HeldBy EXCEPT ![t] = begin..(e - 1)]
  <2>1. Held(t)' = begin..(e - 1) /\ pc'[t] = "run"
    BY <1>1, <1>2 DEF Held, TypeOK
  <2>2. \A u \in Threads \ {t} : Held(u)' = Held(u) /\ pc'[u] = pc[u]
    BY <1>1, <1>2 DEF Held, TypeOK
  <2>3. QED BY <2>1, <2>2 DEF HeldBy
<1>5. P!Take(t, e)
  BY <1>2, <1>3, <1>4 DEF P!Take
<1>6. QED BY <1>2, <1>5 DEF P!Next

(* Running a chunk is a step of the pipeline. *)
LEMMA RunRuns ==
  ASSUME IInv, NEW t \in Threads, pc[t] = "run", RunChunk(t),
         pc' = [pc EXCEPT ![t] = "rate"],
         UNCHANGED <<inCall, begin, eof, bundle>>
  PROVE  P!Next
<1>1. TypeOK
  BY DEF IInv
<1>2. HeldBy[t] = Held(t)
  BY DEF HeldBy
<1>3. HeldBy' = [HeldBy EXCEPT ![t] = {}]
  <2>1. pc'[t] = "rate" /\ \A u \in Threads \ {t} : pc'[u] = pc[u]
    BY <1>1 DEF TypeOK
  <2>2. \A u \in Threads : Held(u)' = Held(u)
    BY DEF Held
  <2>3. QED BY <2>1, <2>2 DEF HeldBy
<1>4. P!Run(t)
  BY <1>2, <1>3 DEF P!Run, RunChunk, Space, P!Space
<1>5. QED BY <1>4 DEF P!Next

(* Every step of the scheduler is one of the pipeline, or none. *)
LEMMA StepPipeline == IInv /\ [Next]_vars => [P!Next]_(P!vars)
<1> SUFFICES ASSUME IInv, [Next]_vars PROVE [P!Next]_(P!vars)
  OBVIOUS
<1>1. TypeOK /\ Places /\ Refused
  BY DEF IInv
<1>2. CASE ParallelForCall
  <2>1. HeldBy' = HeldBy
    BY <1>2 DEF ParallelForCall, HeldBy, Held
  <2>2. P!Call
    BY <1>2, <2>1 DEF ParallelForCall, P!Call, Space, P!Space
  <2>3. QED BY <2>2 DEF P!Next
<1>3. ASSUME NEW t \in Threads, TakeToken(t) PROVE P!Next
  BY <1>1, <1>3, ClaimTakes, AcceleratorChunkFits DEF TakeToken, MayEnter, ClaimGPU
<1>4. CASE \E t \in Threads : RefuseToken(t)
  BY <1>4 DEF RefuseToken, P!vars, HeldBy, Held
<1>5. ASSUME NEW t \in Threads, inCall, ~ eof,
             pc[t] = "free", numCPUs > 0, begin < Last, ClaimCPU(t),
             UNCHANGED <<inCall, eof, times>>
      PROVE  P!Next
  <2>1. NextChunkCPU \in 1..Remaining
    BY <1>1, <1>5, CoreChunkFits
  <2>2. Claim(t, begin + NextChunkCPU, "CPU")
    BY <1>5, <2>1 DEF ClaimCPU, Remaining, TypeOK
  <2>3. begin + NextChunkCPU \in begin..Last
    BY <1>1, <2>1 DEF Remaining, TypeOK
  <2>4. QED BY <1>5, <2>2, <2>3, ClaimTakes
<1>6. ASSUME NEW t \in Threads, SerialCPU(t) PROVE P!Next
  <2>1. refused = t /\ refused # NoThread
    BY <1>6 DEF SerialCPU
  <2>2. QED BY <1>1, <1>5, <1>6, <2>1 DEF SerialCPU, Refused
<1>7. ASSUME NEW t \in Threads, SerialDedicated(t) PROVE P!Next
  <2>1. CASE t = Main /\ numGPUs > 0
    BY <1>1, <1>7, <2>1, ClaimTakes, AcceleratorChunkFits
       DEF SerialDedicated, MayEnter, ClaimGPU
  <2>2. CASE ~ (t = Main /\ numGPUs > 0)
    <3>1. numCPUs > 0
      BY <2>2, NoCores
    <3>2. QED BY <1>5, <1>7, <2>2, <3>1 DEF SerialDedicated, MayEnter
  <2>3. QED BY <2>1, <2>2
<1>8. CASE \E t \in Threads : SerialEnd(t)
  <2>1. begin = Last /\ inCall /\ ~ eof
    BY <1>1, <1>8 DEF SerialEnd, MayEnter, TypeOK
  <2>2. P!End
    BY <1>8, <2>1 DEF SerialEnd, P!End, HeldBy, Held
  <2>3. QED BY <2>2 DEF P!Next
<1>9. ASSUME NEW t \in Threads, OperatorGPU(t) \/ OperatorCPU(t) PROVE P!Next
  BY <1>9, RunRuns DEF OperatorGPU, OperatorCPU
<1>10. ASSUME NEW t \in Threads, UpdateFG(t) \/ ReleaseToken(t)
       PROVE  UNCHANGED P!vars
  <2>1. pc[t] # "run" /\ pc'[t] # "run"
    BY <1>1, <1>10 DEF UpdateFG, ReleaseToken, TypeOK
  <2>2. \A u \in Threads \ {t} : pc'[u] = pc[u] /\ bundle'[u] = bundle[u]
    BY <1>1, <1>10 DEF UpdateFG, ReleaseToken, TypeOK
  <2>3. HeldBy' = HeldBy
    BY <2>1, <2>2 DEF HeldBy, Held
  <2>4. QED BY <1>10, <2>3 DEF UpdateFG, ReleaseToken, P!vars
<1>11. CASE PipeReturn
  <2>1. HeldBy' = HeldBy /\ \A t \in Threads : HeldBy[t] = {}
    BY <1>11 DEF PipeReturn, HeldBy, Held
  <2>2. P!Return
    BY <1>11, <2>1 DEF PipeReturn, P!Return
  <2>3. QED BY <2>2 DEF P!Next
<1>12. CASE UNCHANGED vars
  BY <1>12 DEF vars, P!vars, HeldBy, Held
<1>13. QED
  BY <1>2, <1>3, <1>4, <1>6, <1>7, <1>8, <1>9, <1>10, <1>11, <1>12 DEF Next

-----------------------------------------------------------------------------
(* Every step keeps the invariant.                                         *)

(* What Claim does to the Bundles and the threads that have a token. *)
LEMMA ClaimKeeps ==
  ASSUME IInv, NEW t \in Threads, pc[t] = "free",
         NEW e \in begin..Last, NEW type \in {"CPU", "GPU"}, Claim(t, e, type)
  PROVE  /\ begin' \in First..Last
         /\ pc' \in [Threads -> {"free", "run", "rate", "token"}]
         /\ bundle' \in [Threads -> [begin : First..Last, end : First..Last,
                                     type : {"none", "CPU", "GPU"}]]
         /\ \A u \in Threads : pc'[u] = "free" <=> bundle'[u].type = "none"
         /\ \A u \in Threads : pc'[u] = "token" => ~ dedicated /\ bundle'[u].type = "GPU"
         /\ t \notin OnGPU
         /\ OnGPU' = IF type = "GPU" THEN OnGPU \union {t} ELSE OnGPU
<1>1. TypeOK /\ Places
  BY DEF IInv
<1>2. /\ begin' = e
      /\ pc' = [pc EXCEPT ![t] = "run"]
      /\ bundle' = [bundle EXCEPT ![t] = [begin |-> begin, end |-> e, type |-> type]]
  BY DEF Claim
<1>3. begin \in First..Last /\ e \in First..Last
  BY <1>1 DEF TypeOK
<1>4. begin' \in First..Last /\ pc' \in [Threads -> {"free", "run", "rate", "token"}]
  BY <1>1, <1>2, <1>3 DEF TypeOK
<1>5. bundle' \in [Threads -> [begin : First..Last, end : First..Last,
                              type : {"none", "CPU", "GPU"}]]
  BY <1>1, <1>2, <1>3 DEF TypeOK
<1>6. /\ pc'[t] = "run" /\ bundle'[t].type = type
      /\ \A u \in Threads \ {t} : pc'[u] = pc[u] /\ bundle'[u] = bundle[u]
  BY <1>1, <1>2 DEF TypeOK
<1>7. t \notin OnGPU
  BY <1>1 DEF OnGPU, Places
<1>8. OnGPU' = IF type = "GPU" THEN OnGPU \union {t} ELSE OnGPU
  BY <1>6, <1>7 DEF OnGPU
<1>9. QED
  BY <1>1, <1>4, <1>5, <1>6, <1>7, <1>8 DEF Places

(* A new call finds every token back and starts to count anew. *)
LEMMA CallKeeps ==
  ASSUME IInv, ParallelForCall, P!Inv'
  PROVE  IInv'
<1>1. /\ TypeOK /\ Places /\ Refused /\ Owned /\ Started
      /\ TokensConserved /\ OneChunkOnAccelerator /\ TotalsByDevice
      /\ begin = Last
  BY DEF IInv, ParallelForCall, P!Inv, P!Quiet
<1>2. /\ ~ inCall /\ calls < MaxCalls /\ calls' = calls + 1 /\ inCall' = TRUE
      /\ begin' = First /\ eof' = FALSE /\ gpuStatus' = numGPUs
      /\ times' = [i \in Space |-> 0]
      /\ UNCHANGED <<dedicated, refused, pc, bundle, gpuThroughput,
                     cpuThroughput, fG, totGPU, totCPU, onCPU>>
  BY DEF ParallelForCall
<1>3. refused = NoThread
  BY <1>1, <1>2 DEF Refused
<1>4. OnGPU = {} /\ OnGPU' = {}
  BY <1>1, <1>2 DEF Places, OnGPU
<1>5. Cardinality(OnGPU') = 0
  BY <1>4, FS_EmptySet
<1>6. TypeOK'
  <2>1. calls' \in 0..MaxCalls /\ begin' \in First..Last /\ gpuStatus' \in -1..numGPUs
    BY <1>1, <1>2 DEF TypeOK
  <2>2. times' \in [Space -> Nat] /\ inCall' \in BOOLEAN /\ eof' \in BOOLEAN
    BY <1>2
  <2>3. QED BY <1>1, <1>2, <2>1, <2>2 DEF TypeOK, Space
<1>7. Places' /\ Refused' /\ Owned'
  BY <1>1, <1>2, <1>3 DEF Places, Refused, Owned
<1>8. Started'
  BY <1>1, <1>2 DEF Started, TypeOK
<1>9. TokensConserved' /\ OneChunkOnAccelerator'
  BY <1>2, <1>3, <1>5 DEF TokensConserved, OneChunkOnAccelerator
<1>10. TotalsByDevice'
  <2>1. CASE calls = 0
    BY <1>1, <1>2, <2>1 DEF TotalsByDevice
  <2>2. CASE calls # 0
    <3>1. calls \in Nat /\ Last - First \in Nat
      BY <1>1 DEF TypeOK
    <3>2. (calls - 1) * (Last - First) + (Last - First) = (calls' - 1) * (Last - First)
      BY <1>2, <3>1, OneMore
    <3>3. totCPU + totGPU = (calls' - 1) * (Last - First)
      BY <1>1, <2>2, <3>2 DEF TotalsByDevice
    <3>4. (calls' - 1) * (Last - First) + (begin' - First) = (calls' - 1) * (Last - First)
      <4>1. (calls' - 1) * (Last - First) \in Int
        BY <1>1, <1>2 DEF TypeOK
      <4>2. QED BY <1>2, <4>1
    <3>5. QED BY <1>1, <1>2, <3>1, <3>3, <3>4 DEF TotalsByDevice
  <2>3. QED BY <2>1, <2>2
<1>11. QED BY <1>6, <1>7, <1>8, <1>9, <1>10 DEF IInv

(* Taking n iterations adds n to the total of one of the devices. *)
LEMMA TotalsKeep ==
  ASSUME IInv, inCall, calls' = calls, begin' \in begin..Last,
         totCPU' + totGPU' = totCPU + totGPU + (begin' - begin),
         NEW n \in Nat, totCPU' = totCPU + n, onCPU' = onCPU + n,
         totCPU' \in Nat, onCPU' \in Nat, totGPU' \in Nat
  PROVE  TotalsByDevice'
<1>1. TypeOK /\ Started /\ TotalsByDevice
  BY DEF IInv
<1>2. calls \in Nat \ {0} /\ begin \in Nat /\ totCPU \in Nat /\ totGPU \in Nat /\ onCPU \in Nat
  BY <1>1 DEF TypeOK, Started
<1> DEFINE before == (calls - 1) * (Last - First)
<1>3. before \in Int
  BY <1>2
<1>4. totCPU = onCPU /\ totCPU + totGPU = before + (begin - First)
  BY <1>1, <1>2 DEF TotalsByDevice
<1>5. before' = before
  OBVIOUS
<1> HIDE DEF before
<1>6. totCPU' = onCPU'
  BY <1>2, <1>4
<1>7. begin' \in Nat /\ First \in Nat
  BY <1>2
<1>8. totCPU' + totGPU' = before + (begin' - First)
  BY <1>2, <1>3, <1>4, <1>7
<1>9. QED BY <1>2, <1>5, <1>6, <1>8 DEF TotalsByDevice, before

(* A chunk for the accelerator, with a token or to the main thread. *)
LEMMA ClaimGPUKeeps ==
  ASSUME IInv, NEW t \in Threads, TakeToken(t) \/ SerialDedicated(t), ClaimGPU(t),
         dedicated => t = Main /\ numGPUs = 1, P!Inv'
  PROVE  IInv'
<1> DEFINE e == Min({begin + ChunkGPU, Last})
<1>1. /\ TypeOK /\ Places /\ Refused /\ Owned /\ Started
      /\ TokensConserved /\ OneChunkOnAccelerator
  BY DEF IInv
<1>2. /\ inCall /\ ~ eof /\ refused = NoThread /\ pc[t] = "free" /\ begin < Last
      /\ UNCHANGED <<dedicated, inCall, calls, eof, refused, gpuThroughput,
                     cpuThroughput, fG, times>>
  BY DEF TakeToken, SerialDedicated, MayEnter
<1>3. /\ Claim(t, e, "GPU") /\ totGPU' = totGPU + (e - begin)
      /\ UNCHANGED <<totCPU, onCPU>>
  BY DEF ClaimGPU
<1>4. e \in begin..Last /\ begin' = e
  BY <1>1, <1>3, AcceleratorChunkFits DEF Claim
<1> HIDE DEF e
<1>5. /\ begin' \in First..Last
      /\ pc' \in [Threads -> {"free", "run", "rate", "token"}]
      /\ bundle' \in [Threads -> [begin : First..Last, end : First..Last,
                                  type : {"none", "CPU", "GPU"}]]
      /\ \A u \in Threads : pc'[u] = "free" <=> bundle'[u].type = "none"
      /\ \A u \in Threads : pc'[u] = "token" => ~ dedicated /\ bundle'[u].type = "GPU"
      /\ t \notin OnGPU
      /\ OnGPU' = OnGPU \union {t}
  BY <1>2, <1>3, <1>4, ClaimKeeps
<1>6. Cardinality(OnGPU') = Cardinality(OnGPU) + 1 /\ Cardinality(OnGPU) \in Nat
  BY <1>5, Holders
<1>7. Owned'
  BY <1>1, <1>2, <1>5 DEF Owned, OnGPU
<1>8. calls \in Nat \ {0}
  BY <1>1, <1>2 DEF Started, TypeOK
<1>9. /\ gpuStatus' \in -1..numGPUs
      /\ TokensConserved'
      /\ OneChunkOnAccelerator'
  <2>1. CASE TakeToken(t)
    <3>1. ~ dedicated /\ gpuStatus > 0 /\ gpuStatus' = gpuStatus - 1
      BY <2>1 DEF TakeToken
    <3>2. gpuStatus + Cardinality(OnGPU) = numGPUs /\ gpuStatus \in -1..numGPUs
      BY <1>1, <1>2, <1>8, <3>1 DEF TokensConserved, TypeOK
    <3>3. QED BY <1>2, <1>6, <3>1, <3>2 DEF TokensConserved, OneChunkOnAccelerator
  <2>2. CASE SerialDedicated(t)
    <3>1. dedicated /\ gpuStatus' = gpuStatus /\ gpuStatus \in -1..numGPUs
      BY <1>1, <2>2 DEF SerialDedicated, TypeOK
    <3>2. OnGPU \subseteq {Main} /\ t = Main /\ numGPUs = 1
      BY <1>1, <3>1 DEF Owned, OnGPU
    <3>3. OnGPU = {}
      BY <1>5, <3>2
    <3>4. Cardinality(OnGPU') = 1
      BY <1>6, <3>3, FS_EmptySet
    <3>5. QED BY <1>2, <3>1, <3>2, <3>4 DEF TokensConserved, OneChunkOnAccelerator
  <2>3. QED BY <2>1, <2>2
<1>10. totGPU' \in Nat
  BY <1>1, <1>3, <1>4 DEF TypeOK
<1>11. TypeOK'
  BY <1>1, <1>2, <1>3, <1>5, <1>9, <1>10 DEF TypeOK, Space
<1>12. TotalsByDevice'
  <2>1. /\ totCPU' + totGPU' = totCPU + totGPU + (begin' - begin)
        /\ totCPU' = totCPU + 0 /\ onCPU' = onCPU + 0 /\ totCPU' \in Nat /\ onCPU' \in Nat
    BY <1>1, <1>3, <1>4 DEF TypeOK
  <2>2. begin' \in begin..Last
    BY <1>4
  <2>3. QED BY <1>2, <1>10, <2>1, <2>2, TotalsKeep
<1>13. Places' /\ Refused' /\ Started'
  BY <1>2, <1>5, <1>8 DEF Places, Refused, Started
<1>14. QED BY <1>7, <1>9, <1>11, <1>12, <1>13 DEF IInv

(* A chunk for a core, of a refused thread or without tokens. *)
LEMMA ClaimCPUKeeps ==
  ASSUME IInv, NEW t \in Threads, SerialCPU(t) \/ SerialDedicated(t), ClaimCPU(t),
         numCPUs > 0, P!Inv'
  PROVE  IInv'
<1> DEFINE e == begin + NextChunkCPU
<1>1. /\ TypeOK /\ Places /\ Refused /\ Owned /\ Started
      /\ TokensConserved /\ OneChunkOnAccelerator
  BY DEF IInv
<1>2. /\ inCall /\ ~ eof /\ pc[t] = "free" /\ begin < Last /\ refused' = NoThread
      /\ UNCHANGED <<dedicated, inCall, calls, eof, gpuThroughput,
                     cpuThroughput, fG, times>>
  BY <1>1 DEF SerialCPU, SerialDedicated, MayEnter, Refused
<1>3. NextChunkCPU \in 1..Remaining
  BY <1>1, <1>2, CoreChunkFits
<1>4. /\ Claim(t, e, "CPU") /\ totCPU' = totCPU + NextChunkCPU /\ totGPU' = totGPU
      /\ onCPU' = onCPU + (e - begin)
  BY <1>3 DEF ClaimCPU
<1>5. e \in begin..Last /\ begin' = e /\ e - begin = NextChunkCPU
  BY <1>1, <1>3, <1>4 DEF Claim, TypeOK, Remaining
<1> HIDE DEF e
<1>6. /\ begin' \in First..Last
      /\ pc' \in [Threads -> {"free", "run", "rate", "token"}]
      /\ bundle' \in [Threads -> [begin : First..Last, end : First..Last,
                                  type : {"none", "CPU", "GPU"}]]
      /\ \A u \in Threads : pc'[u] = "free" <=> bundle'[u].type = "none"
      /\ \A u \in Threads : pc'[u] = "token" => ~ dedicated /\ bundle'[u].type = "GPU"
      /\ OnGPU' = OnGPU
  BY <1>2, <1>4, <1>5, ClaimKeeps
<1>7. Cardinality(OnGPU) \in Nat
  BY Holders
<1>8. calls \in Nat \ {0}
  BY <1>1, <1>2 DEF Started, TypeOK
<1>9. gpuStatus' \in -1..numGPUs /\ TokensConserved'
  <2>1. CASE SerialCPU(t)
    <3>1. ~ dedicated /\ refused # NoThread /\ gpuStatus' = gpuStatus + 1
      BY <1>1, <2>1 DEF SerialCPU, Refused
    <3>2. gpuStatus + Cardinality(OnGPU) = numGPUs - 1 /\ gpuStatus \in -1..numGPUs
      BY <1>1, <1>8, <3>1 DEF TokensConserved, TypeOK
    <3>3. QED BY <1>2, <1>6, <1>7, <3>1, <3>2 DEF TokensConserved
  <2>2. CASE SerialDedicated(t)
    BY <1>1, <1>2, <2>2 DEF SerialDedicated, TypeOK, TokensConserved
  <2>3. QED BY <2>1, <2>2
<1>10. totCPU' \in Nat /\ totGPU' \in Nat /\ onCPU' \in Nat
  BY <1>1, <1>3, <1>4, <1>5 DEF TypeOK
<1>11. TypeOK'
  BY <1>1, <1>2, <1>6, <1>9, <1>10 DEF TypeOK, Space
<1>12. TotalsByDevice'
  <2>1. /\ totCPU' + totGPU' = totCPU + totGPU + (begin' - begin)
        /\ totCPU' = totCPU + NextChunkCPU /\ onCPU' = onCPU + NextChunkCPU
        /\ NextChunkCPU \in Nat
    BY <1>1, <1>3, <1>4, <1>5 DEF TypeOK
  <2>2. begin' \in begin..Last
    BY <1>5
  <2>3. QED BY <1>2, <1>10, <2>1, <2>2, TotalsKeep
<1>13. OneChunkOnAccelerator' /\ Owned'
  BY <1>1, <1>2, <1>6 DEF OneChunkOnAccelerator, Owned, OnGPU
<1>14. Places' /\ Refused' /\ Started'
  BY <1>2, <1>6, <1>8 DEF Places, Refused, Started
<1>15. QED BY <1>9, <1>11, <1>12, <1>13, <1>14 DEF IInv

(* A thread that has no token enters the serial stage all the same. *)
LEMMA RefuseKeeps ==
  ASSUME IInv, NEW t \in Threads, RefuseToken(t), P!Inv'
  PROVE  IInv'
<1>1. /\ TypeOK /\ Places /\ Owned /\ Started /\ TokensConserved
      /\ OneChunkOnAccelerator /\ TotalsByDevice
  BY DEF IInv
<1>2. /\ ~ dedicated /\ inCall /\ ~ eof /\ pc[t] = "free" /\ refused = NoThread
      /\ begin < Last /\ gpuStatus <= 0 /\ gpuStatus' = gpuStatus - 1 /\ refused' = t
      /\ UNCHANGED <<dedicated, inCall, calls, begin, eof, pc, bundle, gpuThroughput,
                     cpuThroughput, fG, totGPU, totCPU, times, onCPU>>
  BY DEF RefuseToken, MayEnter
<1>3. Cardinality(OnGPU) \in Nat /\ OnGPU' = OnGPU
  BY <1>2, Holders DEF OnGPU
<1>4. gpuStatus + Cardinality(OnGPU) = numGPUs /\ gpuStatus \in -1..numGPUs
  BY <1>1, <1>2 DEF TokensConserved, Started, TypeOK
<1>5. gpuStatus \in {0, -1} /\ (gpuStatus = -1 => Cardinality(OnGPU) = numGPUs + 1)
  BY <1>2, <1>3, <1>4
<1>6. gpuStatus = 0
  BY <1>1, <1>3, <1>5 DEF OneChunkOnAccelerator
<1>7. numCPUs > 0
  <2>1. SUFFICES ASSUME numCPUs = 0 PROVE FALSE
    OBVIOUS
  <2>2. Threads = {t} /\ numGPUs = 1
    BY <2>1, NoCores
  <2>3. OnGPU = {}
    BY <1>1, <1>2, <2>2 DEF OnGPU, Places
  <2>4. QED BY <1>4, <1>6, <2>2, <2>3, FS_EmptySet
<1>8. t # NoThread
  OBVIOUS
<1>9. TypeOK'
  BY <1>1, <1>2, <1>6 DEF TypeOK, Space
<1>10. TokensConserved' /\ OneChunkOnAccelerator'
  BY <1>1, <1>2, <1>3, <1>4, <1>8 DEF TokensConserved, OneChunkOnAccelerator
<1>11. TotalsByDevice'
  BY <1>1, <1>2 DEF TotalsByDevice
<1>12. Places' /\ Refused' /\ Owned'
  BY <1>1, <1>2, <1>7 DEF Places, Refused, Owned
<1>13. Started'
  BY <1>1, <1>2 DEF Started
<1>14. QED BY <1>9, <1>10, <1>11, <1>12, <1>13 DEF IInv

(* Running a chunk moves neither tokens nor totals. *)
LEMMA OperatorKeeps ==
  ASSUME IInv, NEW t \in Threads, OperatorGPU(t) \/ OperatorCPU(t), P!Inv'
  PROVE  IInv'
<1>1. /\ TypeOK /\ Places /\ Refused /\ Owned /\ Started /\ TokensConserved
      /\ OneChunkOnAccelerator /\ TotalsByDevice
  BY DEF IInv
<1>2. /\ pc[t] = "run" /\ RunChunk(t) /\ pc' = [pc EXCEPT ![t] = "rate"]
      /\ UNCHANGED <<dedicated, inCall, calls, begin, eof, refused, gpuStatus,
                     bundle, fG, totGPU, totCPU, onCPU>>
  BY DEF OperatorGPU, OperatorCPU
<1>3. gpuThroughput' \in Nat /\ cpuThroughput' \in [Threads -> Nat]
  BY <1>1 DEF OperatorGPU, OperatorCPU, TypeOK
<1>4. times' \in [Space -> Nat]
  BY <1>1, <1>2 DEF RunChunk, TypeOK
<1>5. pc' \in [Threads -> {"free", "run", "rate", "token"}]
  BY <1>1, <1>2 DEF TypeOK
<1>6. TypeOK'
  BY <1>1, <1>2, <1>3, <1>4, <1>5 DEF TypeOK, Space
<1>7. pc'[t] = "rate" /\ \A u \in Threads \ {t} : pc'[u] = pc[u]
  BY <1>1, <1>2 DEF TypeOK
<1>8. OnGPU' = OnGPU
  BY <1>2 DEF OnGPU
<1>9. TokensConserved' /\ OneChunkOnAccelerator' /\ Owned' /\ Started'
  BY <1>1, <1>2, <1>8 DEF TokensConserved, OneChunkOnAccelerator, Owned, Started
<1>10. TotalsByDevice'
  BY <1>1, <1>2 DEF TotalsByDevice
<1>11. Places'
  BY <1>1, <1>2, <1>7 DEF Places
<1>12. Refused'
  BY <1>1, <1>2, <1>7 DEF Refused, TypeOK
<1>13. QED BY <1>6, <1>9, <1>10, <1>11, <1>12 DEF IInv

(* A thread computes fG, and keeps its token, if it has one, a while.      *)
LEMMA UpdateFGKeeps ==
  ASSUME IInv, NEW t \in Threads, UpdateFG(t), P!Inv'
  PROVE  IInv'
<1>1. /\ TypeOK /\ Places /\ Refused /\ Owned /\ Started /\ TokensConserved
      /\ OneChunkOnAccelerator /\ TotalsByDevice
  BY DEF IInv
<1>2. /\ pc[t] = "rate"
      /\ UNCHANGED <<dedicated, inCall, calls, begin, eof, refused, gpuStatus,
                     gpuThroughput, cpuThroughput, totGPU, totCPU, times, onCPU>>
  BY DEF UpdateFG
<1>3. fG' \in (Nat \ {0}) \X (Nat \ {0})
  <2>1. gpuThroughput \in Nat /\ cpuThroughput[t] \in Nat
        /\ fG \in (Nat \ {0}) \X (Nat \ {0})
    BY <1>1 DEF TypeOK
  <2>2. fG' = IF gpuThroughput > 0 /\ cpuThroughput[t] > 0
                THEN <<gpuThroughput, cpuThroughput[t]>> ELSE fG
    BY DEF UpdateFG
  <2>3. QED BY <2>1, <2>2
<1>4. NoBundle \in [begin : First..Last, end : First..Last, type : {"none", "CPU", "GPU"}]
  BY DEF NoBundle
<1>5. /\ pc' \in [Threads -> {"free", "run", "rate", "token"}]
      /\ bundle' \in [Threads -> [begin : First..Last, end : First..Last,
                                  type : {"none", "CPU", "GPU"}]]
  BY <1>1, <1>4 DEF UpdateFG, TypeOK
<1>6. TypeOK'
  BY <1>1, <1>2, <1>3, <1>5 DEF TypeOK, Space
<1>7. \A u \in Threads \ {t} : pc'[u] = pc[u] /\ bundle'[u] = bundle[u]
  BY <1>1 DEF UpdateFG, TypeOK
<1>8. CASE bundle[t].type = "GPU" /\ ~ dedicated
  <2>1. pc'[t] = "token" /\ bundle' = bundle
    BY <1>1, <1>8 DEF UpdateFG, TypeOK
  <2>2. OnGPU' = OnGPU
    BY <2>1 DEF OnGPU
  <2>3. TokensConserved' /\ OneChunkOnAccelerator' /\ Owned' /\ Started'
    BY <1>1, <1>2, <2>1, <2>2 DEF TokensConserved, OneChunkOnAccelerator, Owned, Started
  <2>4. TotalsByDevice'
    BY <1>1, <1>2 DEF TotalsByDevice
  <2>5. Places' /\ Refused'
    BY <1>1, <1>2, <1>7, <1>8, <2>1 DEF Places, Refused, TypeOK
  <2>6. QED BY <1>6, <2>3, <2>4, <2>5 DEF IInv
<1>9. CASE ~ (bundle[t].type = "GPU" /\ ~ dedicated)
  <2>1. pc'[t] = "free" /\ bundle'[t] = NoBundle
    BY <1>1, <1>9 DEF UpdateFG, TypeOK
  <2>2. OnGPU' = OnGPU \ {t} /\ (~ dedicated => OnGPU' = OnGPU)
    BY <1>2, <1>7, <1>9, <2>1 DEF OnGPU, NoBundle
  <2>3. TokensConserved' /\ Started'
    BY <1>1, <1>2, <2>2 DEF TokensConserved, Started
  <2>4. OneChunkOnAccelerator'
    <3>1. Cardinality(OnGPU') <= Cardinality(OnGPU) /\ Cardinality(OnGPU) \in Nat
          /\ Cardinality(OnGPU') \in Int
      BY <2>2, Holders
    <3>2. QED BY <1>1, <3>1 DEF OneChunkOnAccelerator
  <2>5. Owned'
    BY <1>1, <1>2, <1>7, <2>1 DEF Owned, NoBundle
  <2>6. TotalsByDevice'
    BY <1>1, <1>2 DEF TotalsByDevice
  <2>7. Places' /\ Refused'
    BY <1>1, <1>2, <1>7, <2>1 DEF Places, Refused, NoBundle, TypeOK
  <2>8. QED BY <1>6, <2>3, <2>4, <2>5, <2>6, <2>7 DEF IInv
<1>10. QED BY <1>8, <1>9

(* A token comes back. *)
LEMMA ReleaseKeeps ==
  ASSUME IInv, NEW t \in Threads, ReleaseToken(t), P!Inv'
  PROVE  IInv'
<1>1. /\ TypeOK /\ Places /\ Refused /\ Owned /\ Started /\ TokensConserved
      /\ OneChunkOnAccelerator /\ TotalsByDevice
  BY DEF IInv
<1>2. /\ pc[t] = "token" /\ gpuStatus' = gpuStatus + 1
      /\ pc' = [pc EXCEPT ![t] = "free"] /\ bundle' = [bundle EXCEPT ![t] = NoBundle]
      /\ UNCHANGED <<dedicated, inCall, calls, begin, eof, refused, gpuThroughput,
                     cpuThroughput, fG, totGPU, totCPU, times, onCPU>>
  BY DEF ReleaseToken
<1>3. ~ dedicated /\ t \in OnGPU /\ inCall
  BY <1>1, <1>2 DEF Places, OnGPU
<1>4. NoBundle \in [begin : First..Last, end : First..Last, type : {"none", "CPU", "GPU"}]
  BY DEF NoBundle
<1>5. /\ pc'[t] = "free" /\ bundle'[t] = NoBundle
      /\ \A u \in Threads \ {t} : pc'[u] = pc[u] /\ bundle'[u] = bundle[u]
  BY <1>1, <1>2 DEF TypeOK
<1>6. OnGPU' = OnGPU \ {t}
  BY <1>5 DEF OnGPU, NoBundle
<1>7. /\ Cardinality(OnGPU') = Cardinality(OnGPU) - 1
      /\ Cardinality(OnGPU) \in Nat /\ Cardinality(OnGPU') \in Nat
  <2>1. Cardinality(OnGPU \ {t}) = Cardinality(OnGPU) - 1 /\ Cardinality(OnGPU) \in Nat
    BY <1>3, Holders
  <2>2. IsFiniteSet(OnGPU \ {t})
    BY Holders, FS_RemoveElement
  <2>3. Cardinality(OnGPU \ {t}) \in Nat
    BY <2>2, FS_CardinalityType
  <2>4. QED BY <1>6, <2>1, <2>3
<1>8. calls > 0 /\ calls' = calls
  BY <1>1, <1>2, <1>3 DEF Started, TypeOK
<1>9. gpuStatus + Cardinality(OnGPU) = numGPUs - (IF refused = NoThread THEN 0 ELSE 1)
  BY <1>1, <1>3, <1>8 DEF TokensConserved
<1>10. gpuStatus' \in -1..numGPUs
  <2>1. gpuStatus \in -1..numGPUs
    BY <1>1 DEF TypeOK
  <2>2. QED BY <1>2, <1>7, <1>9, <2>1
<1>11. TypeOK'
  BY <1>1, <1>2, <1>4, <1>10 DEF TypeOK, Space
<1>12. TokensConserved' /\ OneChunkOnAccelerator'
  BY <1>1, <1>2, <1>7, <1>9, <1>11 DEF TokensConserved, OneChunkOnAccelerator, TypeOK
<1>13. TotalsByDevice'
  BY <1>1, <1>2 DEF TotalsByDevice
<1>14. Places' /\ Refused' /\ Owned' /\ Started'
  BY <1>1, <1>2, <1>3, <1>5, <1>8
     DEF Places, Refused, Owned, Started, NoBundle, TypeOK
<1>15. QED BY <1>11, <1>12, <1>13, <1>14 DEF IInv

(* The input ends, the call returns, or nothing happens. *)
LEMMA EndKeeps ==
  ASSUME IInv, (\E t \in Threads : SerialEnd(t)) \/ PipeReturn \/ UNCHANGED vars, P!Inv'
  PROVE  IInv'
<1>1. /\ TypeOK /\ Places /\ Refused /\ Owned /\ Started /\ TokensConserved
      /\ OneChunkOnAccelerator /\ TotalsByDevice
  BY DEF IInv
<1>2. UNCHANGED <<dedicated, calls, begin, refused, gpuStatus, pc, bundle,
                  gpuThroughput, cpuThroughput, fG, totGPU, totCPU, times, onCPU>>
  BY DEF SerialEnd, PipeReturn, vars
<1>3. inCall' \in BOOLEAN /\ eof' \in BOOLEAN
  BY <1>1 DEF SerialEnd, PipeReturn, vars, TypeOK
<1>4. TypeOK'
  BY <1>1, <1>2, <1>3 DEF TypeOK, Space
<1>5. TokensConserved' /\ OneChunkOnAccelerator' /\ Owned'
  BY <1>1, <1>2 DEF TokensConserved, OneChunkOnAccelerator, Owned, OnGPU
<1>6. TotalsByDevice'
  BY <1>1, <1>2 DEF TotalsByDevice
<1>7. Places' /\ Started'
  BY <1>1, <1>2 DEF Places, Started, SerialEnd, MayEnter, PipeReturn, vars
<1>8. Refused'
  BY <1>1, <1>2 DEF Refused, SerialEnd, MayEnter, PipeReturn, vars
<1>9. QED BY <1>4, <1>5, <1>6, <1>7, <1>8 DEF IInv

(* The invariant holds before the first call. *)
LEMMA InitIInv == Init => IInv /\ P!Init
<1> SUFFICES ASSUME Init PROVE IInv /\ P!Init
  OBVIOUS
<1> USE DEF Init
<1>1. \A t \in Threads : pc[t] = "free" /\ bundle[t] = NoBundle
  OBVIOUS
<1>2. P!Init
  <2>1. HeldBy = [t \in Threads |-> {}]
    BY <1>1 DEF HeldBy
  <2>2. QED BY <2>1 DEF P!Init, Space, P!Space
<1>3. P!Inv
  BY <1>2, P!InitInv DEF P!Bounds
<1>4. TypeOK
  <2>1. bundle \in [Threads -> [begin : First..Last, end : First..Last,
                               type : {"none", "CPU", "GPU"}]]
    BY DEF NoBundle
  <2>2. dedicated \in BOOLEAN /\ inCall \in BOOLEAN /\ eof \in BOOLEAN
    OBVIOUS
  <2>3. calls \in 0..MaxCalls /\ begin \in First..Last /\ gpuStatus \in -1..numGPUs
    OBVIOUS
  <2>4. QED BY <2>1, <2>2, <2>3 DEF TypeOK
<1>5. OnGPU = {}
  BY <1>1 DEF OnGPU, NoBundle
<1>6. TokensConserved /\ OneChunkOnAccelerator
  BY <1>5, FS_EmptySet DEF TokensConserved, OneChunkOnAccelerator
<1>7. Places /\ Refused
  BY <1>1 DEF Places, Refused, NoBundle
<1>8. Owned /\ Started
  BY <1>1 DEF Owned, Started, NoBundle
<1>9. TotalsByDevice
  BY DEF TotalsByDevice
<1>10. QED BY <1>2, <1>3, <1>4, <1>6, <1>7, <1>8, <1>9 DEF IInv

(* Every step keeps it. *)
LEMMA NextIInv == IInv /\ [Next]_vars => IInv'
<1> SUFFICES ASSUME IInv, [Next]_vars PROVE IInv'
  OBVIOUS
<1>1. P!Inv'
  BY StepPipeline, P!NextInv DEF IInv, P!Bounds
<1>2. CASE ParallelForCall
  BY <1>1, <1>2, CallKeeps
<1>3. ASSUME NEW t \in Threads, TakeToken(t) PROVE IInv'
  BY <1>1, <1>3, ClaimGPUKeeps DEF TakeToken
<1>4. CASE \E t \in Threads : RefuseToken(t)
  BY <1>1, <1>4, RefuseKeeps
<1>5. ASSUME NEW t \in Threads, SerialCPU(t) PROVE IInv'
  <2>1. numCPUs > 0
    BY <1>5 DEF SerialCPU, IInv, Refused
  <2>2. QED BY <1>1, <1>5, <2>1, ClaimCPUKeeps DEF SerialCPU
<1>6. ASSUME NEW t \in Threads, SerialDedicated(t) PROVE IInv'
  <2>1. CASE t = Main /\ numGPUs > 0
    BY <1>1, <1>6, <2>1, ClaimGPUKeeps DEF SerialDedicated
  <2>2. CASE ~ (t = Main /\ numGPUs > 0)
    <3>1. numCPUs > 0
      BY <2>2, NoCores
    <3>2. QED BY <1>1, <1>6, <2>2, <3>1, ClaimCPUKeeps DEF SerialDedicated
  <2>3. QED BY <2>1, <2>2
<1>7. CASE \E t \in Threads : OperatorGPU(t) \/ OperatorCPU(t)
  BY <1>1, <1>7, OperatorKeeps
<1>8. CASE \E t \in Threads : UpdateFG(t)
  BY <1>1, <1>8, UpdateFGKeeps
<1>9. CASE \E t \in Threads : ReleaseToken(t)
  BY <1>1, <1>9, ReleaseKeeps
<1>10. CASE (\E t \in Threads : SerialEnd(t)) \/ PipeReturn \/ UNCHANGED vars
  BY <1>1, <1>10, EndKeeps
<1>11. QED
  BY <1>2, <1>3, <1>4, <1>5, <1>6, <1>7, <1>8, <1>9, <1>10 DEF Next

-----------------------------------------------------------------------------
(* The theorems.                                                           *)

(* The strengthened invariant holds in every state of the scheduler. *)
THEOREM Invariance == Spec => []IInv
<1>1. Init => IInv
  BY InitIInv
<1>2. IInv /\ [Next]_vars => IInv'
  BY NextIInv
<1>3. QED BY <1>1, <1>2, PTL DEF Spec

(* The variables keep their types; in particular gpuStatus never falls     *)
(* below -1 and no chunk reaches outside [first, last).                    *)
THEOREM TypeCorrect == Spec => []TypeOK
<1>1. IInv => TypeOK
  BY DEF IInv
<1>2. QED BY <1>1, Invariance, PTL

(* Tokens are neither lost nor made, however threads interleave. *)
THEOREM TokensKept == Spec => []TokensConserved
<1>1. IInv => TokensConserved
  BY DEF IInv
<1>2. QED BY <1>1, Invariance, PTL

(* The accelerator never has two chunks, with tokens or without. *)
THEOREM AcceleratorExclusive == Spec => []OneChunkOnAccelerator
<1>1. IInv => OneChunkOnAccelerator
  BY DEF IInv
<1>2. QED BY <1>1, Invariance, PTL

(* The totals the statistics print are those of the devices. *)
THEOREM TotalsTrue == Spec => []TotalsByDevice
<1>1. IInv => TotalsByDevice
  BY DEF IInv
<1>2. QED BY <1>1, Invariance, PTL

(* No iteration is skipped and none is run twice. *)
THEOREM RunsOnce == Spec => []RunOnce
<1>1. IInv => RunOnce
  BY DEF IInv, P!Inv, P!RunOnce, RunOnce, HeldBy, Space, P!Space
<1>2. QED BY <1>1, Invariance, PTL

(* The steps of the promise are the same seen from the pipeline. *)
LEMMA SamePromise ==
  /\ PF!Init <=> P!PF!Init
  /\ [PF!Next]_(PF!vars) <=> [P!PF!Next]_(P!PF!vars)
BY DEF PF!Init, PF!Next, PF!vars, PF!Start, PF!Execute, PF!Return, PF!Pending,
       P!PF!Init, P!PF!Next, P!PF!vars, P!PF!Start, P!PF!Execute, P!PF!Return,
       P!PF!Pending, Space, P!Space

(* The scheduler implements the pipeline, and with it the promise of       *)
(* heterogeneous_parallel_for.                                             *)
THEOREM ImplementsPromise == Spec => Implements
<1>1. Init => PF!Init
  BY InitIInv, P!InitPromise, SamePromise
<1>2. IInv /\ [Next]_vars => [PF!Next]_(PF!vars)
  BY StepPipeline, P!NextPromise, SamePromise DEF IInv, P!Bounds
<1>3. QED BY <1>1, <1>2, Invariance, PTL DEF Spec, Implements, PF!Spec

-----------------------------------------------------------------------------
(* Every call is over after finitely many steps.                           *)

Staged == {t \in Threads : pc[t] \in {"run", "rate"}}
Running == {t \in Threads : pc[t] = "run"}

(* The parts of StepsLeft that are not about threads. *)
Owed == IF refused = NoThread THEN 0 ELSE 1
Ahead == (IF eof THEN 0 ELSE 1) + (IF inCall THEN 1 ELSE 0)

(* The most steps a call takes, from its start. *)
MostSteps == 4 * (Last - First) + 2

(* The threads in each stage, and their numbers. *)
LEMMA StagesFinite ==
  /\ IsFiniteSet(Staged) /\ IsFiniteSet(Running) /\ IsFiniteSet(OnGPU)
  /\ Cardinality(Staged) \in Nat /\ Cardinality(Running) \in Nat
  /\ Cardinality(OnGPU) \in Nat
<1>1. IsFiniteSet(Staged) /\ IsFiniteSet(Running)
  BY FS_Subset DEF Staged, Running
<1>2. QED BY <1>1, Holders, FS_CardinalityType

(* StepsLeft, part by part. *)
LEMMA StepsLeftParts ==
  IInv =>
    StepsLeft = 4 * Remaining - Owed + Cardinality(Staged) + Cardinality(Running)
                  + Cardinality(OnGPU) + Ahead
<1> SUFFICES ASSUME IInv
             PROVE  StepsLeft = 4 * Remaining - Owed + Cardinality(Staged)
                                  + Cardinality(Running) + Cardinality(OnGPU) + Ahead
  OBVIOUS
<1>1. Remaining \in Int /\ Owed \in Int
  BY DEF IInv, TypeOK, Remaining, Owed
<1>2. StepsLeft = 4 * Remaining - Owed + Cardinality(Staged) + Cardinality(Running)
                    + Cardinality(OnGPU)
                    + (IF eof THEN 0 ELSE 1) + (IF inCall THEN 1 ELSE 0)
  BY DEF StepsLeft, Owed, Staged, Running
<1>3. QED BY <1>1, <1>2, StagesFinite DEF Ahead

(* A refused thread has an iteration before it, so StepsLeft is natural.   *)
LEMMA StepsLeftNat ==
  IInv => /\ Remaining \in Nat /\ Owed \in {0, 1} /\ Ahead \in 0..2
          /\ StepsLeft \in Nat
<1> SUFFICES ASSUME IInv
             PROVE  /\ Remaining \in Nat /\ Owed \in {0, 1} /\ Ahead \in 0..2
                    /\ StepsLeft \in Nat
  OBVIOUS
<1>1. Remaining \in Nat
  BY DEF IInv, TypeOK, Remaining
<1>2. Owed \in {0, 1} /\ Ahead \in 0..2
  BY DEF Owed, Ahead
<1>3. 4 * Remaining - Owed \in Nat
  <2>1. CASE refused = NoThread
    BY <1>1, <2>1 DEF Owed
  <2>2. CASE refused # NoThread
    <3>1. begin < Last
      BY <2>2 DEF IInv, Refused
    <3>2. Remaining > 0
      BY <3>1 DEF IInv, TypeOK, Remaining
    <3>3. QED BY <1>1, <2>2, <3>2 DEF Owed
  <2>3. QED BY <2>1, <2>2
<1>4. QED BY <1>1, <1>2, <1>3, StepsLeftParts, StagesFinite

(* Both hold before and after a step. *)
LEMMA StepsLeftBoth ==
  ASSUME IInv, IInv'
  PROVE  /\ StepsLeft = 4 * Remaining - Owed + Cardinality(Staged) + Cardinality(Running)
                           + Cardinality(OnGPU) + Ahead
         /\ StepsLeft' = 4 * Remaining' - Owed' + Cardinality(Staged') + Cardinality(Running')
                            + Cardinality(OnGPU') + Ahead'
         /\ StepsLeft \in Nat /\ StepsLeft' \in Nat
<1>1. IInv' => (StepsLeft = 4 * Remaining - Owed + Cardinality(Staged) + Cardinality(Running)
                              + Cardinality(OnGPU) + Ahead)'
  BY StepsLeftParts, PTL
<1>2. IInv' => (Remaining \in Nat /\ Owed \in {0, 1} /\ Ahead \in 0..2 /\ StepsLeft \in Nat)'
  BY StepsLeftNat, PTL
<1>3. QED BY <1>1, <1>2, StepsLeftParts, StepsLeftNat

(* How the numbers change when one thread moves. *)
LEMMA StagesMove ==
  ASSUME NEW t \in Threads,
         \A u \in Threads \ {t} : pc'[u] = pc[u] /\ bundle'[u] = bundle[u]
  PROVE  /\ Cardinality(Staged') = Cardinality(Staged)
              + (IF pc'[t] \in {"run", "rate"} THEN 1 ELSE 0)
              - (IF pc[t] \in {"run", "rate"} THEN 1 ELSE 0)
         /\ Cardinality(Running') = Cardinality(Running)
              + (IF pc'[t] = "run" THEN 1 ELSE 0)
              - (IF pc[t] = "run" THEN 1 ELSE 0)
         /\ Cardinality(OnGPU') = Cardinality(OnGPU)
              + (IF bundle'[t].type = "GPU" THEN 1 ELSE 0)
              - (IF bundle[t].type = "GPU" THEN 1 ELSE 0)
<1>1. /\ Staged \ {t} = Staged' \ {t}
      /\ t \in Staged' <=> pc'[t] \in {"run", "rate"}
      /\ t \in Staged <=> pc[t] \in {"run", "rate"}
  BY DEF Staged
<1>2. /\ Running \ {t} = Running' \ {t}
      /\ t \in Running' <=> pc'[t] = "run"
      /\ t \in Running <=> pc[t] = "run"
  BY DEF Running
<1>3. /\ OnGPU \ {t} = OnGPU' \ {t}
      /\ t \in OnGPU' <=> bundle'[t].type = "GPU"
      /\ t \in OnGPU <=> bundle[t].type = "GPU"
  BY DEF OnGPU
<1>4. Cardinality(Staged') = Cardinality(Staged) + (IF t \in Staged' THEN 1 ELSE 0)
                                                 - (IF t \in Staged THEN 1 ELSE 0)
  BY <1>1, StagesFinite, OneMoves
<1>5. Cardinality(Running') = Cardinality(Running) + (IF t \in Running' THEN 1 ELSE 0)
                                                   - (IF t \in Running THEN 1 ELSE 0)
  BY <1>2, StagesFinite, OneMoves
<1>6. Cardinality(OnGPU') = Cardinality(OnGPU) + (IF t \in OnGPU' THEN 1 ELSE 0)
                                               - (IF t \in OnGPU THEN 1 ELSE 0)
  BY <1>3, StagesFinite, OneMoves
<1>7. QED BY <1>1, <1>2, <1>3, <1>4, <1>5, <1>6

(* Taking a chunk that is not empty shortens the call: for a core by the   *)
(* step it takes after a refusal, for the accelerator by at least one.     *)
LEMMA ClaimShortens ==
  ASSUME IInv, NEW t \in Threads, pc[t] = "free", NEW e \in begin..Last, e > begin,
         NEW type \in {"CPU", "GPU"}, Claim(t, e, type), UNCHANGED <<inCall, eof>>,
         IInv', Owed' = 0, Owed = 1 => type = "CPU"
  PROVE  StepsLeft' < StepsLeft
<1>1. TypeOK /\ Places
  BY DEF IInv
<1>2. /\ pc'[t] = "run" /\ bundle'[t].type = type /\ begin' = e
      /\ \A u \in Threads \ {t} : pc'[u] = pc[u] /\ bundle'[u] = bundle[u]
  BY <1>1 DEF Claim, TypeOK
<1>3. bundle[t].type = "none"
  BY <1>1 DEF Places
<1>4. /\ Cardinality(Staged') = Cardinality(Staged) + 1
      /\ Cardinality(Running') = Cardinality(Running) + 1
      /\ Cardinality(OnGPU') = Cardinality(OnGPU) + (IF type = "GPU" THEN 1 ELSE 0)
  <2>1. /\ Cardinality(Staged') = Cardinality(Staged) + 1 - 0
        /\ Cardinality(Running') = Cardinality(Running) + 1 - 0
        /\ Cardinality(OnGPU') = Cardinality(OnGPU)
                                   + (IF type = "GPU" THEN 1 ELSE 0) - 0
    BY <1>2, <1>3, StagesMove
  <2>2. QED BY <2>1, StagesFinite
<1>5. Remaining' <= Remaining - 1 /\ Remaining' \in Int /\ Remaining \in Int
  <2>1. begin \in Int /\ Last \in Int /\ e \in Int
    BY <1>1 DEF TypeOK
  <2>2. QED BY <1>2, <2>1 DEF Remaining
<1>6. Ahead' = Ahead /\ Ahead \in Int
  BY DEF Ahead
<1>7. /\ StepsLeft = 4 * Remaining - Owed + Cardinality(Staged) + Cardinality(Running)
                       + Cardinality(OnGPU) + Ahead
      /\ StepsLeft' = 4 * Remaining' - Owed' + Cardinality(Staged') + Cardinality(Running')
                        + Cardinality(OnGPU') + Ahead'
  BY StepsLeftBoth
<1>8. Owed = 0 \/ Owed = 1
  BY DEF Owed
<1>9. QED BY <1>4, <1>5, <1>6, <1>7, <1>8, StagesFinite

(* A chunk of the accelerator or of a core is not empty.                   *)
LEMMA ChunksFilled ==
  ASSUME TypeOK, begin < Last
  PROVE  /\ Min({begin + ChunkGPU, Last}) > begin
         /\ numCPUs > 0 => \A t \in Threads :
              ClaimCPU(t) => Claim(t, begin + NextChunkCPU, "CPU")
<1>1. begin \in Nat /\ Last \in Nat
  BY DEF TypeOK
<1>2. Min({begin + ChunkGPU, Last})
        = IF begin + ChunkGPU <= Last THEN begin + ChunkGPU ELSE Last
  BY <1>1, MinPair
<1>3. Min({begin + ChunkGPU, Last}) > begin
  BY <1>1, <1>2
<1>4. numCPUs > 0 => NextChunkCPU <= Remaining
  BY CoreChunkFits DEF TypeOK, Remaining
<1>5. QED BY <1>3, <1>4 DEF ClaimCPU

(* The serial stage gives an accelerator chunk.                            *)
LEMMA ClaimGPUShortens ==
  ASSUME IInv, IInv', NEW t \in Threads, MayEnter(t), begin < Last, ClaimGPU(t),
         UNCHANGED <<inCall, eof, refused>>
  PROVE  StepsLeft' < StepsLeft
<1> DEFINE e == Min({begin + ChunkGPU, Last})
<1>1. e \in begin..Last /\ e > begin /\ Claim(t, e, "GPU")
  BY AcceleratorChunkFits, ChunksFilled DEF IInv, ClaimGPU
<1>2. Owed = 0 /\ Owed' = 0 /\ pc[t] = "free"
  BY DEF MayEnter, Owed
<1> HIDE DEF e
<1>3. QED BY <1>1, <1>2, ClaimShortens

(* The serial stage gives a chunk for a core, after a refusal or not.      *)
LEMMA ClaimCPUShortens ==
  ASSUME IInv, IInv', NEW t \in Threads, pc[t] = "free", begin < Last, numCPUs > 0,
         ClaimCPU(t), refused' = NoThread, UNCHANGED <<inCall, eof>>
  PROVE  StepsLeft' < StepsLeft
<1>1. TypeOK
  BY DEF IInv
<1>2. NextChunkCPU \in 1..Remaining
  BY <1>1, CoreChunkFits
<1>3. Claim(t, begin + NextChunkCPU, "CPU")
  BY <1>1, ChunksFilled
<1>4. begin + NextChunkCPU \in begin..Last /\ begin + NextChunkCPU > begin
  BY <1>1, <1>2 DEF Remaining, TypeOK
<1>5. Owed' = 0
  BY DEF Owed
<1>6. QED BY <1>3, <1>4, <1>5, ClaimShortens

(* A refusal, the end of the input and the return each count for one.      *)
LEMMA SerialShortens ==
  ASSUME IInv, IInv', (\E t \in Threads : RefuseToken(t) \/ SerialEnd(t)) \/ PipeReturn
  PROVE  StepsLeft' < StepsLeft
<1> DEFINE Rest == 4 * Remaining + Cardinality(Staged) + Cardinality(Running)
                     + Cardinality(OnGPU)
<1>1. Rest' = Rest
  BY DEF RefuseToken, SerialEnd, PipeReturn, Remaining, Staged, Running, OnGPU
<1>2. Rest \in Nat /\ Owed \in {0, 1} /\ Ahead \in 0..2
  BY StepsLeftNat, StagesFinite
<1>3. Owed' \in {0, 1} /\ Ahead' \in 0..2
  BY DEF Owed, Ahead
<1>4. StepsLeft = Rest - Owed + Ahead /\ StepsLeft' = Rest' - Owed' + Ahead'
  <2>1. Remaining \in Nat
    BY StepsLeftNat
  <2>2. Remaining' = Remaining /\ Staged' = Staged /\ Running' = Running /\ OnGPU' = OnGPU
    BY DEF RefuseToken, SerialEnd, PipeReturn, Remaining, Staged, Running, OnGPU
  <2>3. StepsLeft = 4 * Remaining - Owed + Cardinality(Staged) + Cardinality(Running)
                      + Cardinality(OnGPU) + Ahead
    BY StepsLeftBoth
  <2>4. StepsLeft' = 4 * Remaining - Owed' + Cardinality(Staged) + Cardinality(Running)
                       + Cardinality(OnGPU) + Ahead'
    BY <2>2, StepsLeftBoth
  <2>5. QED BY <1>1, <1>2, <1>3, <2>1, <2>3, <2>4, StagesFinite
<1> HIDE DEF Rest
<1>5. CASE \E t \in Threads : RefuseToken(t)
  <2>1. refused = NoThread /\ refused' # NoThread /\ UNCHANGED <<inCall, eof>>
    BY <1>5 DEF RefuseToken, MayEnter
  <2>2. Owed = 0 /\ Owed' = 1 /\ Ahead' = Ahead
    BY <2>1 DEF Owed, Ahead
  <2>3. QED BY <1>1, <1>2, <1>4, <2>2
<1>6. CASE \E t \in Threads : SerialEnd(t)
  <2>1. inCall /\ ~ eof /\ eof' /\ UNCHANGED <<inCall, refused>>
    BY <1>6 DEF SerialEnd, MayEnter
  <2>2. Ahead = 2 /\ Ahead' = 1 /\ Owed' = Owed
    BY <2>1 DEF Owed, Ahead
  <2>3. QED BY <1>1, <1>2, <1>4, <2>2
<1>7. CASE PipeReturn
  <2>1. inCall /\ eof /\ ~ inCall' /\ UNCHANGED <<eof, refused>>
    BY <1>7 DEF PipeReturn
  <2>2. Ahead = 1 /\ Ahead' = 0 /\ Owed' = Owed
    BY <2>1 DEF Owed, Ahead
  <2>3. QED BY <1>1, <1>2, <1>4, <2>2
<1>8. QED BY <1>5, <1>6, <1>7

(* So does each step of the parallel stage, at the least. *)
LEMMA ParallelShortens ==
  ASSUME IInv, IInv', NEW t \in Threads,
         OperatorGPU(t) \/ OperatorCPU(t) \/ UpdateFG(t) \/ ReleaseToken(t)
  PROVE  StepsLeft' < StepsLeft
<1>1. TypeOK /\ Places
  BY DEF IInv
<1>2. UNCHANGED <<inCall, eof, begin, refused>>
  BY DEF OperatorGPU, OperatorCPU, UpdateFG, ReleaseToken
<1>3. \A u \in Threads \ {t} : pc'[u] = pc[u] /\ bundle'[u] = bundle[u]
  BY <1>1 DEF OperatorGPU, OperatorCPU, UpdateFG, ReleaseToken, TypeOK
<1>4. Cardinality(Staged') + Cardinality(Running') + Cardinality(OnGPU')
        < Cardinality(Staged) + Cardinality(Running) + Cardinality(OnGPU)
  <2>1. CASE OperatorGPU(t) \/ OperatorCPU(t)
    <3>1. pc[t] = "run" /\ pc'[t] = "rate" /\ bundle'[t] = bundle[t]
      BY <1>1, <2>1 DEF OperatorGPU, OperatorCPU, TypeOK
    <3>2. /\ Cardinality(Staged') = Cardinality(Staged) + 1 - 1
          /\ Cardinality(Running') = Cardinality(Running) + 0 - 1
      BY <1>3, <3>1, StagesMove
    <3>3. OnGPU' = OnGPU
      BY <1>3, <3>1 DEF OnGPU
    <3>4. QED BY <3>2, <3>3, StagesFinite
  <2>2. CASE UpdateFG(t)
    <3>1. pc[t] = "rate" /\ pc'[t] \in {"token", "free"}
          /\ bundle'[t].type \in {bundle[t].type, "none"}
      BY <1>1, <2>2 DEF UpdateFG, TypeOK, NoBundle
    <3>2. /\ Cardinality(Staged') = Cardinality(Staged) + 0 - 1
          /\ Cardinality(Running') = Cardinality(Running) + 0 - 0
          /\ Cardinality(OnGPU') = Cardinality(OnGPU)
               + (IF bundle'[t].type = "GPU" THEN 1 ELSE 0)
               - (IF bundle[t].type = "GPU" THEN 1 ELSE 0)
      BY <1>3, <3>1, StagesMove
    <3>3. Cardinality(OnGPU') <= Cardinality(OnGPU) /\ Cardinality(OnGPU') \in Int
      BY <3>1, <3>2, StagesFinite
    <3>4. QED BY <3>2, <3>3, StagesFinite
  <2>3. CASE ReleaseToken(t)
    <3>1. pc[t] = "token" /\ pc'[t] = "free" /\ bundle'[t].type = "none"
      BY <1>1, <2>3 DEF ReleaseToken, TypeOK, NoBundle
    <3>2. bundle[t].type = "GPU"
      BY <1>1, <3>1 DEF Places
    <3>3. /\ Cardinality(Staged') = Cardinality(Staged) + 0 - 0
          /\ Cardinality(Running') = Cardinality(Running) + 0 - 0
          /\ Cardinality(OnGPU') = Cardinality(OnGPU) + 0 - 1
      BY <1>3, <3>1, <3>2, StagesMove
    <3>4. QED BY <3>3, StagesFinite
  <2>4. QED BY <2>1, <2>2, <2>3
<1>5. Remaining' = Remaining /\ Owed' = Owed /\ Ahead' = Ahead
  BY <1>2 DEF Remaining, Owed, Ahead
<1>6. Cardinality(Staged') \in Int /\ Cardinality(Running') \in Int /\ Cardinality(OnGPU') \in Int
  <2>1. Staged' \subseteq Threads /\ Running' \subseteq Threads /\ OnGPU' \subseteq Threads
    BY DEF Staged, Running, OnGPU
  <2>2. IsFiniteSet(Staged') /\ IsFiniteSet(Running') /\ IsFiniteSet(OnGPU')
    BY <2>1, FS_Subset
  <2>3. QED BY <2>2, FS_CardinalityType
<1>7. QED BY <1>4, <1>5, <1>6, StepsLeftBoth, StepsLeftNat, StagesFinite

(* Every step inside a call shortens it. *)
LEMMA StepShortens ==
  ASSUME IInv, IInv', Next, inCall
  PROVE  StepsLeft' < StepsLeft
<1>1. ASSUME NEW t \in Threads, TakeToken(t) PROVE StepsLeft' < StepsLeft
  BY <1>1, ClaimGPUShortens DEF TakeToken
<1>2. ASSUME NEW t \in Threads, SerialCPU(t) PROVE StepsLeft' < StepsLeft
  <2>1. refused = t /\ refused # NoThread /\ refused' = NoThread /\ ClaimCPU(t)
        /\ UNCHANGED <<inCall, eof>>
    BY <1>2 DEF SerialCPU
  <2>2. pc[t] = "free" /\ begin < Last /\ numCPUs > 0
    BY <2>1 DEF IInv, Refused
  <2>3. QED BY <2>1, <2>2, ClaimCPUShortens
<1>3. ASSUME NEW t \in Threads, SerialDedicated(t) PROVE StepsLeft' < StepsLeft
  <2>1. MayEnter(t) /\ begin < Last /\ UNCHANGED <<inCall, eof, refused>>
    BY <1>3 DEF SerialDedicated
  <2>2. CASE t = Main /\ numGPUs > 0
    BY <1>3, <2>1, <2>2, ClaimGPUShortens DEF SerialDedicated
  <2>3. CASE ~ (t = Main /\ numGPUs > 0)
    <3>1. numCPUs > 0
      BY <2>3, NoCores
    <3>2. ClaimCPU(t) /\ pc[t] = "free" /\ refused' = NoThread
      BY <1>3, <2>1, <2>3 DEF SerialDedicated, MayEnter
    <3>3. QED BY <2>1, <3>1, <3>2, ClaimCPUShortens
  <2>4. QED BY <2>2, <2>3
<1>4. CASE (\E t \in Threads : RefuseToken(t) \/ SerialEnd(t)) \/ PipeReturn
  BY <1>4, SerialShortens
<1>5. ASSUME NEW t \in Threads,
             OperatorGPU(t) \/ OperatorCPU(t) \/ UpdateFG(t) \/ ReleaseToken(t)
      PROVE  StepsLeft' < StepsLeft
  BY <1>5, ParallelShortens
<1>6. ~ ParallelForCall
  BY DEF ParallelForCall
<1>7. QED BY <1>1, <1>2, <1>3, <1>4, <1>5, <1>6 DEF Next

(* A call starts with MostSteps steps before it. *)
LEMMA CallSteps ==
  ASSUME IInv, IInv', ParallelForCall
  PROVE  StepsLeft' = MostSteps
<1>1. begin' = First /\ ~ eof' /\ inCall' /\ UNCHANGED <<pc, bundle, refused>>
      /\ \A t \in Threads : pc[t] = "free" /\ bundle[t].type = "none"
  BY DEF ParallelForCall, IInv, Places
<1>2. refused = NoThread
  BY DEF ParallelForCall, IInv, Refused
<1>3. Staged' = {} /\ Running' = {} /\ OnGPU' = {}
  BY <1>1 DEF Staged, Running, OnGPU
<1>4. Cardinality(Staged') = 0 /\ Cardinality(Running') = 0 /\ Cardinality(OnGPU') = 0
  BY <1>3, FS_EmptySet
<1>5. Remaining' = Last - First /\ Owed' = 0 /\ Ahead' = 2
  BY <1>1, <1>2 DEF Remaining, Owed, Ahead
<1>6. QED BY <1>4, <1>5, StepsLeftBoth DEF MostSteps

(* A call takes at most MostSteps steps, whichever threads take them: each *)
(* uses up one, there are never more left, and never fewer than none.      *)
THEOREM CallIsFinite == Spec => CallShortens /\ [](StepsLeft \in 0..MostSteps)
<1>1. Init => StepsLeft \in 0..MostSteps
  <2>1. SUFFICES ASSUME Init PROVE StepsLeft \in 0..MostSteps
    OBVIOUS
  <2>2. IInv
    BY <2>1, InitIInv
  <2>3. Remaining = 0 /\ Owed = 0 /\ Ahead = 0 /\ Staged = {} /\ Running = {} /\ OnGPU = {}
    BY <2>1 DEF Init, Remaining, Owed, Ahead, Staged, Running, OnGPU, NoBundle
  <2>4. Cardinality(Staged) = 0 /\ Cardinality(Running) = 0 /\ Cardinality(OnGPU) = 0
    BY <2>3, FS_EmptySet
  <2>5. StepsLeft = 0
    BY <2>2, <2>3, <2>4, StepsLeftParts
  <2>6. QED BY <2>5 DEF MostSteps
<1>2. IInv /\ IInv' /\ [Next]_vars => [inCall => StepsLeft' < StepsLeft]_vars
  BY StepShortens
<1>3. IInv /\ IInv' /\ StepsLeft \in 0..MostSteps /\ [Next]_vars
        => (StepsLeft \in 0..MostSteps)'
  <2> SUFFICES ASSUME IInv, IInv', StepsLeft \in 0..MostSteps, [Next]_vars
               PROVE  StepsLeft' \in 0..MostSteps
    BY DEF MostSteps
  <2>1. StepsLeft' \in Nat /\ StepsLeft \in Nat /\ MostSteps \in Nat
    BY StepsLeftBoth DEF MostSteps
  <2>2. CASE Next /\ inCall
    <3>1. StepsLeft' < StepsLeft
      BY <2>2, StepShortens
    <3>2. QED BY <2>1, <3>1
  <2>3. CASE Next /\ ~ inCall
    <3>1. ParallelForCall
      BY <2>3 DEF Next, TakeToken, RefuseToken, SerialCPU, SerialDedicated, SerialEnd, MayEnter,
                  OperatorGPU, OperatorCPU, UpdateFG, ReleaseToken, PipeReturn,
                  IInv, Places, Refused
    <3>2. QED BY <2>1, <3>1, CallSteps
  <2>4. CASE UNCHANGED vars
    <3>1. StepsLeft' = StepsLeft
      BY <2>4 DEF vars, StepsLeft, Remaining, OnGPU
    <3>2. QED BY <3>1
  <2>5. QED BY <2>2, <2>3, <2>4
<1>4. QED BY <1>1, <1>2, <1>3, Invariance, PTL DEF Spec, CallShortens

-----------------------------------------------------------------------------
(* The scheduler is a pipeline: every step is one of the pipeline's, or    *)
(* invisible in it.                                                        *)
THEOREM ImplementsPipeline == Spec => P!Spec
<1>1. Init => P!Init
  BY InitIInv
<1>2. QED BY <1>1, StepPipeline, Invariance, PTL DEF Spec, P!Spec

=============================================================================
