---------------------------- MODULE MultiHap_proofs ----------------------------
(***************************************************************************)
(* Proofs about the LogFit scheduler of the ZCU102 hosts, for every number *)
(* of threads and accelerators, every iteration space, alignment, measured *)
(* throughput and chunk the fit may give.                                  *)
(***************************************************************************)
EXTENDS MultiHap, FiniteSetTheorems, TLAPS

USE ThreadsAssumption, SpaceAssumption, PointsAssumption

HeldBy == [t \in Threads |-> Held(t)]

P == INSTANCE Pipeline_proofs WITH held <- HeldBy

-----------------------------------------------------------------------------
(* The inductive invariant.                                                *)

(* A thread without a Bundle holds nothing, and no chunk ends before it    *)
(* begins.                                                                 *)
Places ==
  /\ \A t \in Threads : bundle[t].begin <= bundle[t].end
  /\ \A t \in Threads : ~ Busy(t) => bundle[t] = NoBundle
  /\ ~ inCall => \A t \in Threads : ~ Busy(t)

(* The accelerators not bound yet are 1..nAcc, and none of them has run.   *)
FreeBelow ==
  /\ \A t \in Threads : myAccId[t] = 0 \/ myAccId[t] > nAcc
  /\ \A i \in 1..nAcc : gpuThroughput[i] = -1

(* The first call makes the accelerators active. *)
Started ==
  calls = 0 => /\ ~ inCall /\ nextmeasurements = 0 /\ anyFPGArunning = 0

(* Iterations handed out in all calls. *)
HandedOut == IF calls = 0 THEN 0 ELSE (calls - 1) * (Last - First) + (begin - First)

(* A new point costs an iteration; a stored one was given out before. *)
Numbered ==
  /\ nextmeasurements <= HandedOut
  /\ \A t \in Threads : gpuMeasurement[t] <= nextmeasurements
  /\ lastmeasurements <= nextmeasurements
  /\ nextmeasurements > 0 => lastmeasurements < nextmeasurements
  /\ stablePhase => nextmeasurements > 0
  /\ chunkGPU > 0

(* Was the thread ever given an accelerator chunk that was, or will be,    *)
(* measured?                                                               *)
Assigned(t) ==
  \/ bundle[t].type > 0
  \/ myAccId[t] # 0 /\ gpuThroughput[myAccId[t]] # -1

(* In the exploration every point has one thread at most, and the points   *)
(* under way and to come are empty.                                        *)
Exploring ==
  ~ stablePhase =>
    /\ ~ stopConditionModeOn
    /\ \A j \in Points : j >= nextmeasurements => x[j] = 0
    /\ \A t \in Threads : Assigned(t) => gpuMeasurement[t] < nextmeasurements
    /\ \A t, u \in Threads : t # u /\ Assigned(t) /\ Assigned(u)
                               => gpuMeasurement[t] # gpuMeasurement[u]
    /\ \A t \in Threads : bundle[t].type > 0 => x[gpuMeasurement[t]] = 0

(* A sequence of points of one accelerator. *)
Growing(points, last) ==
  /\ \A j \in Points : j > last => points[j] = 0
  /\ points[last] = 0 => last = 0
  /\ \A i, j \in 0..last : i < j /\ points[j] # 0 => points[i] < points[j]

(* One accelerator stores its points in order. *)
Single ==
  nGPUs = 1 /\ ~ stablePhase =>
    /\ Growing(x, lastmeasurements)
    /\ \A t \in Threads : Assigned(t) => gpuMeasurement[t] >= lastmeasurements

IInv ==
  /\ TypeOK
  /\ P!Inv
  /\ Places
  /\ FreeBelow
  /\ AcceleratorOwner
  /\ Started
  /\ ActiveCounted
  /\ Numbered
  /\ Exploring
  /\ Single

-----------------------------------------------------------------------------
(* Arithmetic.                                                             *)

(* A share is a natural number, and no more than the whole. *)
LEMMA Share ==
  ASSUME NEW a \in Nat, NEW b \in Nat \ {0}
  PROVE  a \div b \in Nat /\ a \div b <= a /\ (a \div b) * b \in Nat /\ (a \div b) * b <= a
OBVIOUS

(* A product of natural numbers is one. *)
LEMMA MulNat ==
  ASSUME NEW a \in Nat, NEW b \in Nat
  PROVE  a * b \in Nat
OBVIOUS

(* One call more. *)
LEMMA OneMore ==
  ASSUME NEW c \in Nat, NEW n \in Nat
  PROVE  (c - 1) * n + n = ((c + 1) - 1) * n
OBVIOUS

(* No more than MaxCalls calls. *)
LEMMA MulMono ==
  ASSUME NEW c \in Nat, NEW m \in Nat, c <= m, NEW n \in Nat
  PROVE  (c - 1) * n + n <= m * n
<1>1. PICK d \in Nat : m = c + d
  <2>1. m - c \in Nat /\ m = c + (m - c)
    OBVIOUS
  <2>2. QED BY <2>1
<1>2. m * n = c * n + d * n
  BY <1>1
<1>3. d * n \in Nat
  BY MulNat
<1>4. (c - 1) * n + n = c * n
  OBVIOUS
<1>5. c * n \in Nat /\ m * n \in Nat
  BY MulNat
<1>6. QED BY <1>2, <1>3, <1>4, <1>5

(* An aligned size is positive. *)
LEMMA AlignPositive ==
  ASSUME NEW a \in Nat
  PROVE  ALIGN(a) \in Nat /\ ALIGN(a) > 0
<1>1. 2 * a + CHUNKALIGN \in Nat /\ 2 * CHUNKALIGN \in Nat \ {0}
  OBVIOUS
<1>2. (2 * a + CHUNKALIGN) \div (2 * CHUNKALIGN) \in Nat
  BY <1>1, Share
<1>3. ((2 * a + CHUNKALIGN) \div (2 * CHUNKALIGN)) * CHUNKALIGN \in Nat
  BY <1>2, MulNat
<1>4. QED BY <1>3 DEF ALIGN, Max2

(* Rounding down gives no more. *)
LEMMA FloorBelow ==
  ASSUME NEW a \in Nat
  PROVE  ALIGNFLOOR(a) \in Nat /\ ALIGNFLOOR(a) <= a
BY Share DEF ALIGNFLOOR

(* So does a share among the cores, also if there are none. *)
LEMMA DivBelow ==
  ASSUME NEW a \in Nat, NEW b \in Nat
  PROVE  Div(a, b) \in Nat /\ Div(a, b) <= a
BY Share DEF Div

(* The number of cores. *)
LEMMA CoresNat ==
  ASSUME TypeOK
  PROVE  nCPUs \in Nat /\ nGPUs \in Nat /\ nGPUs <= Cardinality(Threads)
<1>1. Cardinality(Threads) \in Nat
  BY FS_CardinalityType
<1>2. nGPUs \in 0..Cardinality(Threads)
  BY DEF TypeOK
<1>3. QED BY <1>1, <1>2 DEF nCPUs

(* What a core takes when it has no measured ratio, or no accelerators.    *)
LEMMA CoreSharePositive ==
  ASSUME TypeOK
  PROVE  minChunkCPU \in Nat /\ CPUShare \in Nat /\ Remaining \in Nat
<1>1. Remaining \in Nat
  BY DEF TypeOK, Remaining
<1>2. minChunkCPU \in Nat
  <2>1. iterationSpace \in Nat
    BY DEF iterationSpace
  <2>2. iterationSpace \div 100 \in Nat
    BY <2>1, Share
  <2>3. Min2(CHUNKALIGN, iterationSpace \div 100) \in Nat
    BY <2>2 DEF Min2
  <2>4. QED BY <2>3, AlignPositive DEF minChunkCPU
<1>3. Div(Remaining, nCPUs) \in Nat
  BY <1>1, CoresNat, DivBelow
<1>4. Max2(Div(Remaining, nCPUs), minChunkCPU) \in Nat
  BY <1>2, <1>3 DEF Max2
<1>5. QED BY <1>1, <1>2, <1>4, AlignPositive DEF CPUShare

(* Whatever the ratio, the size of a core's chunk is a natural number. *)
LEMMA NextChunkNat ==
  ASSUME TypeOK, NEW t \in Threads
  PROVE  NextChunkCPU(t) \subseteq Nat
<1>1. minChunkCPU \in Nat /\ CPUShare \in Nat /\ Remaining \in Nat /\ nCPUs \in Nat
  BY CoreSharePositive, CoresNat
<1>2. ASSUME NEW fG \in SpeedUps
      PROVE  ALIGN(Max2(Min2((chunkGPU * fG[2]) \div fG[1],
                             (Remaining * fG[2]) \div (fG[1] + nCPUs * fG[2])),
                        minChunkCPU)) \in Nat
  <2>1. fG[1] \in Nat \ {0} /\ fG[2] \in Nat \ {0} /\ chunkGPU \in Nat
    BY DEF TypeOK
  <2> DEFINE a == (chunkGPU * fG[2]) \div fG[1]
             b == (Remaining * fG[2]) \div (fG[1] + nCPUs * fG[2])
  <2>2. a \in Nat
    BY <2>1, MulNat, Share
  <2>3. b \in Nat
    <3>1. Remaining * fG[2] \in Nat /\ nCPUs * fG[2] \in Nat
      BY <1>1, <2>1, MulNat
    <3>2. fG[1] + nCPUs * fG[2] \in Nat \ {0}
      BY <2>1, <3>1
    <3>3. QED BY <3>1, <3>2, Share
  <2> HIDE DEF a, b
  <2>4. Max2(Min2(a, b), minChunkCPU) \in Nat
    BY <1>1, <2>2, <2>3 DEF Max2, Min2
  <2>5. ALIGN(Max2(Min2(a, b), minChunkCPU)) \in Nat
    BY <2>4, AlignPositive
  <2>6. QED BY <2>5 DEF a, b
<1>3. chunkCPU[t] \in Nat
  BY DEF TypeOK
<1>4. QED BY <1>1, <1>2, <1>3 DEF NextChunkCPU

-----------------------------------------------------------------------------
(* The points.                                                             *)

(* The room in x suffices: a point given out is one of x. *)
LEMMA RoomForPoints ==
  ASSUME TypeOK, Numbered, Started
  PROVE  nextmeasurements < MAXPOINTS
<1>1. /\ calls \in 0..MaxCalls /\ begin \in First..Last
      /\ nextmeasurements <= HandedOut /\ nextmeasurements \in Nat
  BY DEF TypeOK, Numbered
<1>2. CASE calls = 0
  BY <1>1, <1>2 DEF Started
<1>3. CASE calls # 0
  <2>1. (calls - 1) * (Last - First) + (Last - First) <= MaxCalls * (Last - First)
    BY <1>1, MulMono
  <2>2. HandedOut <= (calls - 1) * (Last - First) + (Last - First)
    BY <1>1, <1>3 DEF HandedOut
  <2>3. /\ (calls - 1) * (Last - First) \in Int /\ MaxCalls * (Last - First) \in Int
        /\ MaxCalls * (Last - First) < MAXPOINTS /\ HandedOut \in Int
    BY <1>1 DEF HandedOut
  <2>4. QED BY <1>1, <2>1, <2>2, <2>3
<1>4. QED BY <1>2, <1>3

(* A thread that drives a measured accelerator was assigned a point. *)
LEMMA DriverAssigned ==
  ASSUME IInv, NEW t \in Threads, BindAccelerator(t), NEW a \in 1..nGPUs,
         Drives(t, a), gpuThroughput[a] # -1
  PROVE  myAccId[t] = a /\ Assigned(t)
<1>1. TypeOK /\ FreeBelow
  BY DEF IInv
<1>2. CASE nAcc > 0 /\ myAccId[t] = 0
  <2>1. myAccId'[t] = nAcc
    BY <1>1, <1>2 DEF BindAccelerator, TypeOK
  <2>2. a = nAcc /\ a \in 1..nAcc
    BY <1>1, <1>2, <2>1 DEF Drives, TypeOK
  <2>3. QED BY <1>1, <2>2 DEF FreeBelow
<1>3. CASE ~ (nAcc > 0 /\ myAccId[t] = 0)
  BY <1>1, <1>3 DEF BindAccelerator, Drives, Assigned, TypeOK
<1>4. QED BY <1>2, <1>3

(* What the invariant says of the points, of an outcome f of the fit. *)
Fitting(t, f) ==
  /\ f.x \in [Points -> Nat] /\ f.last \in 0..(MAXPOINTS - 1)
  /\ f.stable \in BOOLEAN /\ f.chunk \in Nat \ {0}
  /\ f.last <= nextmeasurements /\ (nextmeasurements > 0 => f.last < nextmeasurements)
  /\ stablePhase => f.stable
  /\ f.stable => nextmeasurements > 0
  /\ ~ f.stable =>
       /\ \A j \in Points : j >= nextmeasurements => f.x[j] = 0
       /\ \A u \in Threads \ {t} : bundle[u].type > 0 => f.x[gpuMeasurement[u]] = 0
       /\ nGPUs = 1 => Growing(f.x, f.last)
       /\ nGPUs = 1 /\ Assigned(t) => gpuMeasurement[t] >= f.last
       /\ nGPUs = 1 => \A u \in Threads \ {t} : ~ Assigned(u)

(* With one accelerator only its thread is assigned points. *)
LEMMA OneAssigned ==
  ASSUME IInv, NEW t \in Threads, BindAccelerator(t), NEW a \in 1..nGPUs,
         Drives(t, a), nGPUs = 1
  PROVE  \A u \in Threads \ {t} : ~ Assigned(u)
<1>1. TypeOK /\ FreeBelow /\ AcceleratorOwner
  BY DEF IInv
<1>2. SUFFICES ASSUME NEW u \in Threads \ {t}, Assigned(u) PROVE FALSE
  OBVIOUS
<1>3. myAccId[u] = 1
  BY <1>1, <1>2 DEF Assigned, AcceleratorOwner, TypeOK, CPU
<1>4. nAcc = 0
  BY <1>1, <1>3 DEF FreeBelow, TypeOK
<1>5. myAccId[t] = 1
  BY <1>1, <1>4 DEF BindAccelerator, Drives, TypeOK
<1>6. QED BY <1>1, <1>3, <1>5 DEF AcceleratorOwner

(* A fit that leaves the points alone is one. *)
LEMMA UnchangedFits ==
  ASSUME IInv, NEW t \in Threads, BindAccelerator(t), NEW a \in 1..nGPUs, Drives(t, a)
  PROVE  Fitting(t, Fit(x, lastmeasurements, stablePhase, chunkGPU))
<1>1. TypeOK /\ Numbered /\ Exploring /\ Single
  BY DEF IInv
<1>2. chunkGPU \in Nat \ {0}
  BY <1>1 DEF TypeOK, Numbered
<1>3. nGPUs = 1 => \A u \in Threads \ {t} : ~ Assigned(u)
  BY OneAssigned
<1>4. QED
  BY <1>1, <1>2, <1>3 DEF Fitting, Fit, TypeOK, Numbered, Exploring, Single

(* Storing a point of the exploration. *)
LEMMA ExploredFits ==
  ASSUME IInv, NEW t \in Threads, ~ Busy(t), BindAccelerator(t), NEW a \in 1..nGPUs,
         Drives(t, a), gpuThroughput[a] # -1, ~ stablePhase, Increasing(t),
         NEW f \in Explored(t)
  PROVE  Fitting(t, f)
<1> DEFINE m == gpuMeasurement[t]
           points == [x EXCEPT ![m] = lastchunkGPU[t]]
           last == Max2(lastmeasurements, m)
<1>1. TypeOK /\ Numbered /\ Exploring /\ Single /\ Started
  BY DEF IInv
<1>2. Assigned(t)
  BY DriverAssigned
<1>3. /\ m \in Nat /\ m < nextmeasurements /\ nextmeasurements < MAXPOINTS
      /\ nextmeasurements \in Nat /\ lastmeasurements \in Nat
      /\ lastmeasurements < nextmeasurements
  <2>1. m < nextmeasurements
    BY <1>1, <1>2 DEF Exploring
  <2>2. m \in Nat /\ nextmeasurements \in Nat /\ lastmeasurements \in Nat
    BY <1>1 DEF TypeOK
  <2>3. nextmeasurements < MAXPOINTS
    BY <1>1, RoomForPoints
  <2>4. lastmeasurements < nextmeasurements
    BY <1>1, <2>1, <2>2 DEF Numbered
  <2>5. QED BY <2>1, <2>2, <2>3, <2>4
<1>4. m \in Points
  BY <1>3 DEF Points
<1>5. points \in [Points -> Nat] /\ points[m] = lastchunkGPU[t]
      /\ \A j \in Points \ {m} : points[j] = x[j]
  BY <1>1, <1>4 DEF TypeOK
<1>6. last \in Nat /\ last < nextmeasurements /\ last >= m /\ last >= lastmeasurements
      /\ last \in {lastmeasurements, m}
  BY <1>3 DEF Max2
<1>7. x[lastmeasurements] < lastchunkGPU[t] /\ lastchunkGPU[t] \in Nat
      /\ x[lastmeasurements] \in Nat
  BY <1>1, <1>3 DEF Increasing, TypeOK, Points
<1> DEFINE filledOK == \A k \in 0..(last - 1) : points[k] # 0
           covered == points[last] >= iterationSpace
           mayBeFlat == filledOK /\ last >= NumberPoints + 2
<1> HIDE DEF filledOK
<1>8. \/ f = Fit(points, last, FALSE, chunkGPU)
      \/ \E c \in FitChunks :
           \/ f = Fit(points, last, TRUE, c)
           \/ f = Fit(points, last - 2, TRUE, c) /\ last >= NumberPoints + 2
  BY DEF Explored, filledOK
<1> HIDE DEF m, points, last
<1>9. CASE f = Fit(points, last, FALSE, chunkGPU)
  <2>1. /\ f.x = points /\ f.last = last /\ f.stable = FALSE /\ f.chunk = chunkGPU
    BY <1>9 DEF Fit
  <2>2. \A j \in Points : j >= nextmeasurements => points[j] = 0
    <3>1. SUFFICES ASSUME NEW j \in Points, j >= nextmeasurements PROVE points[j] = 0
      OBVIOUS
    <3>2. x[j] = 0
      BY <1>1, <3>1 DEF Exploring
    <3>3. j # m
      BY <1>3, <3>1
    <3>4. QED BY <1>5, <3>2, <3>3
  <2>3. \A u \in Threads \ {t} : bundle[u].type > 0 => points[gpuMeasurement[u]] = 0
    <3>1. SUFFICES ASSUME NEW u \in Threads \ {t}, bundle[u].type > 0
                   PROVE  points[gpuMeasurement[u]] = 0
      OBVIOUS
    <3>2. gpuMeasurement[u] # m /\ x[gpuMeasurement[u]] = 0
      BY <1>1, <1>2, <3>1 DEF Exploring, Assigned, m
    <3>3. gpuMeasurement[u] \in Points
      <4>1. gpuMeasurement[u] \in Nat /\ gpuMeasurement[u] <= nextmeasurements
        BY <1>1 DEF TypeOK, Numbered
      <4>2. QED BY <1>3, <4>1 DEF Points
    <3>4. QED BY <1>5, <3>2, <3>3
  <2>4. ASSUME nGPUs = 1 PROVE Growing(points, last) /\ m >= last
    <3>1. Growing(x, lastmeasurements) /\ m >= lastmeasurements
      BY <1>1, <1>2, <2>4 DEF Single, m
    <3>2. last = m
      BY <1>3, <1>6, <3>1
    <3>3. \A j \in Points : j > m => points[j] = 0
      BY <1>3, <1>5, <3>1 DEF Growing, Points
    <3>4. points[m] # 0
      BY <1>5, <1>7
    <3>5. \A i \in 0..(m - 1) : x[i] < lastchunkGPU[t]
      <4>1. SUFFICES ASSUME NEW i \in 0..(m - 1) PROVE x[i] < lastchunkGPU[t]
        OBVIOUS
      <4>2. i \in Points
        BY <1>3 DEF Points
      <4>3. CASE i > lastmeasurements
        BY <1>7, <3>1, <4>2, <4>3 DEF Growing
      <4>4. CASE i = lastmeasurements
        BY <1>7, <4>4
      <4>5. CASE i < lastmeasurements
        <5>1. x[lastmeasurements] # 0
          BY <3>1, <4>5 DEF Growing
        <5>2. x[i] < x[lastmeasurements]
          BY <1>3, <3>1, <4>5, <5>1 DEF Growing
        <5>3. x[i] \in Nat
          BY <1>1, <4>2 DEF TypeOK
        <5>4. QED BY <1>7, <5>2, <5>3
      <4>6. QED BY <1>3, <4>3, <4>4, <4>5
    <3>6. \A i, j \in 0..m : i < j /\ points[j] # 0 => points[i] < points[j]
      <4>1. SUFFICES ASSUME NEW i \in 0..m, NEW j \in 0..m, i < j, points[j] # 0
                     PROVE  points[i] < points[j]
        OBVIOUS
      <4>2. i \in Points \ {m} /\ points[i] = x[i] /\ j \in Points
        BY <1>3, <1>5, <4>1 DEF Points
      <4>3. CASE j = m
        BY <1>3, <1>5, <3>5, <4>1, <4>2, <4>3
      <4>4. CASE j # m
        <5>1. points[j] = x[j]
          BY <1>5, <4>2, <4>4
        <5>2. j <= lastmeasurements
          BY <1>3, <3>1, <4>1, <4>2, <5>1 DEF Growing
        <5>3. QED BY <1>3, <3>1, <4>1, <4>2, <5>1, <5>2 DEF Growing
      <4>5. QED BY <4>3, <4>4
    <3>7. QED BY <1>3, <3>2, <3>3, <3>4, <3>6 DEF Growing
  <2>5. chunkGPU \in Nat \ {0}
    BY <1>1 DEF TypeOK, Numbered
  <2>6. nGPUs = 1 => \A u \in Threads \ {t} : ~ Assigned(u)
    BY OneAssigned
  <2>7. last \in 0..(MAXPOINTS - 1)
    BY <1>3, <1>6
  <2>8. /\ f.x \in [Points -> Nat] /\ f.chunk \in Nat \ {0}
        /\ f.last \in 0..(MAXPOINTS - 1) /\ f.last <= nextmeasurements
        /\ f.last < nextmeasurements
    BY <1>3, <1>5, <1>6, <2>1, <2>5, <2>7
  <2>9. f.stable \in BOOLEAN /\ ~ f.stable /\ ~ stablePhase
    BY <2>1
  <2>10. nGPUs = 1 => Growing(f.x, f.last) /\ gpuMeasurement[t] >= f.last
    BY <2>1, <2>4 DEF m
  <2>11. /\ \A j \in Points : j >= nextmeasurements => f.x[j] = 0
         /\ \A u \in Threads \ {t} : bundle[u].type > 0 => f.x[gpuMeasurement[u]] = 0
    BY <2>1, <2>2, <2>3
  <2>12. QED
    BY <2>6, <2>8, <2>9, <2>10, <2>11 DEF Fitting
<1>10. ASSUME NEW c \in FitChunks,
              \/ f = Fit(points, last, TRUE, c)
              \/ f = Fit(points, last - 2, TRUE, c) /\ last >= NumberPoints + 2
       PROVE  Fitting(t, f)
  <2>1. f.x = points /\ f.stable = TRUE /\ f.chunk = c
    BY <1>10 DEF Fit
  <2>2. f.last \in 0..last
    BY <1>6, <1>10 DEF Fit
  <2>3. c \in Nat \ {0}
    OBVIOUS
  <2>4. f.last \in 0..(MAXPOINTS - 1) /\ f.last < nextmeasurements
        /\ f.last <= nextmeasurements
    BY <1>3, <1>6, <2>2
  <2>5. f.stable \in BOOLEAN /\ f.stable
    BY <2>1
  <2>6. f.x \in [Points -> Nat] /\ f.chunk \in Nat \ {0} /\ nextmeasurements > 0
    BY <1>3, <1>5, <2>1, <2>3
  <2>7. QED BY <2>4, <2>5, <2>6 DEF Fitting
<1>11. QED BY <1>8, <1>9, <1>10

(* Every outcome of the fit is one. *)
LEMMA FitsFit ==
  ASSUME IInv, NEW t \in Threads, ~ Busy(t), BindAccelerator(t), NEW a \in 1..nGPUs,
         Drives(t, a), NEW f \in Fits(t, a)
  PROVE  Fitting(t, f)
<1>1. CASE f = Fit(x, lastmeasurements, stablePhase, chunkGPU)
  BY <1>1, UnchangedFits
<1>2. CASE gpuThroughput[a] # -1 /\ ~ stablePhase /\ Increasing(t) /\ f \in Explored(t)
  BY <1>2, ExploredFits
<1>3. ASSUME stablePhase, NEW c \in FitChunks,
             f = Fit([x EXCEPT ![lastmeasurements] = lastchunkGPU[t]],
                     lastmeasurements, TRUE, c)
      PROVE  Fitting(t, f)
  <2>1. TypeOK /\ Numbered
    BY DEF IInv
  <2>2. c \in Nat \ {0}
    BY <1>3
  <2>3. [x EXCEPT ![lastmeasurements] = lastchunkGPU[t]] \in [Points -> Nat]
    BY <2>1 DEF TypeOK
  <2>4. f.stable = TRUE /\ f.last = lastmeasurements /\ f.chunk = c /\ f.x \in [Points -> Nat]
    BY <1>3, <2>3 DEF Fit
  <2>5. /\ f.last \in 0..(MAXPOINTS - 1) /\ f.last <= nextmeasurements
        /\ nextmeasurements > 0 => f.last < nextmeasurements
    BY <2>1, <2>4 DEF TypeOK, Numbered
  <2>6. f.stable \in BOOLEAN /\ f.stable
    BY <2>4
  <2>7. nextmeasurements > 0
    BY <1>3, <2>1 DEF Numbered
  <2>8. QED BY <2>2, <2>4, <2>5, <2>6, <2>7 DEF Fitting
<1>4. QED BY <1>1, <1>2, <1>3 DEF Fits

-----------------------------------------------------------------------------
(* The scheduler is a pipeline.                                            *)

(* Leaving the serial stage with a Bundle is taking its iterations. *)
LEMMA ClaimTakes ==
  ASSUME IInv, NEW t \in Threads, MayEnter(t),
         NEW e \in begin..Last, NEW type, Claim(t, e, type),
         UNCHANGED <<inCall, eof, times>>
  PROVE  P!Next
<1>1. TypeOK /\ Places
  BY DEF IInv
<1>2. /\ begin' = e /\ begin \in First..Last /\ e \in First..Last /\ inCall /\ ~ eof
      /\ bundle' = [bundle EXCEPT ![t] = [begin |-> begin, end |-> e, type |-> type]]
  BY <1>1 DEF Claim, TypeOK, MayEnter
<1>3. HeldBy[t] = {}
  BY <1>1 DEF HeldBy, Held, MayEnter, Places, NoBundle
<1>4. HeldBy' = [HeldBy EXCEPT ![t] = begin..(e - 1)]
  <2>1. Held(t)' = begin..(e - 1)
    BY <1>1, <1>2 DEF Held, TypeOK
  <2>2. \A u \in Threads \ {t} : Held(u)' = Held(u)
    BY <1>1, <1>2 DEF Held, TypeOK
  <2>3. QED BY <2>1, <2>2 DEF HeldBy
<1>5. P!Take(t, e)
  BY <1>2, <1>3, <1>4 DEF P!Take
<1>6. QED BY <1>2, <1>5 DEF P!Next

(* The five ways an accelerator's thread leaves the serial stage, by what  *)
(* it takes: type is the accelerator's or the core's.                      *)
LEMMA AdoptEnds ==
  ASSUME IInv, NEW t \in Threads, NEW a \in 1..nGPUs, NEW f \in Fits(t, a),
         \/ GiveChunk(t, a, f) \/ GiveTail(t, a, f) \/ GiveTailToCPU(t, a, f)
         \/ ConcordGPU(t, a, f) \/ ConcordCPU(t, a, f)
  PROVE  /\ Adopt(t, a, f) /\ Fitting(t, f)
         /\ \E e \in begin..Last, type \in {CPU, a} :
              /\ Claim(t, e, type)
              /\ \/ type = CPU /\ UNCHANGED <<gpuMeasurement, nextmeasurements>>
                 \/ /\ f.stable /\ nextmeasurements' = nextmeasurements
                    /\ \E m \in {f.last, nextmeasurements} :
                         gpuMeasurement' = [gpuMeasurement EXCEPT ![t] = m]
                 \/ /\ type = a /\ e > begin /\ ~ stopConditionModeOn'
                    /\ nextmeasurements' = nextmeasurements + 1
                    /\ gpuMeasurement' = [gpuMeasurement EXCEPT ![t] = nextmeasurements]
         /\ chunkGPU' \in Nat \ {0}
         /\ chunkCPU' \in [Threads -> Nat]
         /\ UNCHANGED active \/ Retire(a)
<1>1. TypeOK /\ Places
  BY DEF IInv
<1>2. Adopt(t, a, f)
  BY DEF GiveChunk, GiveTail, GiveTailToCPU, ConcordGPU, ConcordCPU
<1>3. Fitting(t, f)
  BY <1>2, FitsFit DEF Adopt, MayEnter
<1>4. /\ begin \in Nat /\ Remaining \in Nat \ {0} /\ begin + Remaining = Last
      /\ f.chunk \in Nat \ {0} /\ iterationSpace \in Nat \ {0}
  <2>1. begin \in First..Last /\ begin < Last
    BY <1>1, <1>2 DEF Adopt, TypeOK
  <2>2. f.chunk \in Nat \ {0}
    BY <1>3 DEF Fitting
  <2>3. QED BY <2>1, <2>2 DEF Remaining, iterationSpace
<1>5. ASSUME Number(t, f)
      PROVE  /\ chunkGPU' \in Nat \ {0}
             /\ nextmeasurements' = IF f.stable THEN nextmeasurements ELSE nextmeasurements + 1
  BY <1>4, <1>5 DEF Number, Min2
<1>6. stopConditionModeOn' => f.stable \/ stopConditionModeOn
  BY <1>2 DEF Adopt
<1>7. stopConditionModeOn' => f.stable
  BY <1>3, <1>6 DEF Fitting, IInv, Exploring
<1>8. chunkCPU \in [Threads -> Nat]
  BY <1>1 DEF TypeOK
<1>9. CASE GiveChunk(t, a, f)
  <2>1. /\ Claim(t, begin + f.chunk, a) /\ begin + f.chunk <= Last /\ Number(t, f)
        /\ ~ stopConditionModeOn' /\ UNCHANGED <<active, chunkCPU>>
        /\ gpuMeasurement' =
             [gpuMeasurement EXCEPT ![t] = IF f.stable THEN f.last ELSE nextmeasurements]
    BY <1>9 DEF GiveChunk
  <2>2. begin + f.chunk \in begin..Last /\ begin + f.chunk > begin
    BY <1>4, <2>1
  <2>3. CASE f.stable
    BY <1>2, <1>3, <1>5, <1>8, <2>1, <2>2, <2>3
  <2>4. CASE ~ f.stable
    BY <1>2, <1>3, <1>5, <1>8, <2>1, <2>2, <2>4
  <2>5. QED BY <2>3, <2>4
<1>10. CASE GiveTail(t, a, f)
  <2>1. /\ Claim(t, begin + ALIGNFLOOR(Remaining), a) /\ ALIGNFLOOR(Remaining) > 0
        /\ Number(t, f) /\ Retire(a) /\ chunkCPU' = chunkCPU /\ ~ stopConditionModeOn'
        /\ gpuMeasurement' = [gpuMeasurement EXCEPT ![t] = nextmeasurements]
    BY <1>10 DEF GiveTail
  <2>2. ALIGNFLOOR(Remaining) \in Nat /\ ALIGNFLOOR(Remaining) <= Remaining
    BY <1>4, FloorBelow
  <2>3. begin + ALIGNFLOOR(Remaining) \in begin..Last
        /\ begin + ALIGNFLOOR(Remaining) > begin
    BY <1>4, <2>1, <2>2
  <2>4. CASE f.stable
    BY <1>2, <1>3, <1>5, <1>8, <2>1, <2>3, <2>4
  <2>5. CASE ~ f.stable
    BY <1>2, <1>3, <1>5, <1>8, <2>1, <2>3, <2>5
  <2>6. QED BY <2>4, <2>5
<1>11. CASE GiveTailToCPU(t, a, f)
  <2>1. /\ Claim(t, begin + Div(Remaining, nCPUs), CPU) /\ chunkGPU' = f.chunk /\ Retire(a)
        /\ UNCHANGED <<gpuMeasurement, nextmeasurements, chunkCPU>>
    BY <1>11 DEF GiveTailToCPU
  <2>2. Div(Remaining, nCPUs) \in Nat /\ Div(Remaining, nCPUs) <= Remaining
    BY <1>1, <1>4, CoresNat, DivBelow
  <2>3. begin + Div(Remaining, nCPUs) \in begin..Last
    BY <1>4, <2>2
  <2>4. QED BY <1>2, <1>3, <1>4, <1>8, <2>1, <2>3
<1>12. CASE ConcordGPU(t, a, f)
  <2>1. PICK myChunk \in 0..(Remaining \div anyFPGArunning) :
             Claim(t, Min2(begin + myChunk, Last), a)
    BY <1>12 DEF ConcordGPU
  <2>2. /\ gpuMeasurement' = [gpuMeasurement EXCEPT ![t] = nextmeasurements]
        /\ chunkGPU' = f.chunk /\ Retire(a) /\ UNCHANGED <<nextmeasurements, chunkCPU>>
        /\ stopConditionModeOn'
    BY <1>12 DEF ConcordGPU
  <2>3. Min2(begin + myChunk, Last) \in begin..Last
    BY <1>4, <2>1 DEF Min2
  <2>4. QED BY <1>2, <1>3, <1>4, <1>7, <1>8, <2>1, <2>2, <2>3
<1>13. CASE ConcordCPU(t, a, f)
  <2>1. /\ Claim(t, Min2(begin + CPUShare, Last), CPU) /\ chunkGPU' = f.chunk /\ Retire(a)
        /\ UNCHANGED <<gpuMeasurement, nextmeasurements>>
        /\ chunkCPU' = [chunkCPU EXCEPT ![t] = CPUShare]
    BY <1>13 DEF ConcordCPU
  <2>2. CPUShare \in Nat
    BY <1>1, CoreSharePositive
  <2>3. Min2(begin + CPUShare, Last) \in begin..Last
    BY <1>4, <2>2 DEF Min2
  <2>4. QED BY <1>2, <1>3, <1>4, <1>8, <2>1, <2>2, <2>3
<1>14. QED BY <1>9, <1>10, <1>11, <1>12, <1>13

(* Every step of the scheduler is one of the pipeline, or none. *)
LEMMA StepPipeline == IInv /\ [Next]_vars => [P!Next]_(P!vars)
<1> SUFFICES ASSUME IInv, [Next]_vars PROVE [P!Next]_(P!vars)
  OBVIOUS
<1>1. TypeOK /\ Places
  BY DEF IInv
<1>2. CASE ParallelForCall
  <2>1. HeldBy' = HeldBy
    BY <1>2 DEF ParallelForCall, HeldBy, Held
  <2>2. P!Call
    BY <1>2, <2>1 DEF ParallelForCall, P!Call, Space, P!Space
  <2>3. QED BY <2>2 DEF P!Next
<1>3. ASSUME NEW t \in Threads, NEW a \in 1..nGPUs, NEW f \in Fits(t, a),
             \/ GiveChunk(t, a, f) \/ GiveTail(t, a, f) \/ GiveTailToCPU(t, a, f)
             \/ ConcordGPU(t, a, f) \/ ConcordCPU(t, a, f)
      PROVE  P!Next
  <2>1. Adopt(t, a, f)
    BY <1>3, AdoptEnds
  <2>2. PICK e \in begin..Last, type \in {CPU, a} : Claim(t, e, type)
    BY <1>3, AdoptEnds
  <2>3. MayEnter(t) /\ UNCHANGED <<inCall, eof, times>>
    BY <2>1 DEF Adopt, callVars
  <2>4. QED BY <2>2, <2>3, ClaimTakes
<1>4. ASSUME NEW t \in Threads, SerialFilterCPU(t) PROVE P!Next
  <2>1. PICK size \in NextChunkCPU(t) : Claim(t, Min2(begin + size, Last), CPU)
    BY <1>4 DEF SerialFilterCPU
  <2>2. size \in Nat
    BY <1>1, NextChunkNat
  <2>3. Min2(begin + size, Last) \in begin..Last
    BY <1>1, <2>2 DEF Min2, TypeOK
  <2>4. MayEnter(t) /\ UNCHANGED <<inCall, eof, times>>
    BY <1>4 DEF SerialFilterCPU, callVars
  <2>5. QED BY <2>1, <2>3, <2>4, ClaimTakes
<1>5. CASE \E t \in Threads : SerialFilterEnd(t)
  <2>1. begin = Last /\ inCall /\ ~ eof
    BY <1>1, <1>5 DEF SerialFilterEnd, MayEnter, TypeOK
  <2>2. P!End
    BY <1>5, <2>1 DEF SerialFilterEnd, P!End, HeldBy, Held, callVars
  <2>3. QED BY <2>2 DEF P!Next
<1>6. ASSUME NEW t \in Threads, executeOnGPU(t) \/ executeOnCPU(t) PROVE P!Next
  <2>1. Execute(t) /\ UNCHANGED <<inCall, begin, eof>>
    BY <1>6 DEF executeOnGPU, executeOnCPU, callVars
  <2>2. HeldBy' = [HeldBy EXCEPT ![t] = {}]
    <3>1. Held(t)' = {}
      BY <1>1, <2>1 DEF Execute, Held, NoBundle, TypeOK
    <3>2. \A u \in Threads \ {t} : Held(u)' = Held(u)
      BY <1>1, <2>1 DEF Execute, Held, TypeOK
    <3>3. QED BY <3>1, <3>2 DEF HeldBy
  <2>3. HeldBy[t] = Held(t)
    BY DEF HeldBy
  <2>4. P!Run(t)
    BY <2>1, <2>2, <2>3 DEF P!Run, Execute, Space, P!Space
  <2>5. QED BY <2>4 DEF P!Next
<1>7. CASE PipeReturn
  <2>1. HeldBy' = HeldBy /\ \A t \in Threads : HeldBy[t] = {}
    BY <1>1, <1>7 DEF PipeReturn, Places, HeldBy, Held, NoBundle
  <2>2. P!Return
    BY <1>7, <2>1 DEF PipeReturn, P!Return
  <2>3. QED BY <2>2 DEF P!Next
<1>8. CASE UNCHANGED vars
  BY <1>8 DEF vars, callVars, P!vars, HeldBy, Held
<1>9. QED
  BY <1>2, <1>3, <1>4, <1>5, <1>6, <1>7, <1>8 DEF Next

-----------------------------------------------------------------------------
(* Every step keeps the invariant.                                         *)

Actives == {i \in 1..nGPUs : gpuStatus[i] = 1}

(* Binding an accelerator keeps the bound ones apart, above the free ones, *)
(* and assigns no point.                                                   *)
LEMMA BindKeeps ==
  ASSUME IInv, NEW t \in Threads, BindAccelerator(t), UNCHANGED <<nGPUs, gpuThroughput>>
  PROVE  /\ nAcc' \in 0..nGPUs
         /\ myAccId' \in [Threads -> 0..nGPUs]
         /\ FreeBelow'
         /\ \A u, v \in Threads : myAccId'[u] = myAccId'[v] /\ myAccId'[u] # 0 => u = v
         /\ \A u \in Threads \ {t} : myAccId'[u] = myAccId[u]
         /\ \A u \in Threads : myAccId'[u] # 0 /\ gpuThroughput[myAccId'[u]] # -1
              => myAccId'[u] = myAccId[u]
<1>1. /\ nAcc \in 0..nGPUs /\ myAccId \in [Threads -> 0..nGPUs]
      /\ FreeBelow /\ AcceleratorOwner /\ nGPUs \in Nat
  BY CoresNat DEF IInv, TypeOK
<1>2. CASE nAcc > 0 /\ myAccId[t] = 0
  <2>1. myAccId' = [myAccId EXCEPT ![t] = nAcc] /\ nAcc' = nAcc - 1
    BY <1>2 DEF BindAccelerator
  <2>2. FreeBelow'
    <3>1. \A u \in Threads : myAccId'[u] = 0 \/ myAccId'[u] > nAcc'
      BY <1>1, <1>2, <2>1 DEF FreeBelow
    <3>2. \A i \in 1..nAcc' : gpuThroughput'[i] = -1
      BY <1>1, <2>1 DEF FreeBelow
    <3>3. QED BY <3>1, <3>2 DEF FreeBelow
  <2>3. \A u, v \in Threads : myAccId'[u] = myAccId'[v] /\ myAccId'[u] # 0 => u = v
    BY <1>1, <1>2, <2>1 DEF FreeBelow, AcceleratorOwner
  <2>4. myAccId'[t] = nAcc /\ gpuThroughput[nAcc] = -1
    BY <1>1, <1>2, <2>1 DEF FreeBelow
  <2>5. QED BY <1>1, <1>2, <2>1, <2>2, <2>3, <2>4
<1>3. CASE ~ (nAcc > 0 /\ myAccId[t] = 0)
  <2>1. UNCHANGED <<myAccId, nAcc>>
    BY <1>3 DEF BindAccelerator
  <2>2. QED BY <1>1, <2>1 DEF FreeBelow, AcceleratorOwner
<1>4. QED BY <1>2, <1>3

(* What taking a chunk does to the Bundles, the space and the assignments. *)
LEMMA ClaimKeeps ==
  ASSUME IInv, NEW t \in Threads, MayEnter(t), BindAccelerator(t),
         NEW e \in begin..Last, NEW type \in 0..nGPUs, Claim(t, e, type),
         type \in {CPU, myAccId'[t]},
         UNCHANGED <<nGPUs, inCall, calls, gpuThroughput>>
  PROVE  /\ begin' \in First..Last /\ HandedOut' = HandedOut + (e - begin)
         /\ bundle' \in [Threads -> [begin : First..Last, end : First..Last, type : -1..nGPUs]]
         /\ Places' /\ AcceleratorOwner' /\ Started
         /\ \A u \in Threads \ {t} : bundle'[u] = bundle[u]
         /\ bundle'[t].type = type
         /\ \A u \in Threads \ {t} : Assigned(u)' => Assigned(u)
         /\ type = CPU => (Assigned(t)' => Assigned(t))
<1>1. TypeOK /\ Places /\ AcceleratorOwner /\ Started
  BY DEF IInv
<1>2. /\ begin' = e /\ begin \in First..Last /\ e \in First..Last /\ inCall
      /\ bundle' = [bundle EXCEPT ![t] = [begin |-> begin, end |-> e, type |-> type]]
  BY <1>1 DEF Claim, TypeOK, MayEnter
<1>3. /\ bundle' \in [Threads -> [begin : First..Last, end : First..Last, type : -1..nGPUs]]
      /\ bundle'[t].type = type
      /\ \A u \in Threads \ {t} : bundle'[u] = bundle[u]
  BY <1>1, <1>2 DEF TypeOK
<1>4. Places'
  BY <1>1, <1>2, <1>3 DEF Places, Busy
<1>5. /\ \A u, v \in Threads : myAccId'[u] = myAccId'[v] /\ myAccId'[u] # 0 => u = v
      /\ \A u \in Threads \ {t} : myAccId'[u] = myAccId[u]
      /\ \A u \in Threads : myAccId'[u] # 0 /\ gpuThroughput[myAccId'[u]] # -1
           => myAccId'[u] = myAccId[u]
  BY BindKeeps
<1>6. AcceleratorOwner'
  BY <1>1, <1>3, <1>5 DEF AcceleratorOwner
<1>7. calls # 0
  BY <1>1, <1>2 DEF Started
<1>8. HandedOut' = HandedOut + (e - begin)
  <2>1. (calls - 1) * (Last - First) \in Int
    BY <1>1 DEF TypeOK
  <2>2. HandedOut = (calls - 1) * (Last - First) + (begin - First)
    BY <1>7 DEF HandedOut
  <2>3. HandedOut' = (calls - 1) * (Last - First) + (e - First)
    BY <1>2, <1>7 DEF HandedOut
  <2>4. begin \in Int /\ e \in Int
    BY <1>2
  <2>5. QED BY <2>1, <2>2, <2>3, <2>4
<1>9. \A u \in Threads \ {t} : Assigned(u)' => Assigned(u)
  BY <1>3, <1>5 DEF Assigned
<1>10. type = CPU => (Assigned(t)' => Assigned(t))
  BY <1>3, <1>5 DEF Assigned, CPU
<1>11. QED BY <1>1, <1>2, <1>3, <1>4, <1>6, <1>8, <1>9, <1>10

(* Retiring an active accelerator keeps the count. *)
LEMMA RetireKeeps ==
  ASSUME IInv, inCall, NEW a \in 1..nGPUs, gpuStatus[a] = 1, UNCHANGED <<nGPUs, calls>>,
         UNCHANGED active \/ Retire(a)
  PROVE  /\ gpuStatus' \in [1..nGPUs -> {0, 1}] /\ anyFPGArunning' \in 0..nGPUs
         /\ ActiveCounted'
<1>1. TypeOK /\ ActiveCounted /\ calls # 0 /\ calls \in Nat
  BY DEF IInv, Started, TypeOK
<1>2. anyFPGArunning = Cardinality(Actives) /\ nGPUs \in Nat /\ anyFPGArunning \in 0..nGPUs
  BY <1>1, CoresNat DEF ActiveCounted, Actives, TypeOK
<1>3. CASE UNCHANGED active
  BY <1>1, <1>3 DEF active, ActiveCounted, TypeOK
<1>4. CASE Retire(a)
  <2>1. gpuStatus' = [gpuStatus EXCEPT ![a] = 0] /\ anyFPGArunning' = anyFPGArunning - 1
    BY <1>4 DEF Retire
  <2>2. gpuStatus' \in [1..nGPUs -> {0, 1}]
    BY <1>1, <2>1 DEF TypeOK
  <2>3. Actives' = Actives \ {a} /\ a \in Actives
    BY <1>1, <2>1 DEF Actives, TypeOK
  <2>4. IsFiniteSet(Actives)
    <3>1. IsFiniteSet(1..nGPUs)
      BY <1>2, FS_Interval
    <3>2. Actives \in SUBSET (1..nGPUs)
      BY DEF Actives
    <3>3. QED BY <3>1, <3>2, FS_Subset
  <2>5. Cardinality(Actives') = Cardinality(Actives) - 1
    BY <2>3, <2>4, FS_RemoveElement
  <2>6. Cardinality(Actives') \in Nat
    BY <2>3, <2>4, FS_RemoveElement, FS_CardinalityType
  <2>7. anyFPGArunning' \in 0..nGPUs
    BY <1>2, <2>1, <2>5, <2>6
  <2>8. ActiveCounted'
    BY <1>2, <2>1, <2>5 DEF ActiveCounted, Actives
  <2>9. QED BY <2>2, <2>7, <2>8
<1>5. QED BY <1>3, <1>4

(* An accelerator's thread leaves the serial stage. *)
LEMMA AdoptKeeps ==
  ASSUME IInv, NEW t \in Threads, NEW a \in 1..nGPUs, NEW f \in Fits(t, a),
         \/ GiveChunk(t, a, f) \/ GiveTail(t, a, f) \/ GiveTailToCPU(t, a, f)
         \/ ConcordGPU(t, a, f) \/ ConcordCPU(t, a, f),
         P!Inv'
  PROVE  IInv'
<1>1. TypeOK /\ Numbered /\ Exploring /\ Single /\ Started /\ AcceleratorOwner
  BY DEF IInv
<1>2. Adopt(t, a, f) /\ Fitting(t, f)
  BY AdoptEnds
<1>3. PICK e \in begin..Last, type \in {CPU, a} :
        /\ Claim(t, e, type)
        /\ \/ type = CPU /\ UNCHANGED <<gpuMeasurement, nextmeasurements>>
           \/ /\ f.stable /\ nextmeasurements' = nextmeasurements
              /\ \E m \in {f.last, nextmeasurements} :
                   gpuMeasurement' = [gpuMeasurement EXCEPT ![t] = m]
           \/ /\ type = a /\ e > begin /\ ~ stopConditionModeOn'
              /\ nextmeasurements' = nextmeasurements + 1
              /\ gpuMeasurement' = [gpuMeasurement EXCEPT ![t] = nextmeasurements]
  BY AdoptEnds
<1>4. /\ chunkGPU' \in Nat \ {0} /\ chunkCPU' \in [Threads -> Nat]
      /\ UNCHANGED active \/ Retire(a)
  BY AdoptEnds
<1>5. /\ MayEnter(t) /\ BindAccelerator(t) /\ Drives(t, a) /\ inCall
      /\ x' = f.x /\ lastmeasurements' = f.last /\ stablePhase' = f.stable
      /\ stopConditionModeOn' =
           (stopConditionModeOn \/ (f.stable /\ GPU_Stop_Condition(f.chunk)))
      /\ UNCHANGED <<nGPUs, inCall, calls, eof, fGvalid, gpuThroughput, cpuThroughput,
                     lastcpuThroughput, lastchunkGPU, times>>
  BY <1>2 DEF Adopt, MayEnter, callVars, measured
<1>6. type \in 0..nGPUs /\ type \in {CPU, myAccId'[t]}
  BY <1>1, <1>5, CoresNat DEF CPU, Drives
<1>7. /\ begin' \in First..Last /\ HandedOut' = HandedOut + (e - begin)
      /\ bundle' \in [Threads -> [begin : First..Last, end : First..Last, type : -1..nGPUs]]
      /\ Places' /\ AcceleratorOwner'
      /\ \A u \in Threads \ {t} : bundle'[u] = bundle[u]
      /\ bundle'[t].type = type
      /\ \A u \in Threads \ {t} : Assigned(u)' => Assigned(u)
      /\ type = CPU => (Assigned(t)' => Assigned(t))
  BY <1>3, <1>5, <1>6, ClaimKeeps
<1>8. /\ nAcc' \in 0..nGPUs /\ myAccId' \in [Threads -> 0..nGPUs] /\ FreeBelow'
  BY <1>5, BindKeeps
<1>9. /\ gpuStatus' \in [1..nGPUs -> {0, 1}] /\ anyFPGArunning' \in 0..nGPUs
      /\ ActiveCounted'
  BY <1>4, <1>5, RetireKeeps DEF Drives
<1>10. Started'
  BY <1>1, <1>5 DEF Started
<1>11. nextmeasurements < MAXPOINTS /\ nextmeasurements \in Nat
  <2>1. nextmeasurements < MAXPOINTS
    BY <1>1, RoomForPoints
  <2>2. QED BY <1>1, <2>1 DEF TypeOK
<1>12. /\ nextmeasurements' \in 0..MAXPOINTS /\ nextmeasurements' >= nextmeasurements
       /\ nextmeasurements' <= nextmeasurements + (e - begin)
       /\ gpuMeasurement' \in [Threads -> 0..MAXPOINTS]
       /\ \A u \in Threads : gpuMeasurement'[u] <= nextmeasurements'
       /\ \A u \in Threads \ {t} : gpuMeasurement'[u] = gpuMeasurement[u]
  <2>1. /\ gpuMeasurement \in [Threads -> 0..MAXPOINTS]
        /\ \A u \in Threads : gpuMeasurement[u] <= nextmeasurements
        /\ begin \in Nat /\ e \in Nat /\ begin <= e
    BY <1>1 DEF TypeOK, Numbered
  <2>2. f.last \in 0..(MAXPOINTS - 1) /\ f.last <= nextmeasurements
    BY <1>2 DEF Fitting
  <2>3. CASE UNCHANGED <<gpuMeasurement, nextmeasurements>>
    BY <1>11, <2>1, <2>3
  <2>4. CASE /\ nextmeasurements' = nextmeasurements
             /\ \E m \in {f.last, nextmeasurements} :
                  gpuMeasurement' = [gpuMeasurement EXCEPT ![t] = m]
    BY <1>11, <2>1, <2>2, <2>4
  <2>5. CASE /\ nextmeasurements' = nextmeasurements + 1 /\ e > begin
             /\ gpuMeasurement' = [gpuMeasurement EXCEPT ![t] = nextmeasurements]
    BY <1>11, <2>1, <2>5
  <2>6. QED BY <1>3, <2>3, <2>4, <2>5
<1>13. Numbered'
  <2>1. f.last <= nextmeasurements /\ (nextmeasurements > 0 => f.last < nextmeasurements)
        /\ f.last \in Nat
    BY <1>2 DEF Fitting
  <2>2. nextmeasurements <= HandedOut /\ HandedOut \in Int
    BY <1>1 DEF Numbered, HandedOut, TypeOK
  <2>3. nextmeasurements' <= HandedOut'
    <3>1. e - begin \in Int /\ nextmeasurements' \in Int
      BY <1>1, <1>12 DEF TypeOK
    <3>2. QED BY <1>7, <1>11, <1>12, <2>2, <3>1
  <2>4. lastmeasurements' <= nextmeasurements'
        /\ (nextmeasurements' > 0 => lastmeasurements' < nextmeasurements')
    BY <1>5, <1>11, <1>12, <2>1
  <2>5. stablePhase' => nextmeasurements' > 0
    BY <1>2, <1>5, <1>11, <1>12 DEF Fitting
  <2>6. QED BY <1>4, <1>12, <2>3, <2>4, <2>5 DEF Numbered
<1>14. TypeOK'
  <2>1. /\ x' \in [Points -> Nat] /\ lastmeasurements' \in 0..(MAXPOINTS - 1)
        /\ stablePhase' \in BOOLEAN
    BY <1>2, <1>5 DEF Fitting
  <2>2. stopConditionModeOn' \in BOOLEAN
    BY <1>1, <1>5, <2>1 DEF TypeOK
  <2>3. QED
    BY <1>1, <1>4, <1>5, <1>7, <1>8, <1>9, <1>12, <2>1, <2>2 DEF TypeOK, Space, Points
<1>15. ASSUME ~ f.stable
       PROVE  /\ ~ stablePhase /\ ~ stopConditionModeOn' /\ ~ stopConditionModeOn
              /\ \/ type = CPU /\ UNCHANGED <<gpuMeasurement, nextmeasurements>>
                 \/ /\ type = a /\ nextmeasurements' = nextmeasurements + 1
                    /\ gpuMeasurement' = [gpuMeasurement EXCEPT ![t] = nextmeasurements]
  BY <1>1, <1>2, <1>3, <1>5, <1>15 DEF Fitting, Exploring
<1>16. Exploring'
  <2>1. SUFFICES ASSUME ~ f.stable PROVE Exploring'
    BY <1>5 DEF Exploring
  <2>2. /\ \A u \in Threads : Assigned(u) => gpuMeasurement[u] < nextmeasurements
        /\ \A u, v \in Threads : u # v /\ Assigned(u) /\ Assigned(v)
             => gpuMeasurement[u] # gpuMeasurement[v]
        /\ \A j \in Points : j >= nextmeasurements => f.x[j] = 0
        /\ \A u \in Threads \ {t} : bundle[u].type > 0 => f.x[gpuMeasurement[u]] = 0
    BY <1>1, <1>2, <1>15, <2>1 DEF Exploring, Fitting
  <2>3. gpuMeasurement \in [Threads -> 0..MAXPOINTS] /\ nextmeasurements \in Points
    BY <1>1, <1>11 DEF TypeOK, Points
  <2>4. CASE type = CPU /\ UNCHANGED <<gpuMeasurement, nextmeasurements>>
    <3>1. \A u \in Threads : Assigned(u)' => Assigned(u)
      BY <1>7, <2>4
    <3>2. \A u \in Threads : bundle'[u].type > 0 => u # t /\ bundle[u].type > 0
      BY <1>7, <2>4 DEF CPU
    <3>3. QED BY <1>5, <1>15, <2>1, <2>2, <2>4, <3>1, <3>2 DEF Exploring, Points
  <2>5. CASE /\ type = a /\ nextmeasurements' = nextmeasurements + 1
             /\ gpuMeasurement' = [gpuMeasurement EXCEPT ![t] = nextmeasurements]
    <3>1. gpuMeasurement'[t] = nextmeasurements
          /\ \A u \in Threads \ {t} : gpuMeasurement'[u] = gpuMeasurement[u]
      BY <2>3, <2>5
    <3>2. \A j \in Points : j >= nextmeasurements' => x'[j] = 0
      BY <1>5, <1>11, <2>2, <2>5 DEF Points
    <3>3. \A u \in Threads : Assigned(u)' => gpuMeasurement'[u] < nextmeasurements'
      <4>1. SUFFICES ASSUME NEW u \in Threads, Assigned(u)'
                     PROVE  gpuMeasurement'[u] < nextmeasurements'
        OBVIOUS
      <4>2. CASE u = t
        BY <1>11, <2>5, <3>1, <4>2
      <4>3. CASE u # t
        BY <1>7, <1>11, <2>2, <2>3, <2>5, <3>1, <4>1, <4>3
      <4>4. QED BY <4>2, <4>3
    <3>4. \A u, v \in Threads : u # v /\ Assigned(u)' /\ Assigned(v)'
            => gpuMeasurement'[u] # gpuMeasurement'[v]
      <4>1. SUFFICES ASSUME NEW u \in Threads, NEW v \in Threads, u # v,
                            Assigned(u)', Assigned(v)'
                     PROVE  gpuMeasurement'[u] # gpuMeasurement'[v]
        OBVIOUS
      <4>2. \A w \in Threads \ {t} : Assigned(w)' =>
              gpuMeasurement[w] < nextmeasurements /\ gpuMeasurement[w] # nextmeasurements
        BY <1>7, <1>11, <2>2, <2>3
      <4>3. QED BY <1>7, <2>2, <3>1, <4>1, <4>2
    <3>5. \A u \in Threads : bundle'[u].type > 0 => x'[gpuMeasurement'[u]] = 0
      BY <1>5, <1>7, <1>11, <2>2, <2>3, <3>1
    <3>6. QED BY <1>15, <2>1, <3>2, <3>3, <3>4, <3>5 DEF Exploring, Points
  <2>6. QED BY <1>15, <2>1, <2>4, <2>5
<1>17. Single'
  <2>1. SUFFICES ASSUME nGPUs = 1, ~ f.stable PROVE Single'
    BY <1>5 DEF Single
  <2>2. /\ Growing(f.x, f.last)
        /\ Assigned(t) => gpuMeasurement[t] >= f.last
        /\ \A u \in Threads \ {t} : ~ Assigned(u)
        /\ f.last <= nextmeasurements
    BY <1>2, <2>1 DEF Fitting
  <2>3. Growing(x, lastmeasurements)'
    BY <1>5, <2>2 DEF Growing, Points
  <2>4. \A u \in Threads : Assigned(u)' => gpuMeasurement'[u] >= lastmeasurements'
    <3>1. SUFFICES ASSUME NEW u \in Threads, Assigned(u)'
                   PROVE  gpuMeasurement'[u] >= lastmeasurements'
      OBVIOUS
    <3>2. u = t
      BY <1>7, <2>2, <3>1
    <3>3. CASE type = CPU /\ UNCHANGED <<gpuMeasurement, nextmeasurements>>
      BY <1>5, <1>7, <2>2, <3>1, <3>2, <3>3
    <3>4. CASE gpuMeasurement' = [gpuMeasurement EXCEPT ![t] = nextmeasurements]
      <4>1. gpuMeasurement'[t] = nextmeasurements
        BY <1>1, <3>4 DEF TypeOK
      <4>2. f.last \in Nat
        BY <1>2 DEF Fitting
      <4>3. QED BY <1>5, <1>11, <2>2, <3>2, <4>1, <4>2
    <3>5. QED BY <1>15, <2>1, <3>3, <3>4
  <2>5. QED BY <2>3, <2>4 DEF Single
<1>18. QED BY <1>7, <1>8, <1>9, <1>10, <1>13, <1>14, <1>16, <1>17 DEF IInv

(* A core takes a chunk. *)
LEMMA SerialCPUKeeps ==
  ASSUME IInv, NEW t \in Threads, SerialFilterCPU(t), P!Inv'
  PROVE  IInv'
<1>1. /\ TypeOK /\ Numbered /\ Exploring /\ Single /\ Started /\ ActiveCounted
  BY DEF IInv
<1>2. PICK size \in NextChunkCPU(t) :
        /\ chunkCPU' = [chunkCPU EXCEPT ![t] = size]
        /\ Claim(t, Min2(begin + size, Last), CPU)
  BY DEF SerialFilterCPU
<1>3. size \in Nat
  BY <1>1, NextChunkNat
<1>4. /\ MayEnter(t) /\ BindAccelerator(t) /\ fGvalid' = (fGvalid \/ Comparable(t))
      /\ UNCHANGED <<nGPUs, inCall, calls, eof, gpuStatus, anyFPGArunning, gpuThroughput,
                     cpuThroughput, lastcpuThroughput, lastchunkGPU, x, lastmeasurements,
                     stablePhase, stopConditionModeOn, gpuMeasurement, nextmeasurements,
                     chunkGPU, times>>
  BY DEF SerialFilterCPU, callVars, active, measured, fit, given
<1> DEFINE e == Min2(begin + size, Last)
<1>5. e \in begin..Last
  BY <1>1, <1>3 DEF Min2, TypeOK
<1> HIDE DEF e
<1>6. CPU \in 0..nGPUs
  BY CoresNat, <1>1 DEF CPU
<1>7. /\ begin' \in First..Last /\ HandedOut' = HandedOut + (e - begin)
      /\ bundle' \in [Threads -> [begin : First..Last, end : First..Last, type : -1..nGPUs]]
      /\ Places' /\ AcceleratorOwner'
      /\ \A u \in Threads \ {t} : bundle'[u] = bundle[u]
      /\ bundle'[t].type = CPU
      /\ \A u \in Threads : Assigned(u)' => Assigned(u)
  <2>1. Claim(t, e, CPU)
    BY <1>2 DEF e
  <2>2. QED BY <1>4, <1>5, <1>6, <2>1, ClaimKeeps
<1>8. nAcc' \in 0..nGPUs /\ myAccId' \in [Threads -> 0..nGPUs] /\ FreeBelow'
  BY <1>4, BindKeeps
<1>9. chunkCPU' \in [Threads -> Nat] /\ fGvalid' \in BOOLEAN
  <2>1. chunkCPU' \in [Threads -> Nat]
    BY <1>1, <1>2, <1>3 DEF TypeOK
  <2>2. fGvalid' \in BOOLEAN
    BY <1>1, <1>4 DEF TypeOK, Comparable
  <2>3. QED BY <2>1, <2>2
<1>10. TypeOK'
  BY <1>1, <1>4, <1>7, <1>8, <1>9 DEF TypeOK, Space, Points
<1>11. Numbered'
  <2>1. HandedOut \in Int /\ e - begin \in Nat
    BY <1>1, <1>5 DEF HandedOut, TypeOK
  <2>2. nextmeasurements \in Nat /\ nextmeasurements <= HandedOut
    BY <1>1 DEF Numbered, TypeOK
  <2>3. nextmeasurements <= HandedOut'
    BY <1>7, <2>1, <2>2
  <2>4. QED BY <1>1, <1>4, <2>3 DEF Numbered
<1>12. Started' /\ ActiveCounted'
  BY <1>1, <1>4 DEF Started, ActiveCounted
<1>13. \A u \in Threads : bundle'[u].type > 0 => bundle[u].type > 0
  BY <1>7 DEF CPU
<1>14. Exploring'
  BY <1>1, <1>4, <1>7, <1>13 DEF Exploring, Points
<1>15. Single'
  BY <1>1, <1>4, <1>7 DEF Single, Growing, Points
<1>16. QED BY <1>7, <1>8, <1>10, <1>11, <1>12, <1>14, <1>15 DEF IInv

(* A chunk is run and, but for the last ones of a call, measured. *)
LEMMA ExecuteKeeps ==
  ASSUME IInv, NEW t \in Threads, executeOnGPU(t) \/ executeOnCPU(t), P!Inv'
  PROVE  IInv'
<1>1. /\ TypeOK /\ Places /\ FreeBelow /\ AcceleratorOwner /\ Started
      /\ ActiveCounted /\ Numbered /\ Exploring /\ Single
  BY DEF IInv
<1>2. /\ Busy(t) /\ Execute(t)
      /\ UNCHANGED <<nGPUs, inCall, calls, begin, eof, nAcc, myAccId, gpuStatus,
                     anyFPGArunning, chunkCPU, fGvalid, x, lastmeasurements, stablePhase,
                     stopConditionModeOn, gpuMeasurement, nextmeasurements, chunkGPU>>
  BY DEF executeOnGPU, executeOnCPU, callVars, active, fit, given
<1>3. /\ bundle' \in [Threads -> [begin : First..Last, end : First..Last, type : -1..nGPUs]]
      /\ bundle'[t] = NoBundle /\ \A u \in Threads \ {t} : bundle'[u] = bundle[u]
  <2>1. NoBundle \in [begin : First..Last, end : First..Last, type : -1..nGPUs]
    BY <1>1, CoresNat DEF NoBundle
  <2>2. QED BY <1>1, <1>2, <2>1 DEF Execute, TypeOK
<1>4. times' \in [Space -> Nat]
  BY <1>1, <1>2 DEF Execute, TypeOK
<1>5. Sign(Length(t)) \in {0, 1} /\ Length(t) \in Nat
  BY <1>1 DEF Sign, Length, Places, TypeOK
<1>6. \/ bundle[t].type = CPU
      \/ bundle[t].type \in 1..nGPUs /\ bundle[t].type = myAccId[t]
  <2>1. bundle[t].type \in -1..nGPUs /\ bundle[t].type # -1 /\ nGPUs \in Nat
    BY <1>1, <1>2, CoresNat DEF Busy, TypeOK
  <2>2. bundle[t].type \in {CPU, myAccId[t]}
    BY <1>1, <2>1 DEF AcceleratorOwner
  <2>3. QED BY <2>1, <2>2 DEF CPU
<1>7. Places'
  <2>1. bundle'[t].begin <= bundle'[t].end
    BY <1>3 DEF NoBundle
  <2>2. inCall
    BY <1>1, <1>2 DEF Places
  <2>3. QED BY <1>1, <1>2, <1>3, <2>1, <2>2 DEF Places, Busy
<1>8. AcceleratorOwner'
  BY <1>1, <1>2, <1>3 DEF AcceleratorOwner, NoBundle
<1>9. Started' /\ ActiveCounted' /\ HandedOut' = HandedOut
  BY <1>1, <1>2 DEF Started, ActiveCounted, HandedOut
<1>10. Numbered'
  BY <1>1, <1>2, <1>9 DEF Numbered
<1>11. \/ UNCHANGED <<gpuThroughput, lastchunkGPU>>
       \/ /\ bundle[t].type # CPU
          /\ gpuThroughput' = [gpuThroughput EXCEPT ![bundle[t].type] = Sign(Length(t))]
          /\ lastchunkGPU' = [lastchunkGPU EXCEPT ![t] = Length(t)]
  BY DEF executeOnGPU, executeOnCPU
<1>12. /\ gpuThroughput' \in [1..nGPUs -> {-1, 0, 1}]
       /\ lastchunkGPU' \in [Threads -> Nat]
       /\ \A i \in 1..nGPUs : i # myAccId[t] => gpuThroughput'[i] = gpuThroughput[i]
  <2>1. CASE UNCHANGED <<gpuThroughput, lastchunkGPU>>
    BY <1>1, <2>1 DEF TypeOK
  <2>2. CASE /\ bundle[t].type # CPU
             /\ gpuThroughput' = [gpuThroughput EXCEPT ![bundle[t].type] = Sign(Length(t))]
             /\ lastchunkGPU' = [lastchunkGPU EXCEPT ![t] = Length(t)]
    BY <1>1, <1>5, <1>6, <2>2 DEF TypeOK
  <2>3. QED BY <1>11, <2>1, <2>2
<1>13. /\ cpuThroughput' \in [Threads -> {0, 1}]
       /\ lastcpuThroughput' \in {0, 1}
  BY <1>1, <1>5 DEF executeOnGPU, executeOnCPU, TypeOK
<1>14. TypeOK'
  BY <1>1, <1>2, <1>3, <1>4, <1>12, <1>13 DEF TypeOK, Space, Points
<1>15. FreeBelow'
  <2>1. CASE UNCHANGED gpuThroughput
    BY <1>1, <1>2, <2>1 DEF FreeBelow
  <2>2. CASE bundle[t].type # CPU
    <3>1. nAcc \in 0..nGPUs /\ nGPUs \in Nat
      BY <1>1, CoresNat DEF TypeOK
    <3>2. myAccId[t] \in 1..nGPUs
      BY <1>6, <2>2
    <3>3. myAccId[t] > nAcc
      BY <1>1, <3>1, <3>2 DEF FreeBelow
    <3>4. \A i \in 1..nAcc : i # myAccId[t] /\ i \in 1..nGPUs
      BY <3>1, <3>2, <3>3
    <3>5. QED BY <1>1, <1>2, <1>12, <3>4 DEF FreeBelow
  <2>3. QED BY <1>11, <2>1, <2>2
<1>16. \A u \in Threads : Assigned(u)' => Assigned(u)
  <2>1. SUFFICES ASSUME NEW u \in Threads, Assigned(u)' PROVE Assigned(u)
    OBVIOUS
  <2>2. CASE u = t
    <3>1. bundle[t].type = CPU => UNCHANGED gpuThroughput
      BY <1>11
    <3>2. CASE bundle[t].type = CPU
      BY <1>2, <1>3, <2>1, <2>2, <3>1, <3>2 DEF Assigned, NoBundle
    <3>3. CASE bundle[t].type # CPU
      BY <1>6, <2>2, <3>3 DEF Assigned
    <3>4. QED BY <3>2, <3>3
  <2>3. CASE u # t
    <3>1. bundle'[u] = bundle[u] /\ myAccId'[u] = myAccId[u]
      BY <1>2, <1>3, <2>3
    <3>2. CASE bundle[u].type > 0
      BY <3>2 DEF Assigned
    <3>3. CASE ~ (bundle[u].type > 0)
      <4>1. myAccId[u] # 0 /\ gpuThroughput'[myAccId[u]] # -1
        BY <2>1, <3>1, <3>3 DEF Assigned
      <4>2. myAccId[u] # myAccId[t] /\ myAccId[u] \in 1..nGPUs
        <5>1. myAccId[u] \in 0..nGPUs /\ nGPUs \in Nat
          BY <1>1, CoresNat DEF TypeOK
        <5>2. QED BY <1>1, <2>3, <4>1, <5>1 DEF AcceleratorOwner
      <4>3. QED BY <1>12, <4>1, <4>2 DEF Assigned
    <3>4. QED BY <3>2, <3>3
  <2>4. QED BY <2>2, <2>3
<1>17. \A u \in Threads : bundle'[u].type > 0 => bundle[u].type > 0
  BY <1>3 DEF NoBundle
<1>18. Exploring'
  BY <1>1, <1>2, <1>16, <1>17 DEF Exploring, Points
<1>19. Single'
  BY <1>1, <1>2, <1>16 DEF Single, Growing, Points
<1>20. QED BY <1>7, <1>8, <1>9, <1>10, <1>14, <1>15, <1>18, <1>19 DEF IInv

(* A call begins with every accelerator active again. *)
LEMMA CallKeeps ==
  ASSUME IInv, ParallelForCall, P!Inv'
  PROVE  IInv'
<1>1. /\ TypeOK /\ Places /\ FreeBelow /\ AcceleratorOwner /\ Started
      /\ ActiveCounted /\ Numbered /\ Exploring /\ Single
      /\ begin = Last /\ nGPUs \in Nat
  BY CoresNat DEF IInv, ParallelForCall, P!Inv, P!Quiet
<1>2. /\ calls < MaxCalls /\ inCall' = TRUE /\ calls' = calls + 1
      /\ begin' = First /\ eof' = FALSE
      /\ gpuStatus' = [i \in 1..nGPUs |-> 1] /\ anyFPGArunning' = nGPUs
      /\ chunkGPU' = IF calls = 0 THEN ALIGN(Max2(InitialChunk, 1)) ELSE chunkGPU
      /\ stopConditionModeOn' = FALSE
      /\ times' = [i \in Space |-> 0]
      /\ UNCHANGED <<nGPUs, nAcc, myAccId, chunkCPU, fGvalid, gpuThroughput,
                     cpuThroughput, lastcpuThroughput, lastchunkGPU, x, lastmeasurements,
                     stablePhase, gpuMeasurement, nextmeasurements, bundle>>
  BY DEF ParallelForCall, measured
<1>3. chunkGPU' \in Nat /\ chunkGPU' > 0
  <2>1. Max2(InitialChunk, 1) \in Nat
    BY DEF Max2
  <2>2. ALIGN(Max2(InitialChunk, 1)) \in Nat /\ ALIGN(Max2(InitialChunk, 1)) > 0
    BY <2>1, AlignPositive
  <2>3. QED BY <1>1, <1>2, <2>2 DEF TypeOK, Numbered
<1>4. TypeOK'
  <2>1. /\ calls' \in 0..MaxCalls /\ begin' \in First..Last /\ anyFPGArunning' \in 0..nGPUs
        /\ gpuStatus' \in [1..nGPUs -> {0, 1}] /\ times' \in [Space -> Nat]
    BY <1>1, <1>2 DEF TypeOK
  <2>2. inCall' \in BOOLEAN /\ eof' \in BOOLEAN /\ stopConditionModeOn' \in BOOLEAN
    BY <1>2
  <2>3. QED BY <1>1, <1>2, <1>3, <2>1, <2>2 DEF TypeOK, Space, Points
<1>5. Places' /\ FreeBelow' /\ AcceleratorOwner'
  BY <1>1, <1>2 DEF Places, FreeBelow, AcceleratorOwner, Busy
<1>6. Started'
  BY <1>1, <1>2 DEF Started, TypeOK
<1>7. ActiveCounted'
  <2>1. {i \in 1..nGPUs : gpuStatus'[i] = 1} = 1..nGPUs
    BY <1>2
  <2>2. Cardinality(1..nGPUs) = nGPUs
    BY <1>1, FS_Interval
  <2>3. QED BY <1>2, <2>1, <2>2 DEF ActiveCounted
<1>8. HandedOut <= HandedOut'
  <2>1. calls \in Nat /\ Last - First \in Nat
    BY <1>1 DEF TypeOK
  <2>2. HandedOut' = (calls' - 1) * (Last - First)
    <3>1. (calls' - 1) * (Last - First) \in Int
      BY <1>2, <2>1
    <3>2. QED BY <1>2, <2>1, <3>1 DEF HandedOut
  <2>3. CASE calls = 0
    BY <1>2, <2>2, <2>3 DEF HandedOut
  <2>4. CASE calls # 0
    <3>1. HandedOut = (calls - 1) * (Last - First) + (Last - First)
      BY <1>1, <2>4 DEF HandedOut
    <3>2. (calls - 1) * (Last - First) + (Last - First) = (calls' - 1) * (Last - First)
      BY <1>2, <2>1, OneMore
    <3>3. (calls' - 1) * (Last - First) \in Int
      BY <1>2, <2>1
    <3>4. QED BY <2>2, <3>1, <3>2, <3>3
  <2>5. QED BY <2>3, <2>4
<1>9. Numbered'
  <2>1. /\ nextmeasurements \in Nat /\ HandedOut \in Int /\ HandedOut' \in Int
        /\ nextmeasurements <= HandedOut
    BY <1>1, <1>2 DEF Numbered, HandedOut, TypeOK
  <2>2. nextmeasurements <= HandedOut'
    BY <1>8, <2>1
  <2>3. QED BY <1>1, <1>2, <1>3, <2>2 DEF Numbered
<1>10. \A u \in Threads : Assigned(u)' <=> Assigned(u)
  BY <1>2 DEF Assigned
<1>11. Exploring'
  BY <1>1, <1>2, <1>10 DEF Exploring, Points
<1>12. Single'
  BY <1>1, <1>2, <1>10 DEF Single, Growing, Points
<1>13. QED BY <1>4, <1>5, <1>6, <1>7, <1>9, <1>11, <1>12 DEF IInv

(* The input ends, the call returns, or nothing happens. *)
LEMMA EndKeeps ==
  ASSUME IInv, (\E t \in Threads : SerialFilterEnd(t)) \/ PipeReturn \/ UNCHANGED vars,
         P!Inv'
  PROVE  IInv'
<1>1. /\ TypeOK /\ Places /\ FreeBelow /\ AcceleratorOwner /\ Started
      /\ ActiveCounted /\ Numbered /\ Exploring /\ Single
  BY DEF IInv
<1>2. UNCHANGED <<nGPUs, calls, begin, nAcc, myAccId, gpuStatus, anyFPGArunning, chunkGPU,
                  chunkCPU, stablePhase, stopConditionModeOn, fGvalid, gpuThroughput,
                  cpuThroughput, lastcpuThroughput, lastchunkGPU, gpuMeasurement, x,
                  lastmeasurements, nextmeasurements, bundle, times>>
  BY DEF SerialFilterEnd, PipeReturn, vars, callVars, active, measured, fit, given
<1>3. inCall' \in BOOLEAN /\ eof' \in BOOLEAN
  BY <1>1 DEF SerialFilterEnd, PipeReturn, vars, callVars, TypeOK
<1>4. TypeOK'
  BY <1>1, <1>2, <1>3 DEF TypeOK, Space, Points
<1>5. FreeBelow' /\ AcceleratorOwner' /\ ActiveCounted' /\ HandedOut' = HandedOut
  BY <1>1, <1>2 DEF FreeBelow, AcceleratorOwner, ActiveCounted, HandedOut
<1>6. Numbered'
  BY <1>1, <1>2, <1>5 DEF Numbered
<1>7. \A u \in Threads : Assigned(u)' <=> Assigned(u)
  BY <1>2 DEF Assigned
<1>8. Exploring'
  BY <1>1, <1>2, <1>7 DEF Exploring, Points
<1>9. Single'
  BY <1>1, <1>2, <1>7 DEF Single, Growing, Points
<1>10. Places'
  BY <1>1, <1>2 DEF Places, Busy, SerialFilterEnd, MayEnter, PipeReturn, vars, callVars
<1>11. Started'
  BY <1>1, <1>2 DEF Started, SerialFilterEnd, MayEnter, PipeReturn, vars, callVars
<1>12. QED BY <1>4, <1>5, <1>6, <1>8, <1>9, <1>10, <1>11 DEF IInv

(* The invariant holds before the first call. *)
LEMMA InitIInv == Init => IInv /\ P!Init
<1> SUFFICES ASSUME Init PROVE IInv /\ P!Init
  OBVIOUS
<1> USE DEF Init
<1>0. nGPUs \in Nat /\ nGPUs \in GPUCounts
  <2>1. nGPUs \in 0..Cardinality(Threads) /\ Cardinality(Threads) \in Nat
    BY FS_CardinalityType
  <2>2. QED BY <2>1
<1>1. \A t \in Threads : bundle[t] = NoBundle /\ myAccId[t] = 0
  OBVIOUS
<1>2. P!Init
  <2>1. HeldBy = [t \in Threads |-> {}]
    BY <1>1 DEF HeldBy, Held, NoBundle
  <2>2. QED BY <2>1 DEF P!Init, Space, P!Space
<1>3. P!Inv
  BY <1>2, P!InitInv DEF P!Bounds
<1>4. PICK v \in BeforeX : x = [i \in Points |-> IF i = -1 THEN v ELSE 0]
  OBVIOUS
<1>5. x \in [Points -> Nat] /\ \A j \in Points : j >= 0 => x[j] = 0
  BY <1>4
<1>6. TypeOK
  <2>1. bundle \in [Threads -> [begin : First..Last, end : First..Last, type : -1..nGPUs]]
    BY <1>0 DEF NoBundle
  <2>2. /\ inCall \in BOOLEAN /\ eof \in BOOLEAN /\ stablePhase \in BOOLEAN
        /\ stopConditionModeOn \in BOOLEAN /\ fGvalid \in BOOLEAN
    OBVIOUS
  <2>3. /\ calls \in 0..MaxCalls /\ begin \in First..Last /\ chunkGPU \in Nat
        /\ lastmeasurements \in 0..(MAXPOINTS - 1) /\ nextmeasurements \in 0..MAXPOINTS
        /\ nAcc \in 0..nGPUs /\ anyFPGArunning \in 0..nGPUs /\ lastcpuThroughput \in {0, 1}
    BY <1>0
  <2>4. /\ myAccId \in [Threads -> 0..nGPUs] /\ chunkCPU \in [Threads -> Nat]
        /\ gpuStatus \in [1..nGPUs -> {0, 1}] /\ gpuThroughput \in [1..nGPUs -> {-1, 0, 1}]
        /\ cpuThroughput \in [Threads -> {0, 1}] /\ lastchunkGPU \in [Threads -> Nat]
        /\ gpuMeasurement \in [Threads -> 0..MAXPOINTS] /\ times \in [Space -> Nat]
    BY <1>0
  <2>5. QED BY <1>0, <1>5, <2>1, <2>2, <2>3, <2>4 DEF TypeOK
<1>7. Places
  BY <1>1 DEF Places, NoBundle, Busy
<1>8. FreeBelow
  BY <1>0, <1>1 DEF FreeBelow
<1>9. AcceleratorOwner
  BY <1>1 DEF AcceleratorOwner, NoBundle
<1>10. Started /\ ActiveCounted
  BY DEF Started, ActiveCounted
<1>11. Numbered
  BY DEF Numbered, HandedOut
<1>12. \A t \in Threads : ~ Assigned(t) /\ ~ (bundle[t].type > 0)
  BY <1>1 DEF Assigned, NoBundle
<1>13. Exploring
  BY <1>5, <1>12 DEF Exploring
<1>14. Single
  BY <1>5, <1>12 DEF Single, Growing, Points
<1>15. QED
  BY <1>2, <1>3, <1>6, <1>7, <1>8, <1>9, <1>10, <1>11, <1>13, <1>14 DEF IInv

(* Every step keeps it. *)
LEMMA NextIInv == IInv /\ [Next]_vars => IInv'
<1> SUFFICES ASSUME IInv, [Next]_vars PROVE IInv'
  OBVIOUS
<1>1. P!Inv'
  BY StepPipeline, P!NextInv DEF IInv, P!Bounds
<1>2. CASE ParallelForCall
  BY <1>1, <1>2, CallKeeps
<1>3. ASSUME NEW t \in Threads, NEW a \in 1..nGPUs, NEW f \in Fits(t, a),
             \/ GiveChunk(t, a, f) \/ GiveTail(t, a, f) \/ GiveTailToCPU(t, a, f)
             \/ ConcordGPU(t, a, f) \/ ConcordCPU(t, a, f)
      PROVE  IInv'
  BY <1>1, <1>3, AdoptKeeps
<1>4. CASE \E t \in Threads : SerialFilterCPU(t)
  BY <1>1, <1>4, SerialCPUKeeps
<1>5. CASE \E t \in Threads : executeOnGPU(t) \/ executeOnCPU(t)
  BY <1>1, <1>5, ExecuteKeeps
<1>6. CASE (\E t \in Threads : SerialFilterEnd(t)) \/ PipeReturn \/ UNCHANGED vars
  BY <1>1, <1>6, EndKeeps
<1>7. QED
  BY <1>2, <1>3, <1>4, <1>5, <1>6 DEF Next

-----------------------------------------------------------------------------
(* The theorems.                                                           *)

(* The strengthened invariant holds in every state of the scheduler. *)
THEOREM Invariance == Spec => []IInv
<1>1. Init => IInv
  BY InitIInv
<1>2. IInv /\ [Next]_vars => IInv'
  BY NextIInv
<1>3. QED BY <1>1, <1>2, PTL DEF Spec

(* The variables keep their types: chunks stay inside [first, last) and    *)
(* the points inside x, whatever is measured and whatever the fit gives.   *)
THEOREM TypeCorrect == Spec => []TypeOK
<1>1. IInv => TypeOK
  BY DEF IInv
<1>2. QED BY <1>1, Invariance, PTL

(* No iteration is skipped and none is run twice, in no phase. *)
THEOREM RunsOnce == Spec => []RunOnce
<1>1. IInv => RunOnce
  BY DEF IInv, P!Inv, P!RunOnce, RunOnce, HeldBy, Space, P!Space
<1>2. QED BY <1>1, Invariance, PTL

(* anyFPGArunning counts the active accelerators. *)
THEOREM ActivesCounted == Spec => []ActiveCounted
<1>1. IInv => ActiveCounted
  BY DEF IInv
<1>2. QED BY <1>1, Invariance, PTL

(* Two threads never drive the same accelerator. *)
THEOREM OwnersDistinct == Spec => []AcceleratorOwner
<1>1. IInv => AcceleratorOwner
  BY DEF IInv
<1>2. QED BY <1>1, Invariance, PTL

(* Accelerators measure different points, and new ones. *)
THEOREM PointsDistinct == Spec => []PointsApart
<1>1. IInv => PointsApart
  <2> SUFFICES ASSUME IInv PROVE PointsApart
    OBVIOUS
  <2>1. TypeOK /\ Numbered /\ Exploring
    BY DEF IInv
  <2>2. \A t \in Threads : Busy(t) /\ bundle[t].type # CPU => bundle[t].type > 0
    <3>1. \A t \in Threads : bundle[t].type \in -1..nGPUs /\ nGPUs \in Nat
      BY <2>1, CoresNat DEF TypeOK
    <3>2. QED BY <3>1 DEF Busy, CPU
  <2>3. \A t \in Threads : Busy(t) /\ bundle[t].type # CPU => Assigned(t)
    BY <2>2 DEF Assigned
  <2>4. stablePhase => lastmeasurements < nextmeasurements
    BY <2>1 DEF Numbered
  <2>5. QED BY <2>1, <2>2, <2>3, <2>4 DEF PointsApart, Exploring
<1>2. QED BY <1>1, Invariance, PTL

(* One accelerator stores growing points. *)
THEOREM PointsGrow == Spec => []PointsIncrease
<1>1. IInv => PointsIncrease
  BY DEF IInv, Single, Growing, PointsIncrease
<1>2. QED BY <1>1, Invariance, PTL

(* The steps of the promise are the same seen from the pipeline. *)
LEMMA SamePromise ==
  /\ PF!Init <=> P!PF!Init
  /\ [PF!Next]_(PF!vars) <=> [P!PF!Next]_(P!PF!vars)
BY DEF PF!Init, PF!Next, PF!vars, PF!Start, PF!Execute, PF!Return, PF!Pending,
       P!PF!Init, P!PF!Next, P!PF!vars, P!PF!Start, P!PF!Execute, P!PF!Return,
       P!PF!Pending, Space, P!Space

(* The scheduler implements the pipeline, and with it the promise of       *)
(* heterogeneous_parallel_for.                                             *)
THEOREM ImplementsPromise == Spec => Implements
<1>1. Init => PF!Init
  BY InitIInv, P!InitPromise, SamePromise
<1>2. IInv /\ [Next]_vars => [PF!Next]_(PF!vars)
  BY StepPipeline, P!NextPromise, SamePromise DEF IInv, P!Bounds
<1>3. QED BY <1>1, <1>2, Invariance, PTL DEF Spec, Implements, PF!Spec

-----------------------------------------------------------------------------
(* Blocks.                                                                 *)

(* A whole number of blocks. *)
Multiple(n) == \E k \in Int : n = k * CHUNKALIGN

(* All sizes are multiples of a block, but for an accelerator chunk that   *)
(* covers the space: nothing is left after it.                             *)
Blocks ==
  /\ Multiple(chunkGPU) \/ chunkGPU >= iterationSpace
  /\ \A t \in Threads : Multiple(chunkCPU[t])
  /\ ~ stopConditionModeOn /\ Remaining >= CHUNKALIGN => Multiple(begin - First)

(* A multiple is what has no remainder. *)
LEMMA NoRemainder ==
  ASSUME NEW n \in Int
  PROVE  Multiple(n) <=> n % CHUNKALIGN = 0
<1>1. CHUNKALIGN \in Nat \ {0}
  OBVIOUS
<1>2. n = (n \div CHUNKALIGN) * CHUNKALIGN + (n % CHUNKALIGN) /\ n \div CHUNKALIGN \in Int
  BY <1>1
<1>3. ASSUME n % CHUNKALIGN = 0 PROVE Multiple(n)
  <2>1. n = (n \div CHUNKALIGN) * CHUNKALIGN
    BY <1>1, <1>2, <1>3
  <2>2. QED BY <1>2, <2>1 DEF Multiple
<1>4. ASSUME NEW k \in Int, n = k * CHUNKALIGN PROVE n % CHUNKALIGN = 0
  BY <1>1, <1>4
<1>5. QED BY <1>3, <1>4 DEF Multiple

(* Sums of multiples are multiples. *)
LEMMA SumMultiple ==
  ASSUME NEW m \in Int, NEW n \in Int, Multiple(m), Multiple(n)
  PROVE  Multiple(m + n)
<1>1. PICK j \in Int : m = j * CHUNKALIGN
  BY DEF Multiple
<1>2. PICK k \in Int : n = k * CHUNKALIGN
  BY DEF Multiple
<1>3. m + n = (j + k) * CHUNKALIGN /\ j + k \in Int
  BY <1>1, <1>2
<1>4. QED BY <1>3 DEF Multiple

(* Rounding gives multiples. *)
LEMMA RoundsToMultiple ==
  ASSUME NEW a \in Nat
  PROVE  Multiple(ALIGN(a)) /\ Multiple(ALIGNFLOOR(a))
<1>1. CHUNKALIGN \in Nat \ {0} /\ 2 * a + CHUNKALIGN \in Nat /\ 2 * CHUNKALIGN \in Nat \ {0}
  OBVIOUS
<1>2. (2 * a + CHUNKALIGN) \div (2 * CHUNKALIGN) \in Int /\ a \div CHUNKALIGN \in Int
  BY <1>1, Share
<1>3. Multiple(((2 * a + CHUNKALIGN) \div (2 * CHUNKALIGN)) * CHUNKALIGN)
  BY <1>2 DEF Multiple
<1>4. Multiple(CHUNKALIGN)
  <2>1. CHUNKALIGN = 1 * CHUNKALIGN
    BY <1>1
  <2>2. QED BY <2>1 DEF Multiple
<1>5. Multiple(ALIGN(a))
  BY <1>3, <1>4 DEF ALIGN, Max2
<1>6. Multiple(ALIGNFLOOR(a))
  BY <1>2 DEF Multiple, ALIGNFLOOR
<1>7. QED BY <1>5, <1>6

(* Rounding down to nothing: less than a block. *)
LEMMA LessThanBlock ==
  ASSUME NEW a \in Nat, ALIGNFLOOR(a) = 0
  PROVE  a < CHUNKALIGN
<1>1. CHUNKALIGN \in Nat \ {0} /\ a \div CHUNKALIGN \in Nat
  BY Share
<1>2. (a \div CHUNKALIGN) * CHUNKALIGN = 0
  BY DEF ALIGNFLOOR
<1>3. a = (a \div CHUNKALIGN) * CHUNKALIGN + (a % CHUNKALIGN)
  BY <1>1
<1>4. a % CHUNKALIGN < CHUNKALIGN
  BY <1>1
<1>5. QED BY <1>1, <1>2, <1>3, <1>4

(* Sizes of chunks of the cores. *)
LEMMA NextChunkMultiple ==
  ASSUME IInv, Blocks, NEW t \in Threads
  PROVE  Multiple(CPUShare) /\ \A size \in NextChunkCPU(t) : Multiple(size)
<1>1. TypeOK
  BY DEF IInv
<1>2. minChunkCPU \in Nat /\ Remaining \in Nat /\ nCPUs \in Nat
  BY <1>1, CoreSharePositive, CoresNat
<1>3. Multiple(CPUShare)
  <2>1. Div(Remaining, nCPUs) \in Nat
    BY <1>2, DivBelow
  <2>2. Max2(Div(Remaining, nCPUs), minChunkCPU) \in Nat
    BY <1>2, <2>1 DEF Max2
  <2>3. QED BY <2>2, RoundsToMultiple DEF CPUShare
<1>4. Multiple(minChunkCPU)
  <2>1. iterationSpace \in Nat
    BY DEF iterationSpace
  <2>2. iterationSpace \div 100 \in Nat
    BY <2>1, Share
  <2>3. Min2(CHUNKALIGN, iterationSpace \div 100) \in Nat
    BY <2>2 DEF Min2
  <2>4. QED BY <2>3, RoundsToMultiple DEF minChunkCPU
<1>5. ASSUME NEW fG \in SpeedUps
      PROVE  Multiple(ALIGN(Max2(Min2((chunkGPU * fG[2]) \div fG[1],
                             (Remaining * fG[2]) \div (fG[1] + nCPUs * fG[2])),
                        minChunkCPU)))
  <2>1. fG[1] \in Nat \ {0} /\ fG[2] \in Nat \ {0} /\ chunkGPU \in Nat
    BY <1>1 DEF TypeOK
  <2> DEFINE a == (chunkGPU * fG[2]) \div fG[1]
             b == (Remaining * fG[2]) \div (fG[1] + nCPUs * fG[2])
  <2>2. a \in Nat
    BY <2>1, MulNat, Share
  <2>3. b \in Nat
    <3>1. Remaining * fG[2] \in Nat /\ nCPUs * fG[2] \in Nat
      BY <1>2, <2>1, MulNat
    <3>2. fG[1] + nCPUs * fG[2] \in Nat \ {0}
      BY <2>1, <3>1
    <3>3. QED BY <3>1, <3>2, Share
  <2>4. Max2(Min2(a, b), minChunkCPU) \in Nat
    BY <1>2, <2>2, <2>3 DEF Max2, Min2
  <2>5. QED BY <2>4, RoundsToMultiple
<1>6. Multiple(chunkCPU[t])
  BY DEF Blocks
<1>7. QED BY <1>3, <1>4, <1>5, <1>6 DEF NextChunkCPU

(* An accelerator chunk comes from the fit, or is the one stored.          *)
LEMMA FitMultiple ==
  ASSUME IInv, Blocks, NEW t \in Threads, NEW a \in 1..nGPUs, NEW f \in Fits(t, a)
  PROVE  Multiple(f.chunk) \/ f.chunk >= iterationSpace
<1>1. f.chunk = chunkGPU \/ f.chunk \in FitChunks
  BY DEF Fits, Fit, Explored
<1>2. \A c \in FitChunks : Multiple(c)
  BY NoRemainder
<1>3. QED BY <1>1, <1>2 DEF Blocks

(* A multiple further, or at the end, the next chunk begins at a block.    *)
LEMMA NextBlock ==
  ASSUME IInv, Blocks, ~ stopConditionModeOn, NEW n \in Nat, NEW e \in begin..Last,
         e = Last \/ (e = begin + n /\ Multiple(n)) \/ Remaining < CHUNKALIGN
  PROVE  Last - e >= CHUNKALIGN => Multiple(e - First)
<1> SUFFICES ASSUME Last - e >= CHUNKALIGN PROVE Multiple(e - First)
  OBVIOUS
<1>1. begin \in First..Last /\ e \in First..Last /\ CHUNKALIGN > 0
  BY DEF IInv, TypeOK
<1>2. Remaining >= CHUNKALIGN /\ e # Last
  BY <1>1 DEF Remaining
<1>3. e = begin + n /\ Multiple(n)
  BY <1>1, <1>2 DEF Remaining
<1>4. Multiple(begin - First)
  BY <1>2 DEF Blocks
<1>5. e - First = (begin - First) + n
  BY <1>1, <1>3
<1>6. begin - First \in Int
  BY <1>1
<1>7. QED BY <1>3, <1>4, <1>5, <1>6, SumMultiple

(* An accelerator's thread keeps them. *)
LEMMA AdoptBlocks ==
  ASSUME IInv, Blocks, NEW t \in Threads, NEW a \in 1..nGPUs, NEW f \in Fits(t, a),
         \/ GiveChunk(t, a, f) \/ GiveTail(t, a, f) \/ GiveTailToCPU(t, a, f)
         \/ ConcordGPU(t, a, f) \/ ConcordCPU(t, a, f)
  PROVE  Blocks'
<1>1. TypeOK
  BY DEF IInv
<1>2. Adopt(t, a, f)
  BY DEF GiveChunk, GiveTail, GiveTailToCPU, ConcordGPU, ConcordCPU
<1>3. /\ begin \in Nat /\ Remaining \in Nat \ {0} /\ begin + Remaining = Last
      /\ iterationSpace \in Nat /\ CHUNKALIGN \in Nat \ {0} /\ Remaining <= iterationSpace
  <2>1. begin \in First..Last /\ begin < Last
    BY <1>1, <1>2 DEF Adopt, TypeOK
  <2>2. QED BY <2>1 DEF Remaining, iterationSpace
<1>4. f.chunk \in Nat
  BY <1>2, FitsFit DEF Adopt, MayEnter, Fitting
<1>5. Multiple(f.chunk) \/ f.chunk >= iterationSpace
  BY FitMultiple
<1>6. stopConditionModeOn => stopConditionModeOn'
  BY <1>2 DEF Adopt
<1>7. \A u \in Threads : Multiple(chunkCPU[u])
  BY DEF Blocks
<1>8. ASSUME Number(t, f) PROVE Multiple(chunkGPU') \/ chunkGPU' >= iterationSpace
  <2>1. CASE f.stable
    BY <1>5, <1>8, <2>1 DEF Number
  <2>2. CASE ~ f.stable
    <3>1. chunkGPU' = Min2(2 * f.chunk, iterationSpace)
      BY <1>8, <2>2 DEF Number
    <3>2. CASE f.chunk >= iterationSpace
      BY <1>3, <1>4, <3>1, <3>2 DEF Min2
    <3>3. CASE Multiple(f.chunk)
      <4>1. Multiple(f.chunk + f.chunk)
        BY <1>4, <3>3, SumMultiple
      <4>2. f.chunk + f.chunk = 2 * f.chunk
        BY <1>4
      <4>3. CASE chunkGPU' = 2 * f.chunk
        BY <4>1, <4>2, <4>3
      <4>4. CASE chunkGPU' = iterationSpace
        BY <1>3, <4>4
      <4>5. QED BY <3>1, <4>3, <4>4 DEF Min2
    <3>4. QED BY <1>5, <3>2, <3>3
  <2>3. QED BY <2>1, <2>2
<1>9. CASE GiveChunk(t, a, f)
  <2>1. /\ Claim(t, begin + f.chunk, a) /\ begin + f.chunk <= Last /\ Number(t, f)
        /\ ~ stopConditionModeOn' /\ chunkCPU' = chunkCPU
    BY <1>9 DEF GiveChunk
  <2>2. begin' = begin + f.chunk /\ begin' \in begin..Last
    BY <1>3, <1>4, <2>1 DEF Claim
  <2>3. begin' = Last \/ Multiple(f.chunk)
    BY <1>3, <1>4, <1>5, <2>1, <2>2
  <2>4. ~ stopConditionModeOn
    BY <1>6, <2>1
  <2>5. Last - begin' >= CHUNKALIGN => Multiple(begin' - First)
    BY <1>4, <2>2, <2>3, <2>4, NextBlock
  <2>6. QED BY <1>7, <1>8, <2>1, <2>5 DEF Blocks, Multiple, iterationSpace, Remaining
<1>10. CASE GiveTail(t, a, f)
  <2>1. /\ Claim(t, begin + ALIGNFLOOR(Remaining), a) /\ Number(t, f)
        /\ ~ stopConditionModeOn' /\ chunkCPU' = chunkCPU
    BY <1>10 DEF GiveTail
  <2>2. /\ ALIGNFLOOR(Remaining) \in Nat /\ ALIGNFLOOR(Remaining) <= Remaining
        /\ Multiple(ALIGNFLOOR(Remaining))
    BY <1>3, FloorBelow, RoundsToMultiple
  <2>3. begin' = begin + ALIGNFLOOR(Remaining) /\ begin' \in begin..Last
    BY <1>3, <2>1, <2>2 DEF Claim
  <2>4. ~ stopConditionModeOn
    BY <1>6, <2>1
  <2>5. Last - begin' >= CHUNKALIGN => Multiple(begin' - First)
    BY <2>2, <2>3, <2>4, NextBlock
  <2>6. QED BY <1>7, <1>8, <2>1, <2>5 DEF Blocks, Multiple, iterationSpace, Remaining
<1>11. CASE GiveTailToCPU(t, a, f)
  <2>1. /\ Claim(t, begin + Div(Remaining, nCPUs), CPU) /\ chunkGPU' = f.chunk
        /\ ~ stopConditionModeOn' /\ chunkCPU' = chunkCPU /\ ALIGNFLOOR(Remaining) = 0
    BY <1>11 DEF GiveTailToCPU
  <2>2. Div(Remaining, nCPUs) \in Nat /\ Div(Remaining, nCPUs) <= Remaining
    BY <1>1, <1>3, CoresNat, DivBelow
  <2>3. begin' = begin + Div(Remaining, nCPUs) /\ begin' \in begin..Last
    BY <1>3, <2>1, <2>2 DEF Claim
  <2>4. Remaining < CHUNKALIGN
    BY <1>3, <2>1, LessThanBlock
  <2>5. ~ stopConditionModeOn
    BY <1>6, <2>1
  <2>6. Last - begin' >= CHUNKALIGN => Multiple(begin' - First)
    BY <2>2, <2>3, <2>4, <2>5, NextBlock
  <2>7. QED BY <1>5, <1>7, <2>1, <2>6 DEF Blocks, Multiple, iterationSpace, Remaining
<1>12. CASE ConcordGPU(t, a, f)
  <2>1. chunkGPU' = f.chunk /\ chunkCPU' = chunkCPU /\ stopConditionModeOn'
    BY <1>12 DEF ConcordGPU
  <2>2. QED BY <1>5, <1>7, <2>1 DEF Blocks, Multiple, iterationSpace
<1>13. CASE ConcordCPU(t, a, f)
  <2>1. /\ chunkGPU' = f.chunk /\ chunkCPU' = [chunkCPU EXCEPT ![t] = CPUShare]
        /\ stopConditionModeOn'
    BY <1>13 DEF ConcordCPU
  <2>2. chunkCPU \in [Threads -> Nat] /\ Multiple(CPUShare)
    BY <1>1, NextChunkMultiple DEF TypeOK
  <2>3. \A u \in Threads : Multiple(chunkCPU'[u])
    BY <1>7, <2>1, <2>2
  <2>4. QED BY <1>5, <2>1, <2>3 DEF Blocks, Multiple, iterationSpace
<1>14. QED BY <1>9, <1>10, <1>11, <1>12, <1>13

(* Every step keeps them. *)
LEMMA NextBlocks == IInv /\ Blocks /\ [Next]_vars => Blocks'
<1> SUFFICES ASSUME IInv, Blocks, [Next]_vars PROVE Blocks'
  OBVIOUS
<1>1. TypeOK /\ (\A u \in Threads : Multiple(chunkCPU[u]))
  BY DEF IInv, Blocks
<1>2. CASE ParallelForCall
  <2>1. begin' = First /\ UNCHANGED chunkCPU
        /\ chunkGPU' = IF calls = 0 THEN ALIGN(Max2(InitialChunk, 1)) ELSE chunkGPU
    BY <1>2 DEF ParallelForCall
  <2>2. Multiple(chunkGPU') \/ chunkGPU' >= iterationSpace
    <3>1. Max2(InitialChunk, 1) \in Nat
      BY DEF Max2
    <3>2. QED BY <2>1, <3>1, RoundsToMultiple DEF Blocks
  <2>3. Multiple(begin' - First)
    <3>1. begin' - First = 0 /\ 0 = 0 * CHUNKALIGN
      BY <2>1
    <3>2. QED BY <3>1 DEF Multiple
  <2>4. QED BY <1>1, <2>1, <2>2, <2>3 DEF Blocks, Multiple, iterationSpace
<1>3. ASSUME NEW t \in Threads, NEW a \in 1..nGPUs, NEW f \in Fits(t, a),
             \/ GiveChunk(t, a, f) \/ GiveTail(t, a, f) \/ GiveTailToCPU(t, a, f)
             \/ ConcordGPU(t, a, f) \/ ConcordCPU(t, a, f)
      PROVE  Blocks'
  BY <1>3, AdoptBlocks
<1>4. ASSUME NEW t \in Threads, SerialFilterCPU(t) PROVE Blocks'
  <2>1. PICK size \in NextChunkCPU(t) :
             /\ chunkCPU' = [chunkCPU EXCEPT ![t] = size]
             /\ Claim(t, Min2(begin + size, Last), CPU)
    BY <1>4 DEF SerialFilterCPU
  <2>2. UNCHANGED <<chunkGPU, stopConditionModeOn>>
    BY <1>4 DEF SerialFilterCPU, fit, given
  <2>3. size \in Nat /\ Multiple(size)
    BY <1>1, NextChunkNat, NextChunkMultiple
  <2>4. \A u \in Threads : Multiple(chunkCPU'[u])
    <3>1. chunkCPU \in [Threads -> Nat]
      BY <1>1 DEF TypeOK
    <3>2. QED BY <1>1, <2>1, <2>3, <3>1
  <2>5. begin' = Min2(begin + size, Last) /\ begin' \in begin..Last
    <3>1. begin \in First..Last
      BY <1>1 DEF TypeOK
    <3>2. begin' = Min2(begin + size, Last)
      BY <2>1 DEF Claim
    <3>3. QED BY <2>3, <3>1, <3>2 DEF Min2
  <2>6. ~ stopConditionModeOn' => (Last - begin' >= CHUNKALIGN => Multiple(begin' - First))
    BY <2>2, <2>3, <2>5, NextBlock DEF Min2
  <2>7. QED BY <2>2, <2>4, <2>6 DEF Blocks, Multiple, iterationSpace, Remaining
<1>5. CASE (\E t \in Threads : SerialFilterEnd(t) \/ executeOnGPU(t) \/ executeOnCPU(t))
             \/ PipeReturn \/ UNCHANGED vars
  <2>1. UNCHANGED <<begin, stopConditionModeOn, chunkGPU, chunkCPU>>
    BY <1>5 DEF SerialFilterEnd, executeOnGPU, executeOnCPU, PipeReturn, vars, fit, given
  <2>2. QED BY <2>1 DEF Blocks, Multiple, iterationSpace, Remaining
<1>6. QED BY <1>2, <1>3, <1>4, <1>5 DEF Next

(* While whole blocks are left, chunks begin at one, until the concord.    *)
THEOREM ChunksAligned == Spec => []BlocksAligned
<1>1. Init => Blocks
  <2> SUFFICES ASSUME Init PROVE Blocks
    OBVIOUS
  <2>1. chunkGPU = 1 * CHUNKALIGN
    BY DEF Init
  <2>2. Multiple(chunkGPU)
    BY <2>1 DEF Multiple
  <2>3. Multiple(0)
    <3>1. 0 = 0 * CHUNKALIGN
      OBVIOUS
    <3>2. QED BY <3>1 DEF Multiple
  <2>4. \A t \in Threads : Multiple(chunkCPU[t])
    BY <2>3 DEF Init
  <2>5. Remaining = 0 /\ ~ (0 >= CHUNKALIGN)
    BY DEF Init, Remaining
  <2>6. QED BY <2>2, <2>4, <2>5 DEF Blocks
<1>2. IInv /\ Blocks /\ [Next]_vars => Blocks'
  BY NextBlocks
<1>3. IInv /\ Blocks => BlocksAligned
  <2> SUFFICES ASSUME IInv, Blocks PROVE BlocksAligned
    OBVIOUS
  <2>1. begin - First \in Int
    BY DEF IInv, TypeOK
  <2>2. QED BY <2>1, NoRemainder DEF Blocks, BlocksAligned
<1>4. QED BY <1>1, <1>2, <1>3, Invariance, PTL DEF Spec

-----------------------------------------------------------------------------
(* Every call is over after finitely many steps.                           *)

Workers == {t \in Threads : Busy(t)}

(* The parts of StepsLeft that are not about chunks. *)
Ahead == (IF eof THEN 0 ELSE 1) + (IF inCall THEN 1 ELSE 0)

(* The most steps a call takes, from its start. *)
MostSteps == 2 * (Last - First) + 2 * nGPUs + 2

(* The threads with a chunk, and their number. *)
LEMMA WorkersFinite == IsFiniteSet(Workers) /\ Cardinality(Workers) \in Nat
<1>1. IsFiniteSet(Workers)
  BY FS_Subset DEF Workers
<1>2. QED BY <1>1, FS_CardinalityType

(* StepsLeft, part by part; it is natural. *)
LEMMA StepsLeftNat ==
  IInv => /\ Remaining \in Nat /\ anyFPGArunning \in Nat /\ Ahead \in 0..2
          /\ Cardinality(Workers) \in Nat
          /\ StepsLeft = 2 * Remaining + 2 * anyFPGArunning + Cardinality(Workers) + Ahead
          /\ StepsLeft \in Nat
<1> SUFFICES ASSUME IInv
             PROVE  /\ Remaining \in Nat /\ anyFPGArunning \in Nat /\ Ahead \in 0..2
                    /\ Cardinality(Workers) \in Nat
                    /\ StepsLeft = 2 * Remaining + 2 * anyFPGArunning
                                     + Cardinality(Workers) + Ahead
                    /\ StepsLeft \in Nat
  OBVIOUS
<1>1. TypeOK
  BY DEF IInv
<1>2. Remaining \in Nat
  BY <1>1, CoreSharePositive
<1>3. anyFPGArunning \in Nat
  <2>1. anyFPGArunning \in 0..nGPUs
    BY <1>1 DEF TypeOK
  <2>2. QED BY <1>1, <2>1, CoresNat
<1>4. Ahead \in 0..2
  BY DEF Ahead
<1>5. StepsLeft = 2 * Remaining + 2 * anyFPGArunning + Cardinality(Workers)
                    + (IF eof THEN 0 ELSE 1) + (IF inCall THEN 1 ELSE 0)
  BY DEF StepsLeft, Workers
<1>6. StepsLeft = 2 * Remaining + 2 * anyFPGArunning + Cardinality(Workers) + Ahead
  BY <1>2, <1>3, <1>5, WorkersFinite DEF Ahead
<1>7. QED BY <1>2, <1>3, <1>4, <1>6, WorkersFinite

(* The same before and after a step. *)
LEMMA StepsLeftBoth ==
  ASSUME IInv, IInv'
  PROVE  /\ Remaining \in Nat /\ anyFPGArunning \in Nat /\ Ahead \in 0..2
         /\ Cardinality(Workers) \in Nat
         /\ StepsLeft = 2 * Remaining + 2 * anyFPGArunning + Cardinality(Workers) + Ahead
         /\ Remaining' \in Nat /\ anyFPGArunning' \in Nat /\ Ahead' \in 0..2
         /\ Cardinality(Workers') \in Nat
         /\ StepsLeft' = 2 * Remaining' + 2 * anyFPGArunning' + Cardinality(Workers') + Ahead'
         /\ StepsLeft \in Nat /\ StepsLeft' \in Nat
<1>1. IInv' => (/\ Remaining \in Nat /\ anyFPGArunning \in Nat /\ Ahead \in 0..2
                /\ Cardinality(Workers) \in Nat
                /\ StepsLeft = 2 * Remaining + 2 * anyFPGArunning
                                 + Cardinality(Workers) + Ahead
                /\ StepsLeft \in Nat)'
  BY StepsLeftNat, PTL
<1>2. QED BY <1>1, StepsLeftNat

(* The partitioner never makes a chunk for a core empty. *)
LEMMA NextChunkPositive ==
  ASSUME TypeOK, NEW t \in Threads, NEW size \in NextChunkCPU(t)
  PROVE  size > 0
<1>1. minChunkCPU \in Nat /\ Remaining \in Nat /\ nCPUs \in Nat
  BY CoreSharePositive, CoresNat
<1>2. CPUShare > 0
  <2>1. Div(Remaining, nCPUs) \in Nat
    BY <1>1, DivBelow
  <2>2. Max2(Div(Remaining, nCPUs), minChunkCPU) \in Nat
    BY <1>1, <2>1 DEF Max2
  <2>3. QED BY <2>2, AlignPositive DEF CPUShare
<1>3. minChunkCPU > 0
  <2>1. iterationSpace \in Nat
    BY DEF iterationSpace
  <2>2. iterationSpace \div 100 \in Nat
    BY <2>1, Share
  <2>3. Min2(CHUNKALIGN, iterationSpace \div 100) \in Nat
    BY <2>2 DEF Min2
  <2>4. QED BY <2>3, AlignPositive DEF minChunkCPU
<1>4. ASSUME NEW fG \in SpeedUps
      PROVE  ALIGN(Max2(Min2((chunkGPU * fG[2]) \div fG[1],
                             (Remaining * fG[2]) \div (fG[1] + nCPUs * fG[2])),
                        minChunkCPU)) > 0
  <2>1. fG[1] \in Nat \ {0} /\ fG[2] \in Nat \ {0} /\ chunkGPU \in Nat
    BY DEF TypeOK
  <2> DEFINE a == (chunkGPU * fG[2]) \div fG[1]
             b == (Remaining * fG[2]) \div (fG[1] + nCPUs * fG[2])
  <2>2. a \in Nat
    BY <2>1, MulNat, Share
  <2>3. b \in Nat
    <3>1. Remaining * fG[2] \in Nat /\ nCPUs * fG[2] \in Nat
      BY <1>1, <2>1, MulNat
    <3>2. fG[1] + nCPUs * fG[2] \in Nat \ {0}
      BY <2>1, <3>1
    <3>3. QED BY <3>1, <3>2, Share
  <2> HIDE DEF a, b
  <2>4. Max2(Min2(a, b), minChunkCPU) \in Nat
    BY <1>1, <2>2, <2>3 DEF Max2, Min2
  <2>5. ALIGN(Max2(Min2(a, b), minChunkCPU)) > 0
    BY <2>4, AlignPositive
  <2>6. QED BY <2>5 DEF a, b
<1>5. chunkCPU[t] \in Nat
  BY DEF TypeOK
<1>6. QED BY <1>2, <1>3, <1>4, <1>5 DEF NextChunkCPU

(* Taking a chunk makes one thread more busy. *)
LEMMA ClaimCounts ==
  ASSUME IInv, IInv', NEW t \in Threads, ~ Busy(t), begin < Last,
         NEW e \in begin..Last, NEW type \in 0..nGPUs, Claim(t, e, type)
  PROVE  /\ Cardinality(Workers') = Cardinality(Workers) + 1
         /\ Remaining' <= Remaining
         /\ e > begin => Remaining' <= Remaining - 1
<1>1. TypeOK
  BY DEF IInv
<1>2. Workers' = Workers \union {t} /\ t \notin Workers
  <2>1. bundle'[t].type = type /\ \A u \in Threads \ {t} : bundle'[u] = bundle[u]
    BY <1>1 DEF TypeOK, Claim
  <2>2. type # -1
    BY <1>1, CoresNat
  <2>3. Busy(t)' /\ \A u \in Threads \ {t} : Busy(u)' <=> Busy(u)
    BY <2>1, <2>2 DEF Busy
  <2>4. QED BY <2>3 DEF Workers
<1>3. Cardinality(Workers') = Cardinality(Workers) + 1
  BY <1>2, WorkersFinite, FS_AddElement
<1>4. begin' = e /\ begin \in First..Last
  BY <1>1 DEF Claim, TypeOK
<1>5. begin \in Int /\ e \in Int /\ Last \in Int /\ begin <= e
  BY <1>4
<1>6. Remaining' <= Remaining /\ (e > begin => Remaining' <= Remaining - 1)
  BY <1>4, <1>5 DEF Remaining
<1>7. QED BY <1>3, <1>6

(* A thread of an accelerator shortens the call: its chunk is not empty,   *)
(* or the accelerator retires.                                             *)
LEMMA AdoptShortens ==
  ASSUME IInv, IInv', NEW t \in Threads, NEW a \in 1..nGPUs, NEW f \in Fits(t, a),
         \/ GiveChunk(t, a, f) \/ GiveTail(t, a, f) \/ GiveTailToCPU(t, a, f)
         \/ ConcordGPU(t, a, f) \/ ConcordCPU(t, a, f)
  PROVE  StepsLeft' < StepsLeft
<1>1. /\ Adopt(t, a, f) /\ Fitting(t, f)
      /\ \E e \in begin..Last, type \in {CPU, a} : Claim(t, e, type)
  BY AdoptEnds
<1>2. /\ ~ Busy(t) /\ begin < Last /\ UNCHANGED <<inCall, eof>>
  BY <1>1 DEF Adopt, MayEnter, callVars
<1>3. Ahead' = Ahead
  BY <1>2 DEF Ahead
<1>4. CPU \in 0..nGPUs /\ a \in 0..nGPUs
  <2>1. nGPUs \in Nat
    BY CoresNat DEF IInv
  <2>2. QED BY <2>1 DEF CPU
<1>5. CASE Retire(a)
  <2>1. PICK e \in begin..Last, type \in {CPU, a} : Claim(t, e, type)
    BY <1>1
  <2>2. type \in 0..nGPUs
    BY <1>4
  <2>3. Cardinality(Workers') = Cardinality(Workers) + 1 /\ Remaining' <= Remaining
    BY <1>2, <2>1, <2>2, ClaimCounts
  <2>4. anyFPGArunning' = anyFPGArunning - 1
    BY <1>5 DEF Retire
  <2>5. QED BY <1>3, <2>3, <2>4, StepsLeftBoth
<1>6. CASE GiveChunk(t, a, f)
  <2>1. Claim(t, begin + f.chunk, a) /\ begin + f.chunk <= Last /\ UNCHANGED active
    BY <1>6 DEF GiveChunk
  <2>2. f.chunk \in Nat \ {0}
    BY <1>1 DEF Fitting
  <2>3. begin \in Int /\ Last \in Int
    BY DEF IInv, TypeOK
  <2>4. begin + f.chunk \in begin..Last /\ begin + f.chunk > begin
    BY <2>1, <2>2, <2>3
  <2>5. Cardinality(Workers') = Cardinality(Workers) + 1 /\ Remaining' <= Remaining - 1
    BY <1>2, <1>4, <2>1, <2>4, ClaimCounts
  <2>6. anyFPGArunning' = anyFPGArunning
    BY <2>1 DEF active
  <2>7. QED BY <1>3, <2>5, <2>6, StepsLeftBoth
<1>7. QED BY <1>5, <1>6 DEF GiveTail, GiveTailToCPU, ConcordGPU, ConcordCPU

(* So does a thread that works on its core. *)
LEMMA SerialCPUShortens ==
  ASSUME IInv, IInv', NEW t \in Threads, SerialFilterCPU(t)
  PROVE  StepsLeft' < StepsLeft
<1>1. TypeOK /\ begin \in First..Last
  BY DEF IInv, TypeOK
<1>2. ~ Busy(t) /\ begin < Last /\ UNCHANGED <<inCall, eof>> /\ UNCHANGED active
  BY DEF SerialFilterCPU, MayEnter, callVars
<1>3. PICK size \in NextChunkCPU(t) : Claim(t, Min2(begin + size, Last), CPU)
  BY DEF SerialFilterCPU
<1>4. size \in Nat /\ size > 0
  BY <1>1, NextChunkNat, NextChunkPositive
<1>5. Min2(begin + size, Last) \in begin..Last /\ Min2(begin + size, Last) > begin
  BY <1>1, <1>2, <1>4 DEF Min2
<1>6. CPU \in 0..nGPUs
  <2>1. nGPUs \in Nat
    BY <1>1, CoresNat
  <2>2. QED BY <2>1 DEF CPU
<1>7. Cardinality(Workers') = Cardinality(Workers) + 1 /\ Remaining' <= Remaining - 1
  BY <1>2, <1>3, <1>5, <1>6, ClaimCounts
<1>8. anyFPGArunning' = anyFPGArunning /\ Ahead' = Ahead
  BY <1>2 DEF active, Ahead
<1>9. QED BY <1>7, <1>8, StepsLeftBoth

(* So do running a chunk, the end of the input and the return. *)
LEMMA OtherShortens ==
  ASSUME IInv, IInv',
         \/ \E t \in Threads : executeOnGPU(t) \/ executeOnCPU(t) \/ SerialFilterEnd(t)
         \/ PipeReturn
  PROVE  StepsLeft' < StepsLeft
<1>1. UNCHANGED <<begin, anyFPGArunning>>
  BY DEF executeOnGPU, executeOnCPU, SerialFilterEnd, PipeReturn, active
<1>2. Remaining' = Remaining
  BY <1>1 DEF Remaining
<1>3. ASSUME NEW t \in Threads, executeOnGPU(t) \/ executeOnCPU(t)
      PROVE  StepsLeft' < StepsLeft
  <2>1. Busy(t) /\ bundle' = [bundle EXCEPT ![t] = NoBundle] /\ UNCHANGED <<inCall, eof>>
    BY <1>3 DEF executeOnGPU, executeOnCPU, Execute, callVars
  <2>2. bundle'[t] = NoBundle /\ \A u \in Threads \ {t} : bundle'[u] = bundle[u]
    BY <2>1 DEF IInv, TypeOK
  <2>3. ~ Busy(t)' /\ \A u \in Threads \ {t} : Busy(u)' <=> Busy(u)
    BY <2>2 DEF Busy, NoBundle
  <2>4. Workers' = Workers \ {t} /\ t \in Workers
    BY <2>1, <2>3 DEF Workers
  <2>5. Cardinality(Workers') = Cardinality(Workers) - 1
    BY <2>4, WorkersFinite, FS_RemoveElement
  <2>6. Ahead' = Ahead
    BY <2>1 DEF Ahead
  <2>7. QED BY <1>1, <1>2, <2>5, <2>6, StepsLeftBoth
<1>4. CASE \E t \in Threads : SerialFilterEnd(t)
  <2>1. inCall /\ ~ eof /\ eof' = TRUE /\ UNCHANGED <<inCall, bundle>>
    BY <1>4 DEF SerialFilterEnd, MayEnter, callVars
  <2>2. Ahead = 2 /\ Ahead' = 1 /\ Workers' = Workers
    BY <2>1 DEF Ahead, Workers, Busy
  <2>3. QED BY <1>1, <1>2, <2>2, StepsLeftBoth
<1>5. CASE PipeReturn
  <2>1. inCall /\ eof /\ inCall' = FALSE /\ UNCHANGED <<eof, bundle>>
    BY <1>5 DEF PipeReturn
  <2>2. Ahead = 1 /\ Ahead' = 0 /\ Workers' = Workers
    BY <2>1 DEF Ahead, Workers, Busy
  <2>3. QED BY <1>1, <1>2, <2>2, StepsLeftBoth
<1>6. QED BY <1>3, <1>4, <1>5

(* Every step inside a call shortens it. *)
LEMMA StepShortens ==
  ASSUME IInv, IInv', Next, inCall
  PROVE  StepsLeft' < StepsLeft
<1>1. ASSUME NEW t \in Threads, NEW a \in 1..nGPUs, NEW f \in Fits(t, a),
             \/ GiveChunk(t, a, f) \/ GiveTail(t, a, f) \/ GiveTailToCPU(t, a, f)
             \/ ConcordGPU(t, a, f) \/ ConcordCPU(t, a, f)
      PROVE  StepsLeft' < StepsLeft
  BY <1>1, AdoptShortens
<1>2. CASE \E t \in Threads : SerialFilterCPU(t)
  BY <1>2, SerialCPUShortens
<1>3. CASE \/ \E t \in Threads : executeOnGPU(t) \/ executeOnCPU(t) \/ SerialFilterEnd(t)
           \/ PipeReturn
  BY <1>3, OtherShortens
<1>4. ~ ParallelForCall
  BY DEF ParallelForCall
<1>5. QED BY <1>1, <1>2, <1>3, <1>4 DEF Next

(* A call starts with MostSteps steps before it. *)
LEMMA CallSteps ==
  ASSUME IInv, IInv', ParallelForCall
  PROVE  StepsLeft' = MostSteps'
<1>1. /\ begin' = First /\ ~ eof' /\ inCall' /\ anyFPGArunning' = nGPUs
      /\ UNCHANGED <<bundle, nGPUs>> /\ \A t \in Threads : ~ Busy(t)
  BY DEF ParallelForCall, IInv, Places
<1>2. Workers' = {}
  BY <1>1 DEF Workers, Busy
<1>3. Cardinality(Workers') = 0
  BY <1>2, FS_EmptySet
<1>4. Remaining' = Last - First /\ Ahead' = 2 /\ nGPUs' = nGPUs
  BY <1>1 DEF Remaining, Ahead
<1>5. QED BY <1>1, <1>3, <1>4, StepsLeftBoth DEF MostSteps

(* A call takes at most MostSteps steps, whichever threads take them: each *)
(* uses up one, there are never more left, and never fewer than none.      *)
THEOREM CallIsFinite == Spec => CallShortens /\ [](StepsLeft \in 0..MostSteps)
<1>1. Init => StepsLeft \in 0..MostSteps
  <2>1. SUFFICES ASSUME Init PROVE StepsLeft \in 0..MostSteps
    OBVIOUS
  <2>2. IInv
    BY <2>1, InitIInv
  <2>3. Remaining = 0 /\ anyFPGArunning = 0 /\ Ahead = 0 /\ Workers = {}
    BY <2>1 DEF Init, Remaining, Ahead, Workers, Busy, NoBundle
  <2>4. Cardinality(Workers) = 0
    BY <2>3, FS_EmptySet
  <2>5. StepsLeft = 0 /\ nGPUs \in Nat
    BY <2>2, <2>3, <2>4, StepsLeftNat, CoresNat DEF IInv
  <2>6. QED BY <2>5 DEF MostSteps
<1>2. IInv /\ IInv' /\ [Next]_vars => [inCall => StepsLeft' < StepsLeft]_vars
  BY StepShortens
<1>3. IInv /\ IInv' /\ StepsLeft \in 0..MostSteps /\ [Next]_vars
        => (StepsLeft \in 0..MostSteps)'
  <2> SUFFICES ASSUME IInv, IInv', StepsLeft \in 0..MostSteps, [Next]_vars
               PROVE  StepsLeft' \in 0..MostSteps'
    OBVIOUS
  <2>1. nGPUs' = nGPUs
    BY DEF vars, callVars, Next, ParallelForCall, GiveChunk, GiveTail, GiveTailToCPU,
           ConcordGPU, ConcordCPU, Adopt, SerialFilterCPU, SerialFilterEnd, executeOnGPU,
           executeOnCPU, PipeReturn
  <2>2. MostSteps' = MostSteps
    BY <2>1 DEF MostSteps
  <2>3. StepsLeft' \in Nat /\ StepsLeft \in Nat /\ MostSteps \in Nat
    <3>1. nGPUs \in Nat
      BY CoresNat DEF IInv
    <3>2. QED BY <3>1, StepsLeftBoth DEF MostSteps
  <2>4. CASE Next /\ inCall
    <3>1. StepsLeft' < StepsLeft
      BY <2>4, StepShortens
    <3>2. QED BY <2>2, <2>3, <3>1
  <2>5. CASE Next /\ ~ inCall
    <3>1. ParallelForCall
      BY <2>5 DEF Next, GiveChunk, GiveTail, GiveTailToCPU, ConcordGPU, ConcordCPU, Adopt,
                  SerialFilterCPU, SerialFilterEnd, MayEnter, executeOnGPU, executeOnCPU,
                  PipeReturn, IInv, Places
    <3>2. QED BY <2>2, <2>3, <3>1, CallSteps
  <2>6. CASE UNCHANGED vars
    <3>1. StepsLeft' = StepsLeft
      BY <2>6 DEF vars, callVars, active, StepsLeft, Remaining, Busy
    <3>2. QED BY <2>2, <3>1
  <2>7. QED BY <2>4, <2>5, <2>6
<1>4. QED BY <1>1, <1>2, <1>3, Invariance, PTL DEF Spec, CallShortens

-----------------------------------------------------------------------------
(* The scheduler is a pipeline: every step is one of the pipeline's, or    *)
(* invisible in it.                                                        *)
THEOREM ImplementsPipeline == Spec => P!Spec
<1>1. Init => P!Init
  BY InitIInv
<1>2. QED BY <1>1, StepPipeline, Invariance, PTL DEF Spec, P!Spec

=============================================================================
