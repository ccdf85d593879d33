------------------------- MODULE MultiDynamic_proofs -------------------------
(***************************************************************************)
(* Proofs about the Dynamic scheduler of the ZCU102 hosts, for every       *)
(* number of threads, cores and accelerators, every iteration space, chunk *)
(* size and throughput.                                                    *)
(***************************************************************************)
EXTENDS MultiDynamic, FiniteSetTheorems, TLAPS

USE ThreadsAssumption, KernelsAssumption, NumbersAssumption

-----------------------------------------------------------------------------
(* The inductive invariant.                                                *)

(* A held chunk lies in front of begin. *)
HeldBelow ==
  \A t \in Threads :
    /\ Busy(t) => bundle[t].begin <= bundle[t].end /\ bundle[t].end <= begin
    /\ ~ Busy(t) => bundle[t] = NoBundle

(* Chunks of two threads are apart. *)
HeldApart ==
  \A t, u \in Threads :
    t # u /\ Busy(t) /\ Busy(u)
      => bundle[t].end <= bundle[u].begin \/ bundle[u].end <= bundle[t].begin

(* Nothing is left to take or under way outside a call. *)
Quiet ==
  /\ ~ inCall => eof /\ \A t \in Threads : ~ Busy(t)
  /\ eof => begin = Last

(* The accelerators still free are 1..nAcc. *)
FreeBelow == \A t \in Threads : myAccId[t] = 0 \/ myAccId[t] > nAcc

IInv ==
  /\ TypeOK
  /\ RunOnce
  /\ HeldBelow
  /\ HeldApart
  /\ Quiet
  /\ FreeBelow
  /\ AcceleratorOwner

-----------------------------------------------------------------------------
(* The arithmetic of the partitioner gives natural numbers.                *)

(* The truncating divisions of the partitioner stay in Nat. *)
LEMMA DivNat ==
  ASSUME NEW a \in Nat, NEW b \in Nat \ {0}
  PROVE  a \div b \in Nat
  OBVIOUS

(* So do its products. *)
LEMMA MulNat ==
  ASSUME NEW a \in Nat, NEW b \in Nat
  PROVE  a * b \in Nat
  OBVIOUS

(* The best throughput of at most four accelerators exists. *)
LEMMA FastestNat ==
  ASSUME TypeOK
  PROVE  FastestGPU \in Nat
<1> DEFINE S == {0} \union {gpuThroughput[i] : i \in AccIds}
           P(m) == \A i \in AccIds : gpuThroughput[i] <= m
<1>1. nGPUs \in 0..4
  OBVIOUS
<1>2. S \subseteq Nat
  BY DEF TypeOK
<1>3. \E m \in S : P(m)
  <2>1. CASE nGPUs = 0
    BY <2>1 DEF AccIds
  <2>2. CASE nGPUs = 1
    BY <2>2 DEF AccIds, TypeOK
  <2>3. CASE nGPUs = 2
    BY <2>3 DEF AccIds, TypeOK
  <2>4. CASE nGPUs = 3
    BY <2>4 DEF AccIds, TypeOK
  <2>5. CASE nGPUs = 4
    BY <2>5 DEF AccIds, TypeOK
  <2>6. QED BY <1>1, <2>1, <2>2, <2>3, <2>4, <2>5
<1>4. FastestGPU = CHOOSE m \in S : P(m)
  BY DEF FastestGPU
<1>5. (CHOOSE m \in S : P(m)) \in S
  BY <1>3
<1>6. QED BY <1>2, <1>4, <1>5

(* A CPU chunk has a natural size. *)
LEMMA NextChunkNat ==
  ASSUME TypeOK, NEW t \in Threads, nGPUs = 0 => nCPUs > 0
  PROVE  NextChunkCPU(t) \in Nat
<1>1. Remaining \in Nat
  BY DEF Remaining, TypeOK
<1>2. CASE nGPUs = 0
  <2>1. nCPUs \in Nat \ {0}
    BY <1>2
  <2>2. Remaining \div nCPUs \in Nat
    BY <1>1, <2>1, DivNat
  <2>3. QED BY <1>2, <2>2 DEF NextChunkCPU, Max2
<1>3. CASE nGPUs # 0
  <2>1. KnownChunk(t) \in Nat
    <3>1. CASE FastestGPU > 0 /\ cpuThroughput[t] > 0
      <4> DEFINE g == FastestGPU
                 c == cpuThroughput[t]
                 a == Min2(Remaining, ChunkGPU)
      <4>1. g \in Nat \ {0} /\ c \in Nat \ {0}
        BY <3>1, FastestNat DEF TypeOK
      <4>2. a \in Nat
        BY <1>1 DEF Min2
      <4> HIDE DEF g, c, a
      <4>3. a * c \in Nat /\ Remaining * c \in Nat /\ nCPUs * c \in Nat
        BY <1>1, <4>1, <4>2, MulNat
      <4>4. nCPUs * c + g \in Nat \ {0}
        BY <4>1, <4>3
      <4>5. (a * c) \div g \in Nat
        BY <4>1, <4>3, DivNat
      <4>6. (Remaining * c) \div (nCPUs * c + g) \in Nat
        BY <4>3, <4>4, DivNat
      <4>7. FairChunk(g, c) \in Nat
        BY <4>5, <4>6 DEF FairChunk, Min2, a
      <4>8. QED BY <3>1, <4>7 DEF KnownChunk, g, c
    <3>2. CASE ~ (FastestGPU > 0 /\ cpuThroughput[t] > 0)
      BY <3>2 DEF KnownChunk, TypeOK
    <3>3. QED BY <3>1, <3>2
  <2>2. QED BY <1>3, <2>1 DEF NextChunkCPU
<1>4. QED BY <1>2, <1>3

(* Any natural size ends a chunk between begin and the end of the space. *)
LEMMA ChunkEndBounds ==
  ASSUME TypeOK, NEW size \in Nat
  PROVE  ChunkEnd(size) \in First..Last /\ begin <= ChunkEnd(size)
BY DEF ChunkEnd, Min2, TypeOK

(* Taking the next chunk keeps held chunks below begin and apart, and      *)
(* hands out exactly the iterations that begin moves over.                 *)
LEMMA ClaimKeeps ==
  ASSUME IInv, NEW t \in Threads, MayEnter(t), begin < Last,
         NEW e \in First..Last, begin <= e,
         NEW k \in 0..nGPUs, Claim(t, e, k),
         UNCHANGED <<inCall, eof, times>>
  PROVE  /\ bundle' \in [Threads -> [begin : First..Last, end : First..Last, type : -1..nGPUs]]
         /\ begin' \in First..Last
         /\ heap' \in Int
         /\ RunOnce' /\ HeldBelow' /\ HeldApart' /\ Quiet'
<1> USE DEF IInv, TypeOK, Claim, MayEnter, Busy
<1>1. begin' = e /\ begin \in First..Last
  OBVIOUS
<1>2. bundle'[t] = [begin |-> begin, end |-> e, type |-> k]
  OBVIOUS
<1>3. \A u \in Threads \ {t} : bundle'[u] = bundle[u]
  OBVIOUS
<1>4. ~ Busy(t) /\ bundle[t] = NoBundle
  BY DEF HeldBelow
<1>5. HeldBelow'
  BY <1>1, <1>2, <1>3 DEF HeldBelow
<1>6. HeldApart'
  <2> SUFFICES ASSUME NEW u \in Threads, NEW v \in Threads, u # v, Busy(u)', Busy(v)'
               PROVE  bundle'[u].end <= bundle'[v].begin \/ bundle'[v].end <= bundle'[u].begin
    BY DEF HeldApart
  <2>1. CASE u = t
    BY <2>1, <1>2, <1>3 DEF HeldBelow
  <2>2. CASE v = t
    BY <2>2, <1>2, <1>3 DEF HeldBelow
  <2>3. CASE u # t /\ v # t
    BY <2>3, <1>3 DEF HeldApart
  <2>4. QED BY <2>1, <2>2, <2>3
<1>7. RunOnce'
  <2> SUFFICES ASSUME NEW i \in Space
               PROVE  times[i] = IF i < e /\ \A u \in Threads : i \notin Held(u)' THEN 1 ELSE 0
    BY <1>1 DEF RunOnce, Space
  <2>0. i \in Int /\ begin \in Int /\ e \in Int
    BY <1>1 DEF Space
  <2>1. i \in Held(t)' <=> begin <= i /\ i < e
    <3>1. Held(t)' = begin..(e - 1)
      BY <1>2 DEF Held
    <3> HIDE DEF IInv, TypeOK, Claim, MayEnter, Busy
    <3>2. QED BY <2>0, <3>1
  <2>2. \A u \in Threads \ {t} : Held(u)' = Held(u)
    BY <1>3 DEF Held
  <2>3. Held(t) = {}
    BY <1>4 DEF Held, NoBundle
  <2>4. times[i] = IF i < begin /\ \A u \in Threads : i \notin Held(u) THEN 1 ELSE 0
    BY DEF RunOnce
  <2>5. \A u \in Threads : Held(u) \subseteq First..(begin - 1)
    BY <1>1 DEF HeldBelow, Held, NoBundle
  <2>6. CASE i < begin
    <3>1. i \notin Held(t)'
      BY <2>6, <2>1, <1>1 DEF Space
    <3>2. (\A u \in Threads : i \notin Held(u)') <=> (\A u \in Threads : i \notin Held(u))
      BY <3>1, <2>2, <2>3
    <3>3. i < e
      BY <2>6, <1>1 DEF Space
    <3>4. QED BY <2>4, <2>6, <3>2, <3>3
  <2>7. CASE ~ (i < begin)
    <3>1. times[i] = 0
      BY <2>4, <2>7
    <3>2. i < e => i \in Held(t)'
      BY <2>1, <2>7, <1>1 DEF Space
    <3>3. QED BY <3>1, <3>2
  <2>8. QED BY <2>6, <2>7
<1>8. Quiet'
  BY <1>1 DEF Quiet
<1>9. QED BY <1>5, <1>6, <1>7, <1>8

(* Binding an accelerator keeps the bound ones apart and above the free.   *)
LEMMA BindKeeps ==
  ASSUME IInv, NEW t \in Threads, BindAccelerator(t)
  PROVE  /\ nAcc' \in 0..nGPUs
         /\ myAccId' \in [Threads -> 0..nGPUs]
         /\ FreeBelow' /\ AcceleratorOwner'
<1>1. /\ nAcc \in 0..nGPUs /\ myAccId \in [Threads -> 0..nGPUs]
      /\ FreeBelow /\ AcceleratorOwner
  BY DEF IInv, TypeOK
<1>2. CASE nAcc > 0 /\ myAccId[t] = 0
  <2>1. myAccId' = [myAccId EXCEPT ![t] = nAcc] /\ nAcc' = nAcc - 1
    BY <1>2 DEF BindAccelerator
  <2>2. FreeBelow'
    BY <1>1, <1>2, <2>1 DEF FreeBelow
  <2>3. AcceleratorOwner'
    BY <1>1, <1>2, <2>1 DEF FreeBelow, AcceleratorOwner
  <2>4. QED BY <1>1, <1>2, <2>1, <2>2, <2>3
<1>3. CASE ~ (nAcc > 0 /\ myAccId[t] = 0)
  <2>1. UNCHANGED <<myAccId, nAcc>>
    BY <1>3 DEF BindAccelerator
  <2>2. QED BY <1>1, <2>1 DEF FreeBelow, AcceleratorOwner
<1>4. QED BY <1>2, <1>3

(* Two threads never hold the same iteration.                              *)
LEMMA HeldDisjoint ==
  ASSUME TypeOK, HeldBelow, HeldApart,
         NEW t \in Threads, NEW u \in Threads, t # u, NEW i \in Held(t)
  PROVE  i \notin Held(u)
<1>1. \A v \in Threads : bundle[v].begin \in Int /\ bundle[v].end \in Int
  BY DEF TypeOK
<1>2. CASE Busy(t) /\ Busy(u)
  <2>1. bundle[t].end <= bundle[u].begin \/ bundle[u].end <= bundle[t].begin
    BY <1>2 DEF HeldApart
  <2>2. QED BY <1>1, <2>1 DEF Held
<1>3. CASE ~ Busy(t) \/ ~ Busy(u)
  BY <1>3 DEF HeldBelow, Held, NoBundle
<1>4. QED BY <1>2, <1>3

(* Running the held chunk once and giving it back keeps every iteration    *)
(* run once.                                                               *)
LEMMA RunKeeps ==
  ASSUME IInv, NEW t \in Threads, Busy(t), RunChunk(Held(t)), Release(t),
         UNCHANGED <<inCall, eof, begin>>
  PROVE  /\ bundle' \in [Threads -> [begin : First..Last, end : First..Last, type : -1..nGPUs]]
         /\ times' \in [Space -> Nat]
         /\ heap' \in Int
         /\ RunOnce' /\ HeldBelow' /\ HeldApart' /\ Quiet'
<1>1. TypeOK /\ RunOnce /\ HeldBelow /\ HeldApart /\ Quiet
  BY DEF IInv
<1>2. bundle' = [bundle EXCEPT ![t] = NoBundle] /\ heap' = heap - 1
  BY DEF Release
<1>3. times' = [i \in Space |-> IF i \in Held(t) THEN times[i] + 1 ELSE times[i]]
  BY DEF RunChunk
<1>4. bundle' \in [Threads -> [begin : First..Last, end : First..Last, type : -1..nGPUs]]
  BY <1>1, <1>2 DEF TypeOK, NoBundle
<1>5. times' \in [Space -> Nat] /\ heap' \in Int
  BY <1>1, <1>2, <1>3 DEF TypeOK
<1>6. bundle'[t] = NoBundle /\ \A u \in Threads \ {t} : bundle'[u] = bundle[u]
  BY <1>1, <1>2 DEF TypeOK
<1>7. HeldBelow'
  BY <1>1, <1>6 DEF HeldBelow, Busy, NoBundle
<1>8. HeldApart'
  BY <1>1, <1>6 DEF HeldApart, Busy, NoBundle
<1>9. Quiet'
  BY <1>1, <1>6 DEF Quiet, Busy, NoBundle
<1>10. RunOnce'
  <2> SUFFICES ASSUME NEW i \in Space
               PROVE  times'[i] = IF i < begin /\ \A u \in Threads : i \notin Held(u)' THEN 1 ELSE 0
    BY DEF RunOnce, Space
  <2>1. times[i] = IF i < begin /\ \A u \in Threads : i \notin Held(u) THEN 1 ELSE 0
    BY <1>1 DEF RunOnce
  <2>2. i \in Int /\ begin \in Int
    BY <1>1 DEF TypeOK, Space
  <2>3. Held(t)' = {}
    BY <1>6 DEF Held, NoBundle
  <2>4. \A u \in Threads \ {t} : Held(u)' = Held(u)
    BY <1>6 DEF Held
  <2>5. CASE i \in Held(t)
    <3>1. i < begin
      <4>1. bundle[t].end \in Int /\ bundle[t].begin \in Int /\ bundle[t].end <= begin
        BY <1>1 DEF HeldBelow, TypeOK
      <4>2. QED BY <2>2, <2>5, <4>1 DEF Held
    <3>2. \A u \in Threads \ {t} : i \notin Held(u)
      BY <1>1, <2>5, HeldDisjoint
    <3>3. times'[i] = 1
      BY <1>3, <2>1, <2>5
    <3>4. QED BY <2>3, <2>4, <3>1, <3>2, <3>3
  <2>6. CASE i \notin Held(t)
    <3>1. times'[i] = times[i]
      BY <1>3, <2>6
    <3>2. (\A u \in Threads : i \notin Held(u)') <=> (\A u \in Threads : i \notin Held(u))
      BY <2>3, <2>4, <2>6
    <3>3. QED BY <2>1, <3>1, <3>2
  <2>7. QED BY <2>5, <2>6
<1>11. QED BY <1>4, <1>5, <1>7, <1>8, <1>9, <1>10

(* A dispatch of the body has a case for every accelerator a chunk can be  *)
(* for, so none is dropped.                                                *)
LEMMA DispatchedHeld ==
  ASSUME TypeOK, NEW t \in Threads, Busy(t), bundle[t].type # CPU
  PROVE  bundle[t].type \in AccIds /\ Dispatched(t) = Held(t)
<1>1. bundle[t].type \in -1..nGPUs
  BY DEF TypeOK
<1>2. bundle[t].type \in 1..nGPUs
  BY <1>1 DEF Busy, CPU
<1>3. bundle[t].type \in 1..Kernels
  BY <1>2
<1>4. QED BY <1>2, <1>3 DEF AccIds, Dispatched

(* Every measured throughput is a natural number. *)
LEMMA MeasuredNat ==
  ASSUME NEW t \in Threads, NEW s \in Measured(t)
  PROVE  s \in Nat
BY DEF Measured

-----------------------------------------------------------------------------
(* Every step keeps the invariant, one lemma per action that changes more  *)
(* than one part of it.                                                    *)

(* A new call starts from no chunk under way and no iteration run.         *)
LEMMA CallKeeps ==
  ASSUME IInv, ParallelForCall
  PROVE  IInv'
<1>1. /\ TypeOK /\ HeldBelow /\ HeldApart /\ Quiet /\ FreeBelow /\ AcceleratorOwner
      /\ \A t \in Threads : ~ Busy(t)
  BY DEF IInv, Quiet, ParallelForCall
<1>2. /\ inCall' = TRUE /\ calls' = calls + 1 /\ calls < MaxCalls
      /\ begin' = First /\ eof' = FALSE
      /\ times' = [i \in Space |-> 0]
      /\ chunkCPU' = [chunkCPU EXCEPT ![Main] = FirstChunkCPU]
      /\ UNCHANGED <<nAcc, myAccId, gpuThroughput, cpuThroughput, bundle, heap>>
  BY DEF ParallelForCall
<1>3. fG' \in Nat \X (Nat \ {0}) /\ fG'[1] # 0
  <2>1. fG \in Nat \X (Nat \ {0}) /\ fG' = IF fG[1] = 0 THEN <<InitialFG, 1>> ELSE fG
    BY <1>1 DEF TypeOK, ParallelForCall
  <2>2. QED BY <2>1
<1>4. FirstChunkCPU \in Nat
  <2>1. fG'[1] \in Nat \ {0} /\ fG'[2] \in Nat
    BY <1>3
  <2>2. (ChunkGPU * fG'[2]) \div fG'[1] \in Nat
    BY <2>1, MulNat, DivNat
  <2>3. (Last - First) \div InitialPart \in Nat
    <3>1. Last - First \in Nat
      OBVIOUS
    <3>2. QED BY <3>1, DivNat
  <2>4. QED BY <2>2, <2>3 DEF FirstChunkCPU, Min2, Max2
<1>5. TypeOK'
  <2>1. inCall' \in BOOLEAN /\ eof' \in BOOLEAN
    BY <1>2
  <2>2. begin' \in First..Last
    BY <1>2
  <2>3. calls' \in 0..MaxCalls
    <3>1. calls \in 0..MaxCalls
      BY <1>1 DEF TypeOK
    <3>2. QED BY <1>2, <3>1
  <2>4. chunkCPU' \in [Threads -> Nat]
    BY <1>1, <1>2, <1>4 DEF TypeOK
  <2>5. times' \in [Space -> Nat]
    BY <1>2
  <2>6. /\ nAcc' \in 0..nGPUs
        /\ myAccId' \in [Threads -> 0..nGPUs]
        /\ gpuThroughput' \in [AccIds -> Nat]
        /\ cpuThroughput' \in [Threads -> Nat]
        /\ bundle' \in [Threads -> [begin : First..Last, end : First..Last, type : -1..nGPUs]]
        /\ heap' \in Int
    BY <1>1, <1>2 DEF TypeOK
  <2>7. Space' = Space /\ AccIds' = AccIds
    BY DEF Space, AccIds
  <2>8. QED BY <1>3, <2>1, <2>2, <2>3, <2>4, <2>5, <2>6, <2>7 DEF TypeOK
<1>6. RunOnce'
  BY <1>2 DEF RunOnce, Space
<1>7. HeldBelow' /\ HeldApart'
  BY <1>1, <1>2 DEF HeldBelow, HeldApart, Busy, NoBundle
<1>8. Quiet'
  BY <1>2 DEF Quiet
<1>9. FreeBelow' /\ AcceleratorOwner'
  BY <1>1, <1>2 DEF FreeBelow, AcceleratorOwner
<1>10. QED BY <1>5, <1>6, <1>7, <1>8, <1>9 DEF IInv

(* The serial stage hands the next chunk to an accelerator.                *)
LEMMA SerialGPUKeeps ==
  ASSUME IInv, NEW t \in Threads, SerialFilterGPU(t)
  PROVE  IInv'
<1>1. TypeOK
  BY DEF IInv
<1>2. /\ MayEnter(t) /\ begin < Last /\ BindAccelerator(t) /\ myAccId'[t] # 0
      /\ Claim(t, ChunkEnd(ChunkGPU), myAccId'[t])
      /\ UNCHANGED <<inCall, calls, eof, chunkCPU, fG, gpuThroughput,
                     cpuThroughput, times>>
  BY DEF SerialFilterGPU
<1>3. /\ nAcc' \in 0..nGPUs
      /\ myAccId' \in [Threads -> 0..nGPUs]
      /\ FreeBelow' /\ AcceleratorOwner'
  BY <1>2, BindKeeps
<1>4. ChunkEnd(ChunkGPU) \in First..Last /\ begin <= ChunkEnd(ChunkGPU)
  BY <1>1, ChunkEndBounds
<1>5. myAccId'[t] \in 0..nGPUs
  BY <1>3
<1>6. /\ bundle' \in [Threads -> [begin : First..Last, end : First..Last, type : -1..nGPUs]]
      /\ begin' \in First..Last
      /\ heap' \in Int
      /\ RunOnce' /\ HeldBelow' /\ HeldApart' /\ Quiet'
  BY <1>2, <1>4, <1>5, ClaimKeeps
<1>7. TypeOK'
  BY <1>1, <1>2, <1>3, <1>6 DEF TypeOK
<1>8. QED BY <1>3, <1>6, <1>7 DEF IInv

(* The serial stage hands the next chunk to a core.                        *)
LEMMA SerialCPUKeeps ==
  ASSUME IInv, NEW t \in Threads, SerialFilterCPU(t)
  PROVE  IInv'
<1>1. TypeOK
  BY DEF IInv
<1>2. /\ MayEnter(t) /\ begin < Last /\ BindAccelerator(t)
      /\ fG' = IF t = Main /\ FastestGPU > 0 /\ cpuThroughput[t] > 0
                 THEN <<FastestGPU, cpuThroughput[t]>> ELSE fG
      /\ chunkCPU' = [chunkCPU EXCEPT ![t] = NextChunkCPU(t)]
      /\ Claim(t, ChunkEnd(NextChunkCPU(t)), CPU)
      /\ UNCHANGED <<inCall, calls, eof, gpuThroughput, cpuThroughput, times>>
  BY DEF SerialFilterCPU
<1>3. /\ nAcc' \in 0..nGPUs
      /\ myAccId' \in [Threads -> 0..nGPUs]
      /\ FreeBelow' /\ AcceleratorOwner'
  BY <1>2, BindKeeps
<1>4. NextChunkCPU(t) \in Nat
  BY <1>1, NextChunkNat
<1>5. ChunkEnd(NextChunkCPU(t)) \in First..Last /\ begin <= ChunkEnd(NextChunkCPU(t))
  BY <1>1, <1>4, ChunkEndBounds
<1>6. CPU \in 0..nGPUs
  BY DEF CPU
<1>7. /\ bundle' \in [Threads -> [begin : First..Last, end : First..Last, type : -1..nGPUs]]
      /\ begin' \in First..Last
      /\ heap' \in Int
      /\ RunOnce' /\ HeldBelow' /\ HeldApart' /\ Quiet'
  BY <1>2, <1>5, <1>6, ClaimKeeps
<1>8. fG' \in Nat \X (Nat \ {0})
  <2>1. fG \in Nat \X (Nat \ {0}) /\ cpuThroughput[t] \in Nat /\ FastestGPU \in Nat
    BY <1>1, FastestNat DEF TypeOK
  <2>2. QED BY <1>2, <2>1
<1>9. TypeOK'
  BY <1>1, <1>2, <1>3, <1>4, <1>7, <1>8 DEF TypeOK
<1>10. QED BY <1>3, <1>7, <1>9 DEF IInv

(* A chunk runs on an accelerator.                                         *)
LEMMA OperatorGPUKeeps ==
  ASSUME IInv, NEW t \in Threads, OperatorGPU(t)
  PROVE  IInv'
<1>1. TypeOK /\ FreeBelow /\ AcceleratorOwner
  BY DEF IInv
<1>2. PICK s \in Measured(t) :
        gpuThroughput' = [gpuThroughput EXCEPT ![bundle[t].type] = s]
  BY DEF OperatorGPU
<1>3. /\ Busy(t) /\ bundle[t].type # CPU /\ RunChunk(Dispatched(t)) /\ Release(t)
      /\ UNCHANGED <<inCall, calls, begin, eof, nAcc, myAccId, chunkCPU, fG, cpuThroughput>>
  BY DEF OperatorGPU
<1>4. RunChunk(Held(t))
  BY <1>1, <1>3, DispatchedHeld
<1>5. /\ bundle' \in [Threads -> [begin : First..Last, end : First..Last, type : -1..nGPUs]]
      /\ times' \in [Space -> Nat]
      /\ heap' \in Int
      /\ RunOnce' /\ HeldBelow' /\ HeldApart' /\ Quiet'
  BY <1>3, <1>4, RunKeeps
<1>6. gpuThroughput' \in [AccIds -> Nat]
  BY <1>1, <1>2, MeasuredNat DEF TypeOK
<1>7. TypeOK'
  BY <1>1, <1>3, <1>5, <1>6 DEF TypeOK
<1>8. FreeBelow' /\ AcceleratorOwner'
  BY <1>1, <1>3 DEF FreeBelow, AcceleratorOwner
<1>9. QED BY <1>5, <1>7, <1>8 DEF IInv

(* A chunk runs on a core.                                                 *)
LEMMA OperatorCPUKeeps ==
  ASSUME IInv, NEW t \in Threads, OperatorCPU(t)
  PROVE  IInv'
<1>1. TypeOK /\ FreeBelow /\ AcceleratorOwner
  BY DEF IInv
<1>2. PICK s \in Measured(t) : cpuThroughput' = [cpuThroughput EXCEPT ![t] = s]
  BY DEF OperatorCPU
<1>3. /\ Busy(t) /\ RunChunk(Held(t)) /\ Release(t)
      /\ UNCHANGED <<inCall, calls, begin, eof, nAcc, myAccId, chunkCPU, fG, gpuThroughput>>
  BY DEF OperatorCPU
<1>4. /\ bundle' \in [Threads -> [begin : First..Last, end : First..Last, type : -1..nGPUs]]
      /\ times' \in [Space -> Nat]
      /\ heap' \in Int
      /\ RunOnce' /\ HeldBelow' /\ HeldApart' /\ Quiet'
  BY <1>3, RunKeeps
<1>5. cpuThroughput' \in [Threads -> Nat]
  BY <1>1, <1>2, MeasuredNat DEF TypeOK
<1>6. TypeOK'
  BY <1>1, <1>3, <1>4, <1>5 DEF TypeOK
<1>7. FreeBelow' /\ AcceleratorOwner'
  BY <1>1, <1>3 DEF FreeBelow, AcceleratorOwner
<1>8. QED BY <1>4, <1>6, <1>7 DEF IInv

(* The input ends, the call returns, or nothing happens.                   *)
LEMMA EndKeeps ==
  ASSUME IInv, (\E t \in Threads : SerialFilterEnd(t)) \/ PipeReturn \/ UNCHANGED vars
  PROVE  IInv'
<1> USE DEF IInv
<1>1. CASE \E t \in Threads : SerialFilterEnd(t)
  <2>1. /\ inCall /\ begin >= Last /\ heap' = heap + 1 /\ eof' = TRUE
        /\ UNCHANGED <<inCall, calls, begin, nAcc, myAccId, chunkCPU, fG,
                       gpuThroughput, cpuThroughput, bundle, times>>
    BY <1>1 DEF SerialFilterEnd, MayEnter
  <2>2. TypeOK'
    BY <2>1 DEF TypeOK
  <2>3. begin = Last
    BY <2>1 DEF TypeOK
  <2>4. RunOnce' /\ HeldBelow' /\ HeldApart' /\ FreeBelow' /\ AcceleratorOwner'
    BY <2>1 DEF RunOnce, Held, HeldBelow, HeldApart, Busy, FreeBelow, AcceleratorOwner
  <2>5. Quiet'
    BY <2>1, <2>3 DEF Quiet
  <2>6. QED BY <2>2, <2>4, <2>5
<1>2. CASE PipeReturn
  <2>1. /\ eof /\ inCall' = FALSE /\ \A t \in Threads : ~ Busy(t)
        /\ UNCHANGED <<calls, begin, eof, nAcc, myAccId, chunkCPU, fG,
                       gpuThroughput, cpuThroughput, bundle, heap, times>>
    BY <1>2 DEF PipeReturn
  <2>2. TypeOK'
    BY <2>1 DEF TypeOK
  <2>3. RunOnce' /\ HeldBelow' /\ HeldApart' /\ FreeBelow' /\ AcceleratorOwner'
    BY <2>1 DEF RunOnce, Held, HeldBelow, HeldApart, Busy, FreeBelow, AcceleratorOwner
  <2>4. Quiet'
    BY <2>1 DEF Quiet, Busy
  <2>5. QED BY <2>2, <2>3, <2>4
<1>3. CASE UNCHANGED vars
  BY <1>3 DEF vars, TypeOK, RunOnce, Held, HeldBelow, HeldApart, Busy, Quiet,
              FreeBelow, AcceleratorOwner
<1>4. QED BY <1>1, <1>2, <1>3

(* The invariant holds before the first call. *)
LEMMA InitIInv == Init => IInv
<1> SUFFICES ASSUME Init PROVE IInv
  OBVIOUS
<1> USE DEF Init
<1>1. TypeOK
  <2>1. inCall \in BOOLEAN /\ eof \in BOOLEAN
    OBVIOUS
  <2>2. /\ myAccId \in [Threads -> 0..nGPUs]
        /\ chunkCPU \in [Threads -> Nat]
        /\ fG \in Nat \X (Nat \ {0})
        /\ gpuThroughput \in [AccIds -> Nat]
        /\ cpuThroughput \in [Threads -> Nat]
        /\ times \in [Space -> Nat]
    OBVIOUS
  <2>3. bundle \in [Threads -> [begin : First..Last, end : First..Last, type : -1..nGPUs]]
    BY DEF NoBundle
  <2>4. begin \in First..Last
    OBVIOUS
  <2>5. calls \in 0..MaxCalls /\ nAcc \in 0..nGPUs /\ heap \in Int
    OBVIOUS
  <2>6. QED BY <2>1, <2>2, <2>3, <2>4, <2>5 DEF TypeOK
<1>2. RunOnce
  BY DEF RunOnce, Held, NoBundle, Space
<1>3. HeldBelow /\ HeldApart
  BY DEF HeldBelow, HeldApart, Busy, NoBundle
<1>4. Quiet
  BY DEF Quiet, Busy, NoBundle
<1>5. FreeBelow /\ AcceleratorOwner
  BY DEF FreeBelow, AcceleratorOwner
<1>6. QED BY <1>1, <1>2, <1>3, <1>4, <1>5 DEF IInv

(* Every step keeps it. *)
LEMMA NextIInv == IInv /\ [Next]_vars => IInv'
<1> SUFFICES ASSUME IInv, [Next]_vars PROVE IInv'
  OBVIOUS
<1>1. CASE ParallelForCall
  BY <1>1, CallKeeps
<1>2. CASE \E t \in Threads : SerialFilterGPU(t)
  BY <1>2, SerialGPUKeeps
<1>3. CASE \E t \in Threads : SerialFilterCPU(t)
  BY <1>3, SerialCPUKeeps
<1>4. CASE \E t \in Threads : OperatorGPU(t)
  BY <1>4, OperatorGPUKeeps
<1>5. CASE \E t \in Threads : OperatorCPU(t)
  BY <1>5, OperatorCPUKeeps
<1>6. CASE (\E t \in Threads : SerialFilterEnd(t)) \/ PipeReturn \/ UNCHANGED vars
  BY <1>6, EndKeeps
<1>7. QED BY <1>1, <1>2, <1>3, <1>4, <1>5, <1>6 DEF Next

-----------------------------------------------------------------------------
(* The theorems.                                                           *)

(* The strengthened invariant holds in every state of the scheduler. *)
THEOREM Invariance == Spec => []IInv
<1>1. Init => IInv
  BY InitIInv
<1>2. IInv /\ [Next]_vars => IInv'
  BY NextIInv
<1>3. QED BY <1>1, <1>2, PTL DEF Spec

(* The scheduler's variables keep their types; in particular a chunk never *)
(* reaches outside [first, last) whatever the throughputs are.             *)
THEOREM TypeCorrect == Spec => []TypeOK
<1>1. IInv => TypeOK
  BY DEF IInv
<1>2. QED BY <1>1, Invariance, PTL

(* No iteration is skipped and none is run twice. *)
THEOREM RunsOnce == Spec => []RunOnce
<1>1. IInv => RunOnce
  BY DEF IInv
<1>2. QED BY <1>1, Invariance, PTL

(* Two threads never drive the same accelerator. *)
THEOREM OwnersDistinct == Spec => []AcceleratorOwner
<1>1. IInv => AcceleratorOwner
  BY DEF IInv
<1>2. QED BY <1>1, Invariance, PTL

(* Once the input has ended and no chunk is under way, all is done.        *)
LEMMA DrainedComplete ==
  ASSUME IInv, eof, \A t \in Threads : ~ Busy(t)
  PROVE  \A i \in Space : times[i] = 1
<1>1. RunOnce /\ begin = Last /\ \A t \in Threads : bundle[t] = NoBundle
  BY DEF IInv, Quiet, HeldBelow
<1>2. \A t \in Threads : Held(t) = {}
  BY <1>1 DEF Held, NoBundle
<1>3. \A i \in Space : i < begin
  BY <1>1 DEF Space
<1>4. QED BY <1>1, <1>2, <1>3 DEF RunOnce

(* heterogeneous_parallel_for returns only when the whole space is done.   *)
THEOREM ReturnsComplete == Spec => []ReturnedComplete
<1>1. IInv => ReturnedComplete
  BY DrainedComplete DEF IInv, Quiet, ReturnedComplete
<1>2. QED BY <1>1, Invariance, PTL

-----------------------------------------------------------------------------
(* Who may have which chunk: the bindings.                                 *)

Bound == {t \in Threads : myAccId[t] # 0}

(* Every accelerator is free or bound to one thread, and a core gets no    *)
(* chunk while an accelerator is free.                                     *)
Bindings ==
  /\ Cardinality(Bound) + nAcc = nGPUs
  /\ \A t \in Threads : bundle[t].type = CPU => myAccId[t] = 0 /\ nAcc = 0
  /\ \A t \in Threads : Busy(t) /\ bundle[t].type # CPU => myAccId[t] # 0

(* The bound threads, and their number. *)
LEMMA BoundFinite == IsFiniteSet(Bound) /\ Cardinality(Bound) \in Nat
<1>1. Bound \in SUBSET Threads
  BY DEF Bound
<1>2. IsFiniteSet(Bound)
  BY <1>1, FS_Subset
<1>3. QED BY <1>2, FS_CardinalityType

(* Binding moves an accelerator from the free ones to a thread. *)
LEMMA BindBindings ==
  ASSUME IInv, Bindings, NEW t \in Threads, ~ Busy(t), BindAccelerator(t),
         \A u \in Threads \ {t} : bundle'[u] = bundle[u],
         bundle'[t].type = CPU => myAccId'[t] = 0,
         bundle'[t].type # CPU => myAccId'[t] # 0
  PROVE  Bindings'
<1>1. nAcc \in 0..nGPUs /\ myAccId \in [Threads -> 0..nGPUs]
  BY DEF IInv, TypeOK
<1>2. CASE nAcc > 0 /\ myAccId[t] = 0
  <2>1. myAccId' = [myAccId EXCEPT ![t] = nAcc] /\ nAcc' = nAcc - 1
    BY <1>2 DEF BindAccelerator
  <2>2. myAccId'[t] # 0 /\ \A u \in Threads \ {t} : myAccId'[u] = myAccId[u]
    BY <1>1, <1>2, <2>1
  <2>3. Bound' = Bound \union {t} /\ t \notin Bound
    BY <1>2, <2>2 DEF Bound
  <2>4. Cardinality(Bound') = Cardinality(Bound) + 1
    BY <2>3, BoundFinite, FS_AddElement
  <2>5. Cardinality(Bound') + nAcc' = nGPUs
    BY <1>1, <2>1, <2>4, BoundFinite DEF Bindings
  <2>6. \A u \in Threads : bundle'[u].type # CPU
    <3>1. \A u \in Threads \ {t} : bundle'[u].type # CPU
      BY <1>2 DEF Bindings
    <3>2. QED BY <2>2, <3>1
  <2>7. \A u \in Threads : Busy(u)' /\ bundle'[u].type # CPU => myAccId'[u] # 0
    BY <2>2 DEF Bindings, Busy
  <2>8. QED BY <2>5, <2>6, <2>7 DEF Bindings
<1>3. CASE ~ (nAcc > 0 /\ myAccId[t] = 0)
  <2>1. myAccId' = myAccId /\ nAcc' = nAcc
    BY <1>3 DEF BindAccelerator
  <2>2. Bound' = Bound
    BY <2>1 DEF Bound
  <2>3. myAccId[t] = 0 => nAcc = 0
    BY <1>1, <1>3
  <2>4. Cardinality(Bound') + nAcc' = nGPUs
    BY <2>1, <2>2 DEF Bindings
  <2>5. \A u \in Threads : bundle'[u].type = CPU => myAccId'[u] = 0 /\ nAcc' = 0
    BY <2>1, <2>3 DEF Bindings
  <2>6. \A u \in Threads : Busy(u)' /\ bundle'[u].type # CPU => myAccId'[u] # 0
    BY <2>1 DEF Bindings, Busy
  <2>7. QED BY <2>4, <2>5, <2>6 DEF Bindings
<1>4. QED BY <1>2, <1>3

(* The bindings are kept. *)
LEMMA NextBindings == IInv /\ Bindings /\ [Next]_vars => Bindings'
<1> SUFFICES ASSUME IInv, Bindings, [Next]_vars PROVE Bindings'
  OBVIOUS
<1>1. TypeOK
  BY DEF IInv
<1>2. ASSUME NEW t \in Threads, NEW e, NEW type, Claim(t, e, type)
      PROVE  /\ \A u \in Threads \ {t} : bundle'[u] = bundle[u]
             /\ bundle'[t].type = type
  BY <1>1, <1>2 DEF Claim, TypeOK
<1>3. ASSUME NEW t \in Threads, SerialFilterGPU(t) PROVE Bindings'
  <2>1. /\ ~ Busy(t) /\ BindAccelerator(t) /\ myAccId'[t] # 0
        /\ Claim(t, ChunkEnd(ChunkGPU), myAccId'[t])
    BY <1>3 DEF SerialFilterGPU, MayEnter
  <2>2. bundle'[t].type # CPU /\ \A u \in Threads \ {t} : bundle'[u] = bundle[u]
    BY <1>2, <2>1 DEF CPU
  <2>3. QED BY <2>1, <2>2, BindBindings
<1>4. ASSUME NEW t \in Threads, SerialFilterCPU(t) PROVE Bindings'
  <2>1. /\ ~ Busy(t) /\ BindAccelerator(t) /\ myAccId'[t] = 0
        /\ Claim(t, ChunkEnd(NextChunkCPU(t)), CPU)
    BY <1>4 DEF SerialFilterCPU, MayEnter
  <2>2. bundle'[t].type = CPU /\ \A u \in Threads \ {t} : bundle'[u] = bundle[u]
    BY <1>2, <2>1
  <2>3. QED BY <2>1, <2>2, BindBindings
<1>5. ASSUME NEW t \in Threads, OperatorGPU(t) \/ OperatorCPU(t) PROVE Bindings'
  <2>1. UNCHANGED <<myAccId, nAcc>> /\ bundle' = [bundle EXCEPT ![t] = NoBundle]
    BY <1>5 DEF OperatorGPU, OperatorCPU, Release
  <2>2. bundle'[t].type = -1 /\ \A u \in Threads \ {t} : bundle'[u] = bundle[u]
    BY <1>1, <2>1 DEF TypeOK, NoBundle
  <2>3. QED BY <2>1, <2>2 DEF Bindings, Bound, Busy, CPU
<1>6. CASE ParallelForCall \/ (\E t \in Threads : SerialFilterEnd(t)) \/ PipeReturn
           \/ UNCHANGED vars
  <2>1. UNCHANGED <<myAccId, nAcc, bundle>>
    BY <1>6 DEF ParallelForCall, SerialFilterEnd, PipeReturn, vars
  <2>2. QED BY <2>1 DEF Bindings, Bound, Busy
<1>7. QED BY <1>3, <1>4, <1>5, <1>6 DEF Next

(* The chunks under way fit the devices there are. *)
LEMMA BindingsSuffice ==
  ASSUME IInv, Bindings
  PROVE  DevicesNotOversubscribed
<1> DEFINE Cores == {t \in Threads : bundle[t].type = CPU}
           Others == {t \in Threads : Busy(t) /\ bundle[t].type # CPU}
<1>1. nAcc \in 0..nGPUs /\ Cardinality(Bound) \in Nat /\ IsFiniteSet(Bound)
  BY BoundFinite DEF IInv, TypeOK
<1>2. Cardinality(Cores) <= nCPUs
  <2>1. CASE Cores = {}
    <3>1. Cardinality(Cores) = 0
      BY <2>1, FS_EmptySet
    <3>2. QED BY <3>1
  <2>2. CASE Cores # {}
    <3>1. nAcc = 0 /\ Cores \subseteq Threads \ Bound
      BY <2>2 DEF Bindings, Bound
    <3>2. Bound \subseteq Threads /\ IsFiniteSet(Threads)
      BY DEF Bound
    <3>3. Cardinality(Threads \ Bound) = Cardinality(Threads) - Cardinality(Bound)
          /\ IsFiniteSet(Threads \ Bound)
      <4>1. Bound = Threads \cap Bound
        BY <3>2
      <4>2. QED BY <3>2, <4>1, FS_Difference
    <3>4. Cardinality(Bound) = nGPUs
      BY <1>1, <3>1 DEF Bindings
    <3>5. Cardinality(Threads \ Bound) = nCPUs
      BY <3>3, <3>4
    <3>6. Cardinality(Cores) <= Cardinality(Threads \ Bound)
      BY <3>1, <3>3, FS_Subset
    <3>7. QED BY <3>5, <3>6
  <2>3. QED BY <2>1, <2>2
<1>3. Cardinality(Others) <= nGPUs
  <2>1. Others \subseteq Bound
    BY DEF Bindings, Bound
  <2>2. Cardinality(Others) <= Cardinality(Bound) /\ Cardinality(Others) \in Nat
    <3>1. Cardinality(Others) <= Cardinality(Bound) /\ IsFiniteSet(Others)
      BY <1>1, <2>1, FS_Subset
    <3>2. QED BY <3>1, FS_CardinalityType
  <2>3. Cardinality(Bound) <= nGPUs
    BY <1>1 DEF Bindings
  <2>4. QED BY <1>1, <2>2, <2>3
<1>4. QED BY <1>2, <1>3 DEF DevicesNotOversubscribed

(* Never more than nCPUs chunks of cores are under way, nor more than      *)
(* nGPUs of accelerators, although the threads are not told apart.         *)
THEOREM NotOversubscribed == Spec => []DevicesNotOversubscribed
<1>1. Init => Bindings
  <2>1. SUFFICES ASSUME Init PROVE Bindings
    OBVIOUS
  <2>2. Bound = {} /\ nAcc = nGPUs
    BY <2>1 DEF Init, Bound
  <2>3. Cardinality(Bound) = 0
    BY <2>2, FS_EmptySet
  <2>4. \A t \in Threads : bundle[t].type = -1
    BY <2>1 DEF Init, NoBundle
  <2>5. QED BY <2>2, <2>3, <2>4 DEF Bindings, Busy, CPU
<1>2. IInv /\ Bindings => DevicesNotOversubscribed
  BY BindingsSuffice
<1>3. QED BY <1>1, <1>2, NextBindings, Invariance, PTL DEF Spec

-----------------------------------------------------------------------------
(* Without accelerators the schedule is guided.                            *)

GuidedNext == Min2(Max2(Remaining \div nCPUs, 1), Remaining)
Size(t) == bundle[t].end - bundle[t].begin

(* No chunk under way is shorter than the next one, or than a later one.   *)
Shrinking ==
  nGPUs = 0 =>
    /\ \A t \in Threads : Busy(t) => GuidedNext <= Size(t)
    /\ \A t, u \in Threads :
         Busy(t) /\ Busy(u) /\ bundle[t].begin < bundle[u].begin => Size(u) <= Size(t)

(* A share of less is not more. *)
LEMMA DivMonotone ==
  ASSUME NEW a \in Nat, NEW b \in Nat, a <= b, NEW n \in Nat \ {0}
  PROVE  a \div n <= b \div n
OBVIOUS

(* The next chunk is no longer than the one taken before it. *)
LEMMA NextShrinks ==
  ASSUME NEW r \in Nat, NEW n \in Nat \ {0}, NEW l \in Nat,
         l = Min2(Max2(r \div n, 1), r)
  PROVE  /\ l <= r
         /\ Min2(Max2((r - l) \div n, 1), r - l) <= l
<1> DEFINE q == r \div n
           p == (r - l) \div n
<1>1. q \in Nat /\ l <= r
  <2>1. q \in Nat
    BY DivNat
  <2>2. l = Min2(Max2(q, 1), r)
    OBVIOUS
  <2> HIDE DEF q
  <2>3. QED BY <2>1, <2>2 DEF Min2, Max2
<1>2. r - l \in Nat /\ r - l <= r
  BY <1>1
<1>3. p \in Nat /\ p <= q
  BY <1>2, DivNat, DivMonotone
<1>4. l = Min2(Max2(q, 1), r)
  OBVIOUS
<1> HIDE DEF p, q
<1>5. Min2(Max2(p, 1), r - l) <= l
  BY <1>1, <1>2, <1>3, <1>4 DEF Min2, Max2
<1>6. QED BY <1>1, <1>5 DEF p

(* Every step keeps the chunks shrinking. *)
LEMMA NextShrinking == IInv /\ Shrinking /\ [Next]_vars => Shrinking'
<1> SUFFICES ASSUME IInv, Shrinking, [Next]_vars, nGPUs = 0 PROVE Shrinking'
  BY DEF Shrinking
<1>1. TypeOK /\ HeldBelow /\ Quiet
  BY DEF IInv
<1>2. nCPUs \in Nat \ {0}
  OBVIOUS
<1>3. ASSUME NEW t \in Threads, SerialFilterCPU(t) PROVE Shrinking'
  <2> DEFINE e == ChunkEnd(NextChunkCPU(t))
  <2>1. begin' = e /\ bundle' = [bundle EXCEPT ![t] = [begin |-> begin, end |-> e, type |-> CPU]]
    BY <1>3 DEF SerialFilterCPU, Claim
  <2>2. Remaining \in Nat /\ begin \in Nat /\ Last \in Nat
    BY <1>1 DEF TypeOK, Remaining
  <2>3. Remaining \div nCPUs \in Nat
    BY <1>2, <2>2, DivNat
  <2>4. NextChunkCPU(t) = Max2(Remaining \div nCPUs, 1)
    BY DEF NextChunkCPU
  <2>5. e - begin = GuidedNext /\ GuidedNext \in Nat /\ Last - e = Remaining - GuidedNext
        /\ e \in Nat
    <3> DEFINE share == Remaining \div nCPUs
    <3>1. e = Min2(begin + Max2(share, 1), Last)
          /\ GuidedNext = Min2(Max2(share, 1), Remaining)
      BY <2>4 DEF ChunkEnd, GuidedNext
    <3>2. share \in Nat
      BY <2>3
    <3> HIDE DEF share, e
    <3>3. Remaining = Last - begin
      BY DEF Remaining
    <3>4. QED BY <2>2, <3>1, <3>2, <3>3 DEF Min2, Max2
  <2> HIDE DEF e
  <2>6. GuidedNext' <= GuidedNext /\ GuidedNext' \in Int
    <3>1. Remaining' = Remaining - GuidedNext
      BY <2>1, <2>5 DEF Remaining
    <3>2. GuidedNext' = Min2(Max2((Remaining - GuidedNext) \div nCPUs, 1), Remaining - GuidedNext)
      BY <3>1 DEF GuidedNext
    <3> DEFINE r == Remaining
               l == GuidedNext
    <3>3. l = Min2(Max2(r \div nCPUs, 1), r)
      BY DEF GuidedNext
    <3>4. r \in Nat /\ l \in Nat
      BY <2>2, <2>5
    <3> HIDE DEF r, l
    <3>5. l <= r /\ Min2(Max2((r - l) \div nCPUs, 1), r - l) <= l
      BY <1>2, <3>3, <3>4, NextShrinks
    <3>6. (r - l) \div nCPUs \in Nat /\ r - l \in Nat
      BY <1>2, <3>4, <3>5, DivNat
    <3>7. Min2(Max2((r - l) \div nCPUs, 1), r - l) \in Int
      BY <3>6 DEF Min2, Max2
    <3>8. QED BY <3>2, <3>5, <3>7 DEF r, l
  <2>7. bundle'[t] = [begin |-> begin, end |-> e, type |-> CPU]
        /\ \A u \in Threads \ {t} : bundle'[u] = bundle[u]
    BY <1>1, <2>1 DEF TypeOK
  <2>8. Size(t)' = GuidedNext /\ \A u \in Threads \ {t} : Size(u)' = Size(u)
    BY <2>5, <2>7 DEF Size
  <2>9. \A u \in Threads \ {t} : Busy(u)' <=> Busy(u)
    BY <2>7 DEF Busy
  <2>10. \A u \in Threads : Size(u) \in Int /\ bundle[u].begin \in Int /\ bundle[u].end \in Int
    BY <1>1 DEF TypeOK, Size
  <2>11. ASSUME NEW u \in Threads, Busy(u)' PROVE GuidedNext' <= Size(u)'
    <3>1. CASE u = t
      BY <2>6, <2>8, <3>1
    <3>2. CASE u # t
      <4>1. GuidedNext <= Size(u) /\ Size(u)' = Size(u)
        BY <2>8, <2>9, <2>11, <3>2 DEF Shrinking
      <4>2. QED BY <2>5, <2>6, <2>10, <4>1
    <3>3. QED BY <3>1, <3>2
  <2>12. ASSUME NEW u \in Threads, NEW v \in Threads, Busy(u)', Busy(v)',
                bundle'[u].begin < bundle'[v].begin
         PROVE  Size(v)' <= Size(u)'
    <3>1. u # v
      BY <2>10, <2>12, <2>2, <2>7
    <3>2. CASE v = t
      <4>1. Busy(u) /\ Size(u)' = Size(u) /\ GuidedNext <= Size(u)
        BY <2>8, <2>9, <2>12, <3>1, <3>2 DEF Shrinking
      <4>2. QED BY <2>8, <3>2, <4>1
    <3>3. CASE u = t
      <4>1. Busy(v) /\ bundle'[v] = bundle[v] /\ bundle'[u].begin = begin
        BY <2>7, <2>9, <2>12, <3>1, <3>3
      <4>2. bundle[v].begin <= bundle[v].end /\ bundle[v].end <= begin
        BY <1>1, <4>1 DEF HeldBelow
      <4>3. QED BY <2>2, <2>10, <2>12, <4>1, <4>2
    <3>4. CASE u # t /\ v # t
      BY <2>7, <2>8, <2>9, <2>12, <3>4 DEF Shrinking
    <3>5. QED BY <3>2, <3>3, <3>4
  <2>13. QED BY <2>11, <2>12 DEF Shrinking
<1>4. ASSUME NEW t \in Threads, SerialFilterGPU(t) PROVE FALSE
  <2>1. BindAccelerator(t) /\ myAccId'[t] # 0
    BY <1>4 DEF SerialFilterGPU
  <2>2. myAccId'[t] \in 0..nGPUs
    BY <2>1, BindKeeps
  <2>3. QED BY <2>1, <2>2
<1>5. ASSUME NEW t \in Threads, OperatorGPU(t) \/ OperatorCPU(t) PROVE Shrinking'
  <2>1. begin' = begin /\ bundle' = [bundle EXCEPT ![t] = NoBundle]
    BY <1>5 DEF OperatorGPU, OperatorCPU, Release
  <2>2. ~ Busy(t)' /\ \A u \in Threads \ {t} : bundle'[u] = bundle[u]
    BY <1>1, <2>1 DEF TypeOK, NoBundle, Busy
  <2>3. GuidedNext' = GuidedNext
    BY <2>1 DEF GuidedNext, Remaining
  <2>4. \A u \in Threads \ {t} : Size(u)' = Size(u) /\ (Busy(u)' <=> Busy(u))
    BY <2>2 DEF Size, Busy
  <2>5. QED BY <2>2, <2>3, <2>4 DEF Shrinking
<1>6. CASE ParallelForCall
  <2>1. \A t \in Threads : ~ Busy(t)'
    BY <1>1, <1>6 DEF ParallelForCall, Quiet, Busy
  <2>2. QED BY <2>1 DEF Shrinking
<1>7. CASE (\E t \in Threads : SerialFilterEnd(t)) \/ PipeReturn \/ UNCHANGED vars
  <2>1. UNCHANGED <<begin, bundle>>
    BY <1>7 DEF SerialFilterEnd, PipeReturn, vars
  <2>2. QED BY <2>1 DEF Shrinking, GuidedNext, Remaining, Size, Busy
<1>8. QED BY <1>3, <1>4, <1>5, <1>6, <1>7 DEF Next

(* Without accelerators a later chunk is never the longer one. *)
THEOREM Guided == Spec => []GuidedShrinks
<1>1. Init => Shrinking
  BY DEF Init, Shrinking, Busy, NoBundle
<1>2. Shrinking => GuidedShrinks
  BY DEF Shrinking, GuidedShrinks, Size
<1>3. QED BY <1>1, <1>2, NextShrinking, Invariance, PTL DEF Spec

-----------------------------------------------------------------------------
(* The scheduler implements the promise of heterogeneous_parallel_for.     *)

(* Running a held chunk is one Execute of the promise. *)
LEMMA RunIsExecute ==
  ASSUME IInv, NEW t \in Threads, Busy(t), RunChunk(Held(t)), UNCHANGED inCall
  PROVE  PF!Next
<1>1. TypeOK /\ RunOnce /\ HeldBelow /\ Quiet
  BY DEF IInv
<1>2. inCall /\ UNCHANGED inCall
  BY <1>1 DEF Quiet
<1>3. Held(t) \subseteq Space
  <2>1. /\ bundle[t].begin \in First..Last /\ bundle[t].end \in First..Last
        /\ First \in Int /\ Last \in Int
    BY <1>1 DEF TypeOK
  <2>2. QED BY <2>1 DEF Held, Space
<1>4. \A i \in Held(t) : times[i] = 0
  BY <1>1, <1>3 DEF RunOnce
<1>5. Held(t) \in SUBSET Space /\ Held(t) \subseteq PF!Pending
  BY <1>3, <1>4 DEF PF!Pending
<1>6. times' = [i \in Space |-> IF i \in Held(t) THEN 1 ELSE times[i]]
  BY <1>4 DEF RunChunk
<1>7. PF!Execute(Held(t))
  BY <1>2, <1>5, <1>6 DEF PF!Execute
<1>8. QED BY <1>5, <1>7 DEF PF!Next

(* The initial states and the steps of the scheduler are states and steps  *)
(* of the promise; taking a chunk or ending the input is invisible in it.  *)
THEOREM ImplementsPromise == Spec => Implements
<1>1. Init => PF!Init
  BY DEF Init, PF!Init
<1>2. IInv /\ [Next]_vars => [PF!Next]_(PF!vars)
  <2> SUFFICES ASSUME IInv, [Next]_vars PROVE [PF!Next]_(PF!vars)
    OBVIOUS
  <2>1. CASE ParallelForCall
    BY <2>1 DEF ParallelForCall, PF!Start, PF!Next
  <2>2. CASE \E t \in Threads : SerialFilterGPU(t)
    BY <2>2 DEF SerialFilterGPU, PF!vars
  <2>3. CASE \E t \in Threads : SerialFilterCPU(t)
    BY <2>3 DEF SerialFilterCPU, PF!vars
  <2>4. CASE \E t \in Threads : SerialFilterEnd(t)
    BY <2>4 DEF SerialFilterEnd, PF!vars
  <2>5. CASE \E t \in Threads : OperatorGPU(t)
    <3>1. PICK t \in Threads : OperatorGPU(t)
      BY <2>5
    <3>2. Busy(t) /\ RunChunk(Held(t)) /\ UNCHANGED inCall
      BY <3>1, DispatchedHeld DEF OperatorGPU, IInv
    <3>3. QED BY <3>2, RunIsExecute
  <2>6. CASE \E t \in Threads : OperatorCPU(t)
    BY <2>6, RunIsExecute DEF OperatorCPU
  <2>7. CASE PipeReturn
    <3>1. \A i \in Space : times[i] = 1
      BY <2>7, DrainedComplete DEF PipeReturn
    <3>2. PF!Pending = {}
      BY <3>1 DEF PF!Pending
    <3>3. inCall /\ inCall' = FALSE /\ UNCHANGED times
      BY <2>7 DEF PipeReturn
    <3>4. QED BY <3>2, <3>3 DEF PF!Return, PF!Next
  <2>8. CASE UNCHANGED vars
    BY <2>8 DEF vars, PF!vars
  <2>9. QED BY <2>1, <2>2, <2>3, <2>4, <2>5, <2>6, <2>7, <2>8 DEF Next
<1>3. QED BY <1>1, <1>2, Invariance, PTL DEF Spec, Implements, PF!Spec

-----------------------------------------------------------------------------
(* Every call is over after finitely many steps.                           *)

Workers == {t \in Threads : Busy(t)}

(* The most steps a call takes, from its start. *)
MostSteps == 2 * (Last - First) + 2

(* The rest of the space has a natural number of iterations. *)
LEMMA RestNat ==
  ASSUME NEW b \in First..Last
  PROVE  Last - b \in Nat
OBVIOUS

(* The threads with a chunk, and their number. *)
LEMMA WorkersFinite == IsFiniteSet(Workers) /\ Cardinality(Workers) \in Nat
<1>1. IsFiniteSet(Workers)
  BY FS_Subset DEF Workers
<1>2. QED BY <1>1, FS_CardinalityType

(* What is left of a call is a natural number. *)
LEMMA StepsLeftNat ==
  ASSUME TypeOK
  PROVE  /\ Remaining \in Nat
         /\ StepsLeft = 2 * Remaining + Cardinality(Workers)
                          + (IF eof THEN 0 ELSE 1) + (IF inCall THEN 1 ELSE 0)
         /\ StepsLeft \in Nat
<1>1. Remaining \in Nat
  BY DEF TypeOK, Remaining
<1>2. StepsLeft = 2 * Remaining + Cardinality(Workers)
                    + (IF eof THEN 0 ELSE 1) + (IF inCall THEN 1 ELSE 0)
  BY DEF StepsLeft, Workers
<1>3. QED BY <1>1, <1>2, WorkersFinite

(* The partitioner never makes a chunk for a core empty. *)
LEMMA NextChunkPositive ==
  ASSUME TypeOK, NEW t \in Threads
  PROVE  NextChunkCPU(t) > 0
<1>1. nGPUs = 0 => nCPUs > 0
  OBVIOUS
<1>2. NextChunkCPU(t) \in Nat
  BY <1>1, NextChunkNat
<1>3. CASE nGPUs = 0
  <2>1. NextChunkCPU(t) = Max2(Remaining \div nCPUs, 1)
    BY <1>3 DEF NextChunkCPU
  <2>2. Remaining \div nCPUs \in Nat
    <3>1. Remaining \in Nat /\ nCPUs \in Nat \ {0}
      BY <1>3 DEF TypeOK, Remaining
    <3>2. QED BY <3>1, DivNat
  <2>3. QED BY <2>1, <2>2 DEF Max2
<1>4. CASE nGPUs # 0
  <2>1. NextChunkCPU(t) # 0
    BY <1>4 DEF NextChunkCPU
  <2>2. QED BY <1>2, <2>1
<1>5. QED BY <1>3, <1>4

(* Taking a chunk that is not empty shortens the call: the chunk costs one *)
(* step more, each of its iterations two less.                             *)
LEMMA ClaimShortens ==
  ASSUME IInv, NEW t \in Threads, ~ Busy(t), begin < Last,
         NEW size \in Nat \ {0}, NEW k \in 0..nGPUs,
         Claim(t, ChunkEnd(size), k), UNCHANGED <<inCall, eof>>,
         TypeOK'
  PROVE  StepsLeft' < StepsLeft
<1>1. TypeOK
  BY DEF IInv
<1>2. begin' = ChunkEnd(size) /\ begin \in Int /\ Last \in Int
  BY <1>1 DEF Claim, TypeOK
<1>3. ChunkEnd(size) > begin
  BY <1>2 DEF ChunkEnd, Min2
<1>4. Remaining' < Remaining
  <2>1. Remaining = Last - begin /\ Remaining' = Last - begin'
    BY DEF Remaining
  <2>2. begin' \in Int
    BY DEF TypeOK
  <2>3. QED BY <1>2, <1>3, <2>1, <2>2
<1>5. Workers' = Workers \union {t} /\ t \notin Workers
  <2>1. bundle'[t].type = k /\ \A u \in Threads \ {t} : bundle'[u] = bundle[u]
    BY <1>1 DEF TypeOK, Claim
  <2>2. Busy(t)' /\ \A u \in Threads \ {t} : Busy(u)' <=> Busy(u)
    BY <2>1 DEF Busy
  <2>3. QED BY <2>2 DEF Workers
<1>6. Cardinality(Workers') = Cardinality(Workers) + 1
  BY <1>5, WorkersFinite, FS_AddElement
<1>7. /\ StepsLeft = 2 * Remaining + Cardinality(Workers)
                       + (IF eof THEN 0 ELSE 1) + (IF inCall THEN 1 ELSE 0)
      /\ Remaining \in Nat
  BY <1>1, StepsLeftNat
<1>8. /\ StepsLeft' = 2 * Remaining' + Cardinality(Workers')
                        + (IF eof THEN 0 ELSE 1) + (IF inCall THEN 1 ELSE 0)
      /\ Remaining' \in Nat
  <2>1. Remaining' \in Nat
    <3>1. begin' \in First..Last /\ Remaining' = Last - begin'
      BY DEF TypeOK, Remaining
    <3>2. QED BY <3>1, RestNat
  <2>2. QED BY <2>1 DEF StepsLeft, Workers
<1>9. Cardinality(Workers) \in Nat
  BY WorkersFinite
<1>10. QED BY <1>4, <1>6, <1>7, <1>8, <1>9

(* So does running one. *)
LEMMA ReleaseShortens ==
  ASSUME IInv, NEW t \in Threads, Busy(t), Release(t), UNCHANGED <<inCall, eof, begin>>
  PROVE  StepsLeft' < StepsLeft
<1>1. TypeOK
  BY DEF IInv
<1>2. Workers' = Workers \ {t} /\ t \in Workers
  <2>1. bundle'[t] = NoBundle /\ \A u \in Threads \ {t} : bundle'[u] = bundle[u]
    BY <1>1 DEF TypeOK, Release
  <2>2. ~ Busy(t)' /\ \A u \in Threads \ {t} : Busy(u)' <=> Busy(u)
    BY <2>1 DEF Busy, NoBundle
  <2>3. QED BY <2>2 DEF Workers
<1>3. Cardinality(Workers') = Cardinality(Workers) - 1
  BY <1>2, WorkersFinite, FS_RemoveElement
<1>4. /\ StepsLeft = 2 * Remaining + Cardinality(Workers)
                       + (IF eof THEN 0 ELSE 1) + (IF inCall THEN 1 ELSE 0)
      /\ Remaining \in Nat
  BY <1>1, StepsLeftNat
<1>5. StepsLeft' = 2 * Remaining + Cardinality(Workers')
                     + (IF eof THEN 0 ELSE 1) + (IF inCall THEN 1 ELSE 0)
  BY DEF StepsLeft, Workers, Remaining
<1>6. QED BY <1>3, <1>4, <1>5, WorkersFinite

(* Every step inside a call shortens it, if accelerator chunks are not     *)
(* empty (with chunks of 0 the call does not return at all).               *)
LEMMA StepShortens ==
  ASSUME ChunkGPU > 0 \/ nGPUs = 0, IInv, Next, inCall
  PROVE  StepsLeft' < StepsLeft
<1>1. TypeOK /\ TypeOK'
  BY NextIInv DEF IInv
<1>2. ASSUME NEW t \in Threads, SerialFilterGPU(t) PROVE StepsLeft' < StepsLeft
  <2>1. /\ ~ Busy(t) /\ begin < Last /\ myAccId'[t] # 0 /\ UNCHANGED <<inCall, eof>>
        /\ Claim(t, ChunkEnd(ChunkGPU), myAccId'[t])
    BY <1>2 DEF SerialFilterGPU, MayEnter
  <2>2. myAccId'[t] \in 0..nGPUs
    BY <1>1 DEF TypeOK
  <2>3. ChunkGPU \in Nat \ {0}
    BY <2>1, <2>2
  <2>4. QED BY <1>1, <2>1, <2>2, <2>3, ClaimShortens
<1>3. ASSUME NEW t \in Threads, SerialFilterCPU(t) PROVE StepsLeft' < StepsLeft
  <2>1. /\ ~ Busy(t) /\ begin < Last /\ UNCHANGED <<inCall, eof>>
        /\ Claim(t, ChunkEnd(NextChunkCPU(t)), CPU)
    BY <1>3 DEF SerialFilterCPU, MayEnter
  <2>2. NextChunkCPU(t) \in Nat \ {0}
    BY <1>1, NextChunkNat, NextChunkPositive
  <2>3. CPU \in 0..nGPUs
    BY DEF CPU
  <2>4. QED BY <1>1, <2>1, <2>2, <2>3, ClaimShortens
<1>4. ASSUME NEW t \in Threads, SerialFilterEnd(t) PROVE StepsLeft' < StepsLeft
  <2>1. ~ eof /\ eof' = TRUE /\ UNCHANGED <<inCall, begin, bundle>>
    BY <1>4 DEF SerialFilterEnd, MayEnter
  <2>2. StepsLeft = 2 * Remaining + Cardinality(Workers) + 1 + (IF inCall THEN 1 ELSE 0)
    BY <1>1, <2>1, StepsLeftNat
  <2>3. StepsLeft' = 2 * Remaining + Cardinality(Workers) + 0 + (IF inCall THEN 1 ELSE 0)
    BY <2>1 DEF StepsLeft, Workers, Remaining, Busy
  <2>4. Remaining \in Nat /\ Cardinality(Workers) \in Nat
    BY <1>1, StepsLeftNat, WorkersFinite
  <2>5. QED BY <2>2, <2>3, <2>4
<1>5. ASSUME NEW t \in Threads, OperatorGPU(t) \/ OperatorCPU(t) PROVE StepsLeft' < StepsLeft
  <2>1. Busy(t) /\ Release(t) /\ UNCHANGED <<inCall, eof, begin>>
    BY <1>5 DEF OperatorGPU, OperatorCPU
  <2>2. QED BY <2>1, ReleaseShortens
<1>6. CASE PipeReturn
  <2>1. inCall' = FALSE /\ UNCHANGED <<eof, begin, bundle>>
    BY <1>6 DEF PipeReturn
  <2>2. StepsLeft = 2 * Remaining + Cardinality(Workers) + (IF eof THEN 0 ELSE 1) + 1
    BY <1>1, StepsLeftNat
  <2>3. StepsLeft' = 2 * Remaining + Cardinality(Workers) + (IF eof THEN 0 ELSE 1) + 0
    BY <2>1 DEF StepsLeft, Workers, Remaining, Busy
  <2>4. Remaining \in Nat /\ Cardinality(Workers) \in Nat
    BY <1>1, StepsLeftNat, WorkersFinite
  <2>5. QED BY <2>2, <2>3, <2>4
<1>7. ~ ParallelForCall
  BY DEF ParallelForCall
<1>8. QED BY <1>2, <1>3, <1>4, <1>5, <1>6, <1>7 DEF Next

(* A call starts with MostSteps steps before it. *)
LEMMA CallSteps ==
  ASSUME IInv, ParallelForCall
  PROVE  StepsLeft' = MostSteps
<1>1. begin' = First /\ ~ eof' /\ inCall' /\ bundle' = bundle
  BY DEF ParallelForCall
<1>2. Workers' = {}
  BY <1>1 DEF IInv, Quiet, ParallelForCall, Workers, Busy
<1>3. Cardinality(Workers') = 0
  BY <1>2, FS_EmptySet
<1>4. StepsLeft' = 2 * (Last - First) + Cardinality(Workers') + 1 + 1
  BY <1>1 DEF StepsLeft, Remaining, Workers
<1>5. QED BY <1>3, <1>4 DEF MostSteps

(* A call takes at most MostSteps steps, whichever threads take them: each *)
(* uses up one, there are never more left, and never fewer than none.      *)
THEOREM CallIsFinite ==
  ASSUME ChunkGPU > 0 \/ nGPUs = 0
  PROVE  Spec => CallShortens /\ [](StepsLeft \in 0..MostSteps)
<1>1. Init => StepsLeft \in 0..MostSteps
  <2>1. SUFFICES ASSUME Init PROVE StepsLeft \in 0..MostSteps
    OBVIOUS
  <2>2. Workers = {} /\ eof /\ ~ inCall /\ Remaining = 0
    BY <2>1 DEF Init, Workers, Busy, NoBundle, Remaining
  <2>3. Cardinality(Workers) = 0
    BY <2>2, FS_EmptySet
  <2>4. StepsLeft = 0
    BY <2>2, <2>3 DEF StepsLeft, Workers
  <2>5. QED BY <2>4 DEF MostSteps
<1>2. IInv /\ [Next]_vars => [inCall => StepsLeft' < StepsLeft]_vars
  BY StepShortens
<1>3. IInv /\ IInv' /\ StepsLeft \in 0..MostSteps /\ [Next]_vars
        => (StepsLeft \in 0..MostSteps)'
  <2> SUFFICES ASSUME IInv, IInv', StepsLeft \in 0..MostSteps, [Next]_vars
               PROVE  StepsLeft' \in 0..MostSteps
    BY DEF MostSteps
  <2>1. StepsLeft' \in Nat
    <3>1. Remaining' \in Nat
      <4>1. begin' \in First..Last
        BY DEF IInv, TypeOK
      <4>2. Remaining' = Last - begin'
        BY DEF Remaining
      <4>3. QED BY <4>1, <4>2, RestNat
    <3>2. Workers' \subseteq Threads
      BY DEF Workers
    <3>3. IsFiniteSet(Workers')
      BY <3>2, FS_Subset
    <3>4. Cardinality(Workers') \in Nat
      BY <3>3, FS_CardinalityType
    <3>5. StepsLeft' = 2 * Remaining' + Cardinality(Workers')
                         + (IF eof' THEN 0 ELSE 1) + (IF inCall' THEN 1 ELSE 0)
      BY DEF StepsLeft, Workers
    <3>6. QED BY <3>1, <3>4, <3>5
  <2>2. MostSteps \in Nat
    BY DEF MostSteps
  <2>3. CASE Next /\ inCall
    <3>1. StepsLeft' < StepsLeft
      BY <2>3, StepShortens
    <3>2. QED BY <2>1, <2>2, <3>1
  <2>4. CASE Next /\ ~ inCall
    <3>1. ParallelForCall
      BY <2>4 DEF Next, SerialFilterGPU, SerialFilterCPU, SerialFilterEnd, MayEnter,
                  OperatorGPU, OperatorCPU, PipeReturn, IInv, Quiet
    <3>2. QED BY <2>2, <3>1, CallSteps
  <2>5. CASE UNCHANGED vars
    <3>1. StepsLeft' = StepsLeft
      BY <2>5 DEF vars, StepsLeft, Remaining, Busy
    <3>2. QED BY <3>1
  <2>6. QED BY <2>3, <2>4, <2>5
<1>4. QED BY <1>1, <1>2, <1>3, Invariance, PTL DEF Spec, CallShortens

-----------------------------------------------------------------------------
(* The scheduler is a pipeline.                                            *)

HeldBy == [t \in Threads |-> Held(t)]

P == INSTANCE Pipeline WITH held <- HeldBy

(* Leaving the serial stage with a Bundle is taking its iterations. *)
LEMMA ClaimTakes ==
  ASSUME IInv, NEW t \in Threads, MayEnter(t), NEW size \in Nat, NEW type,
         Claim(t, ChunkEnd(size), type), UNCHANGED <<inCall, eof, times>>
  PROVE  P!Next
<1>1. TypeOK /\ HeldBelow
  BY DEF IInv
<1>2. ChunkEnd(size) \in begin..Last /\ ChunkEnd(size) \in First..Last
  BY <1>1 DEF ChunkEnd, Min2, TypeOK
<1> DEFINE e == ChunkEnd(size)
<1>3. HeldBy[t] = {}
  BY <1>1 DEF HeldBy, Held, MayEnter, HeldBelow, NoBundle
<1>4. HeldBy' = [HeldBy EXCEPT ![t] = begin..(e - 1)]
  <2>1. bundle' = [bundle EXCEPT ![t] = [begin |-> begin, end |-> e, type |-> type]]
    BY DEF Claim
  <2>2. Held(t)' = begin..(e - 1)
    BY <1>1, <2>1 DEF Held, TypeOK
  <2>3. \A u \in Threads \ {t} : Held(u)' = Held(u)
    BY <1>1, <2>1 DEF Held, TypeOK
  <2>4. QED BY <2>2, <2>3 DEF HeldBy
<1>5. P!Take(t, e)
  BY <1>2, <1>3, <1>4 DEF P!Take, Claim, MayEnter
<1>6. QED BY <1>2, <1>5 DEF P!Next

(* Running a chunk is running what is held, on either device. *)
LEMMA ReleaseRuns ==
  ASSUME IInv, NEW t \in Threads, RunChunk(Held(t)), Release(t),
         UNCHANGED <<inCall, begin, eof>>
  PROVE  P!Next
<1>1. TypeOK
  BY DEF IInv
<1>2. HeldBy' = [HeldBy EXCEPT ![t] = {}]
  <2>1. bundle' = [bundle EXCEPT ![t] = NoBundle]
    BY DEF Release
  <2>2. Held(t)' = {}
    BY <1>1, <2>1 DEF Held, NoBundle, TypeOK
  <2>3. \A u \in Threads \ {t} : Held(u)' = Held(u)
    BY <1>1, <2>1 DEF Held, TypeOK
  <2>4. QED BY <2>2, <2>3 DEF HeldBy
<1>3. HeldBy[t] = Held(t)
  BY DEF HeldBy
<1>4. P!Run(t)
  BY <1>2, <1>3 DEF P!Run, RunChunk, Space, P!Space
<1>5. QED BY <1>4 DEF P!Next

(* Binding, throughputs and sizes do not matter to the pipeline: every     *)
(* step of the scheduler is one of its steps, or invisible in it.          *)
THEOREM ImplementsPipeline == Spec => P!Spec
<1>1. Init => P!Init
  BY DEF Init, P!Init, HeldBy, Held, NoBundle, Space, P!Space
<1>2. IInv /\ [Next]_vars => [P!Next]_(P!vars)
  <2> SUFFICES ASSUME IInv, [Next]_vars PROVE [P!Next]_(P!vars)
    OBVIOUS
  <2>1. TypeOK /\ HeldBelow
    BY DEF IInv
  <2>2. CASE ParallelForCall
    <3>1. HeldBy' = HeldBy
      BY <2>2 DEF ParallelForCall, HeldBy, Held
    <3>2. P!Call
      BY <2>2, <3>1 DEF ParallelForCall, P!Call, Space, P!Space
    <3>3. QED BY <3>2 DEF P!Next
  <2>3. ASSUME NEW t \in Threads, SerialFilterGPU(t) PROVE P!Next
    <3>1. MayEnter(t) /\ UNCHANGED <<inCall, eof, times>>
          /\ Claim(t, ChunkEnd(ChunkGPU), myAccId'[t]) /\ ChunkGPU \in Nat
      BY <2>3 DEF SerialFilterGPU
    <3>2. QED BY <3>1, ClaimTakes
  <2>4. ASSUME NEW t \in Threads, SerialFilterCPU(t) PROVE P!Next
    <3>1. MayEnter(t) /\ UNCHANGED <<inCall, eof, times>>
          /\ Claim(t, ChunkEnd(NextChunkCPU(t)), CPU)
      BY <2>4 DEF SerialFilterCPU
    <3>2. NextChunkCPU(t) \in Nat
      BY <2>1, NextChunkNat
    <3>3. QED BY <3>1, <3>2, ClaimTakes
  <2>5. CASE \E t \in Threads : SerialFilterEnd(t)
    <3>1. begin = Last /\ inCall /\ ~ eof
      BY <2>1, <2>5 DEF SerialFilterEnd, MayEnter, TypeOK
    <3>2. P!End
      BY <2>5, <3>1 DEF SerialFilterEnd, P!End, HeldBy, Held
    <3>3. QED BY <3>2 DEF P!Next
  <2>6. ASSUME NEW t \in Threads, OperatorGPU(t) \/ OperatorCPU(t) PROVE P!Next
    <3>1. RunChunk(Held(t)) /\ Release(t) /\ UNCHANGED <<inCall, begin, eof>>
      BY <2>6, DispatchedHeld DEF OperatorGPU, OperatorCPU, IInv
    <3>2. QED BY <3>1, ReleaseRuns
  <2>7. CASE PipeReturn
    <3>1. HeldBy' = HeldBy /\ \A t \in Threads : HeldBy[t] = {}
      BY <2>1, <2>7 DEF PipeReturn, HeldBelow, HeldBy, Held, NoBundle
    <3>2. P!Return
      BY <2>7, <3>1 DEF PipeReturn, P!Return
    <3>3. QED BY <3>2 DEF P!Next
  <2>8. CASE UNCHANGED vars
    BY <2>8 DEF vars, P!vars, HeldBy, Held
  <2>9. QED BY <2>2, <2>3, <2>4, <2>5, <2>6, <2>7, <2>8 DEF Next
<1>3. QED BY <1>1, <1>2, Invariance, PTL DEF Spec, P!Spec

=============================================================================
