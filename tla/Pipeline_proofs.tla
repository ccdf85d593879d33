---------------------------- MODULE Pipeline_proofs ----------------------------
(***************************************************************************)
(* What the pipeline guarantees whatever the chunks are: proved once here  *)
(* and used, through an instance of this module, for the schedulers.       *)
(***************************************************************************)
EXTENDS Pipeline, TLAPS

Bounds == First \in Int /\ Last \in Int /\ First <= Last

TypeOK ==
  /\ inCall \in BOOLEAN
  /\ begin \in First..Last
  /\ eof \in BOOLEAN
  /\ held \in [Threads -> SUBSET Space]
  /\ times \in [Space -> Nat]

(* Exactly the iterations in front of begin that nobody holds were run,    *)
(* and those once.                                                         *)
RunOnce ==
  \A i \in Space :
    times[i] = IF i < begin /\ \A t \in Threads : i \notin held[t] THEN 1 ELSE 0

(* What is held lies in front of begin, and is held by one thread. *)
HeldApart ==
  /\ \A t \in Threads : \A i \in held[t] : i < begin
  /\ \A t, u \in Threads : t # u => held[t] \intersect held[u] = {}

(* Nothing is left to give after the end, or held outside a call. *)
Quiet ==
  /\ eof => begin = Last
  /\ ~ inCall => eof /\ \A t \in Threads : held[t] = {}

Inv == TypeOK /\ RunOnce /\ HeldApart /\ Quiet

(* No call yet. *)
LEMMA InitInv == Bounds /\ Init => Inv
<1> SUFFICES ASSUME Bounds, Init PROVE Inv
  OBVIOUS
<1>1. TypeOK
  <2>0. inCall \in BOOLEAN /\ eof \in BOOLEAN
    BY DEF Init
  <2>1. begin \in First..Last
    BY DEF Bounds, Init
  <2>2. held \in [Threads -> SUBSET Space] /\ times \in [Space -> Nat]
    BY DEF Init
  <2>3. QED BY <2>0, <2>1, <2>2 DEF TypeOK
<1>2. RunOnce
  BY DEF Bounds, Init, RunOnce, Space
<1>3. HeldApart /\ Quiet
  BY DEF Init, HeldApart, Quiet
<1>4. QED BY <1>1, <1>2, <1>3 DEF Inv

(* Every step keeps the invariant. *)
LEMMA NextInv == Bounds /\ Inv /\ [Next]_vars => Inv'
<1> SUFFICES ASSUME Bounds, Inv, [Next]_vars PROVE Inv'
  OBVIOUS
<1> USE DEF Bounds, Inv, TypeOK, RunOnce, HeldApart, Quiet, Space
<1>1. CASE Call
  <2>0. inCall' \in BOOLEAN /\ eof' \in BOOLEAN
    BY <1>1 DEF Call
  <2>1. begin' \in First..Last
    BY <1>1 DEF Call
  <2>2. times' \in [Space -> Nat] /\ held' \in [Threads -> SUBSET Space]
    BY <1>1 DEF Call
  <2>3. TypeOK' /\ Quiet'
    BY <1>1, <2>0, <2>1, <2>2 DEF Call
  <2>4. RunOnce'
    BY <1>1 DEF Call
  <2>5. held' = held /\ \A t \in Threads : held[t] = {}
    BY <1>1 DEF Call
  <2>6. HeldApart'
    BY <2>5
  <2>7. QED BY <2>3, <2>4, <2>6
<1>2. ASSUME NEW t \in Threads, NEW e \in First..Last, Take(t, e) PROVE Inv'
  <2>1. TypeOK'
    BY <1>2 DEF Take
  <2>2. HeldApart' /\ Quiet'
    BY <1>2 DEF Take
  <2>3. ASSUME NEW i \in Space
        PROVE  (i < begin' /\ \A u \in Threads : i \notin held'[u])
                 <=> (i < begin /\ \A u \in Threads : i \notin held[u])
    BY <1>2 DEF Take
  <2>4. RunOnce'
    BY <1>2, <2>3 DEF Take
  <2>5. QED BY <2>1, <2>2, <2>4
<1>3. CASE End
  BY <1>3 DEF End
<1>4. ASSUME NEW t \in Threads, Run(t) PROVE Inv'
  <2>1. TypeOK' /\ HeldApart' /\ Quiet'
    BY <1>4 DEF Run
  <2>2. ASSUME NEW i \in Space, i \in held[t]
        PROVE  times[i] = 0 /\ i < begin /\ \A u \in Threads : i \notin held'[u]
    BY <1>4, <2>2 DEF Run
  <2>3. ASSUME NEW i \in Space, i \notin held[t]
        PROVE  (\A u \in Threads : i \notin held'[u])
                 <=> (\A u \in Threads : i \notin held[u])
    BY <1>4, <2>3 DEF Run
  <2>4. RunOnce'
    BY <1>4, <2>2, <2>3 DEF Run
  <2>5. QED BY <2>1, <2>4
<1>5. CASE Return
  BY <1>5 DEF Return
<1>6. CASE UNCHANGED vars
  BY <1>6 DEF vars
<1>7. QED
  BY <1>1, <1>2, <1>3, <1>4, <1>5, <1>6 DEF Next

-----------------------------------------------------------------------------
(* The pipeline keeps the promise of heterogeneous_parallel_for.           *)

PF == INSTANCE ParallelFor WITH active <- inCall

(* No call yet, also for the promise. *)
LEMMA InitPromise == Init => PF!Init
  BY DEF Init, PF!Init

(* Running what is held is an Execute of the promise; taking a chunk and   *)
(* ending the input are invisible in it; returning is allowed by it.       *)
LEMMA NextPromise == Bounds /\ Inv /\ [Next]_vars => [PF!Next]_(PF!vars)
<1> SUFFICES ASSUME Bounds, Inv, [Next]_vars PROVE [PF!Next]_(PF!vars)
  OBVIOUS
<1> USE DEF Bounds, Inv, TypeOK, RunOnce, HeldApart, Quiet, Space
<1>1. CASE Call
  BY <1>1 DEF Call, PF!Start, PF!Next
<1>2. CASE \E t \in Threads, e \in First..Last : Take(t, e)
  BY <1>2 DEF Take, PF!vars
<1>3. CASE End
  BY <1>3 DEF End, PF!vars
<1>4. ASSUME NEW t \in Threads, Run(t) PROVE [PF!Next]_(PF!vars)
  <2>1. CASE held[t] = {}
    <3>1. times' = times /\ inCall' = inCall
      BY <1>4, <2>1 DEF Run
    <3>2. QED BY <3>1 DEF PF!vars
  <2>2. CASE held[t] # {}
    <3>1. inCall /\ UNCHANGED inCall
      BY <1>4, <2>2 DEF Run
    <3>2. held[t] \in SUBSET Space /\ \A i \in held[t] : times[i] = 0
      OBVIOUS
    <3>3. times' = [i \in Space |-> IF i \in held[t] THEN 1 ELSE times[i]]
      BY <1>4, <3>2 DEF Run
    <3>4. PF!Execute(held[t])
      BY <3>1, <3>2, <3>3 DEF PF!Execute, PF!Pending
    <3>5. QED BY <3>2, <3>4 DEF PF!Next
  <2>3. QED BY <2>1, <2>2
<1>5. CASE Return
  <2>1. \A i \in Space : times[i] = 1
    BY <1>5 DEF Return
  <2>2. PF!Pending = {}
    BY <2>1 DEF PF!Pending
  <2>3. QED BY <1>5, <2>2 DEF Return, PF!Return, PF!Next
<1>6. CASE UNCHANGED vars
  BY <1>6 DEF vars, PF!vars
<1>7. QED
  BY <1>1, <1>2, <1>3, <1>4, <1>5, <1>6 DEF Next

(* Whatever its chunks are, the pipeline implements the promise. *)
THEOREM PipelineImplements ==
  ASSUME Bounds
  PROVE  Spec => PF!Spec
<1>1. Init => Inv
  BY InitInv
<1>2. Inv /\ [Next]_vars => Inv'
  BY NextInv
<1>3. Init => PF!Init
  BY InitPromise
<1>4. Inv /\ [Next]_vars => [PF!Next]_(PF!vars)
  BY NextPromise
<1>5. QED BY <1>1, <1>2, <1>3, <1>4, PTL DEF Spec, PF!Spec

=============================================================================
