-------------------------- MODULE IrqOffload_proofs --------------------------
(***************************************************************************)
(* Proofs about the kernel call of the ZCU102 hosts, for every number of   *)
(* accelerators and calls, every descriptor and every TIMEOUT.             *)
(***************************************************************************)
EXTENDS IrqOffload, TLAPS

-----------------------------------------------------------------------------
(* The inductive invariant.                                                *)

(* The core is busy with a call exactly while its thread is in that call,  *)
(* and a register set by the latch stands only as long as the latch.       *)
InCall ==
  \A a \in Acc :
    /\ pc[a] = "idle" <=> core[a] = "idle"
    /\ slv_reg0[a] = 1 => latch[a]

(* A step of an interrupt of accelerator a that has not reached its flag.  *)
OnTheWay(a) == latch[a] \/ slv_reg0[a] = 1 \/ isr[a] = "cleared"

(* A thread that is to sleep or sleeps is waited for by somebody, unless   *)
(* another process has opened its driver; asleep with its flag set it is   *)
(* about to be woken.                                                      *)
WakeUpAhead ==
  \A a \in Acc :
    /\ pc[a] \in {"ioctl", "check", "asleep"} /\ "open" \notin disturbed[a] =>
         core[a] = "running" \/ OnTheWay(a) \/ flag[a] = 1
    /\ pc[a] = "asleep" /\ flag[a] = 1 => isr[a] = "flagged"

(* For a thread that sleeps alone there is one interrupt per call: it is   *)
(* nowhere before the core is done, in exactly one place from then on, and *)
(* consumed by the ioctl.                                                  *)
OnePerCall ==
  \A a \in Acc :
    SleepsAlone(a) =>
      /\ pc[a] \in {"idle", "sdsWait"} \/ core[a] = "running"
           => ~ OnTheWay(a) /\ flag[a] = 0
      /\ pc[a] = "awake" => flag[a] = 1
      /\ pc[a] = "sdsWait" => core[a] = "done"
      /\ isr[a] = "cleared" => ~ latch[a]
      /\ flag[a] = 1 => ~ OnTheWay(a) /\ core[a] = "done"
      /\ ~ early[a]

IInv == TypeOK /\ InCall /\ WakeUpAhead /\ OnePerCall

-----------------------------------------------------------------------------
(* The initial states satisfy the invariant. *)
LEMMA InitIInv == Init => IInv
<1> SUFFICES ASSUME Init PROVE IInv
  OBVIOUS
<1>1. TypeOK
  <2>1. Timeouts \subseteq Nat /\ IoctlFlags \subseteq BOOLEAN /\ MaxJobs \in Nat
    BY ConstantsAssumption DEF ConstantsAssumption
  <2>2. ioctl_flag \in BOOLEAN
    BY <2>1 DEF Init
  <2>3. TIMEOUT \in [Acc -> Nat]
    BY <2>1 DEF Init
  <2>4. QED BY <2>1, <2>2, <2>3 DEF Init, TypeOK
<1>2. InCall /\ WakeUpAhead
  BY DEF Init, InCall, WakeUpAhead, OnTheWay
<1>3. OnePerCall
  BY DEF Init, OnePerCall, OnTheWay
<1>4. QED BY <1>1, <1>2, <1>3 DEF IInv

(* Types are kept by every step.                                           *)
LEMMA NextTypeOK == TypeOK /\ [Next]_vars => TypeOK'
<1> SUFFICES ASSUME TypeOK, [Next]_vars PROVE TypeOK'
  OBVIOUS
<1> USE DEF TypeOK
<1>1. ASSUME NEW a \in Acc, Launch(a) PROVE TypeOK'
  <2>1. MaxJobs \in Nat
    BY ConstantsAssumption DEF ConstantsAssumption
  <2>2. QED BY <1>1, <2>1 DEF Launch, Goto
<1>2. ASSUME NEW a \in Acc, IoctlEnter(a) PROVE TypeOK'
  BY <1>2 DEF IoctlEnter, Goto
<1>3. ASSUME NEW a \in Acc, WaitCheck(a) PROVE TypeOK'
  BY <1>3 DEF WaitCheck, Goto
<1>4. ASSUME NEW a \in Acc, WaitTimeout(a) PROVE TypeOK'
  BY <1>4 DEF WaitTimeout, Goto
<1>5. ASSUME NEW a \in Acc, ResetFlag(a) PROVE TypeOK'
  BY <1>5 DEF ResetFlag, Goto
<1>6. ASSUME NEW a \in Acc, SdsWait(a) PROVE TypeOK'
  BY <1>6 DEF SdsWait, Goto
<1>7. ASSUME NEW a \in Acc, CoreDone(a) PROVE TypeOK'
  BY <1>7 DEF CoreDone
<1>8. ASSUME NEW a \in Acc, LatchToReg(a) PROVE TypeOK'
  BY <1>8 DEF LatchToReg
<1>9. ASSUME NEW a \in Acc, IsrClearReg(a) PROVE TypeOK'
  BY <1>9 DEF IsrClearReg
<1>10. ASSUME NEW a \in Acc, IsrSetFlag(a) PROVE TypeOK'
  BY <1>10 DEF IsrSetFlag
<1>11. ASSUME NEW a \in Acc, IsrWakeUp(a) PROVE TypeOK'
  BY <1>11 DEF IsrWakeUp
<1>12. ASSUME NEW a \in Acc, WaitSignal(a) PROVE TypeOK'
  BY <1>12 DEF WaitSignal, Goto
<1>13. ASSUME NEW a \in Acc, Reopen(a) PROVE TypeOK'
  BY <1>13 DEF Reopen
<1>14. CASE UNCHANGED vars
  BY <1>14 DEF vars
<1>15. QED
  BY <1>1, <1>2, <1>3, <1>4, <1>5, <1>6, <1>7, <1>8, <1>9, <1>10, <1>11, <1>12,
     <1>13, <1>14
     DEF Next

(* The core is started and left by its own thread only. *)
LEMMA NextInCall == TypeOK /\ InCall /\ [Next]_vars => InCall'
<1> SUFFICES ASSUME TypeOK, InCall, [Next]_vars PROVE InCall'
  OBVIOUS
<1> USE DEF TypeOK, InCall
<1>1. ASSUME NEW a \in Acc, Launch(a) PROVE InCall'
  BY <1>1 DEF Launch, Goto
<1>2. ASSUME NEW a \in Acc, IoctlEnter(a) PROVE InCall'
  BY <1>2 DEF IoctlEnter, Goto
<1>3. ASSUME NEW a \in Acc, WaitCheck(a) PROVE InCall'
  BY <1>3 DEF WaitCheck, Goto
<1>4. ASSUME NEW a \in Acc, WaitTimeout(a) PROVE InCall'
  BY <1>4 DEF WaitTimeout, Goto
<1>5. ASSUME NEW a \in Acc, ResetFlag(a) PROVE InCall'
  BY <1>5 DEF ResetFlag, Goto
<1>6. ASSUME NEW a \in Acc, SdsWait(a) PROVE InCall'
  BY <1>6 DEF SdsWait, Goto
<1>7. ASSUME NEW a \in Acc, CoreDone(a) PROVE InCall'
  BY <1>7 DEF CoreDone
<1>8. ASSUME NEW a \in Acc, LatchToReg(a) PROVE InCall'
  BY <1>8 DEF LatchToReg
<1>9. ASSUME NEW a \in Acc, IsrClearReg(a) PROVE InCall'
  BY <1>9 DEF IsrClearReg, interrupt_pin
<1>10. ASSUME NEW a \in Acc, IsrSetFlag(a) PROVE InCall'
  BY <1>10 DEF IsrSetFlag
<1>11. ASSUME NEW a \in Acc, IsrWakeUp(a) PROVE InCall'
  BY <1>11 DEF IsrWakeUp
<1>12. ASSUME NEW a \in Acc, WaitSignal(a) PROVE InCall'
  BY <1>12 DEF WaitSignal, Goto
<1>13. ASSUME NEW a \in Acc, Reopen(a) PROVE InCall'
  BY <1>13 DEF Reopen
<1>14. CASE UNCHANGED vars
  BY <1>14 DEF vars
<1>15. QED
  BY <1>1, <1>2, <1>3, <1>4, <1>5, <1>6, <1>7, <1>8, <1>9, <1>10, <1>11, <1>12,
     <1>13, <1>14
     DEF Next

(* The interrupt is handed from the core to the latch, the register, the   *)
(* handler and the flag; nobody drops it while the thread needs it.        *)
LEMMA NextWakeUpAhead ==
  TypeOK /\ InCall /\ WakeUpAhead /\ [Next]_vars => WakeUpAhead'
<1> SUFFICES ASSUME TypeOK, InCall, WakeUpAhead, [Next]_vars PROVE WakeUpAhead'
  OBVIOUS
<1> USE DEF TypeOK, InCall, WakeUpAhead, OnTheWay
<1>1. ASSUME NEW a \in Acc, Launch(a) PROVE WakeUpAhead'
  BY <1>1 DEF Launch, Goto
<1>2. ASSUME NEW a \in Acc, IoctlEnter(a) PROVE WakeUpAhead'
  BY <1>2 DEF IoctlEnter, Goto
<1>3. ASSUME NEW a \in Acc, WaitCheck(a) PROVE WakeUpAhead'
  BY <1>3 DEF WaitCheck, Goto
<1>4. ASSUME NEW a \in Acc, WaitTimeout(a) PROVE WakeUpAhead'
  BY <1>4 DEF WaitTimeout, Goto
<1>5. ASSUME NEW a \in Acc, ResetFlag(a) PROVE WakeUpAhead'
  BY <1>5 DEF ResetFlag, Goto
<1>6. ASSUME NEW a \in Acc, SdsWait(a) PROVE WakeUpAhead'
  BY <1>6 DEF SdsWait, Goto
<1>7. ASSUME NEW a \in Acc, CoreDone(a) PROVE WakeUpAhead'
  BY <1>7 DEF CoreDone
<1>8. ASSUME NEW a \in Acc, LatchToReg(a) PROVE WakeUpAhead'
  BY <1>8 DEF LatchToReg
<1>9. ASSUME NEW a \in Acc, IsrClearReg(a) PROVE WakeUpAhead'
  BY <1>9 DEF IsrClearReg, interrupt_pin
<1>10. ASSUME NEW a \in Acc, IsrSetFlag(a) PROVE WakeUpAhead'
  BY <1>10 DEF IsrSetFlag
<1>11. ASSUME NEW a \in Acc, IsrWakeUp(a) PROVE WakeUpAhead'
  BY <1>11 DEF IsrWakeUp
<1>12. ASSUME NEW a \in Acc, WaitSignal(a) PROVE WakeUpAhead'
  BY <1>12 DEF WaitSignal, Goto
<1>13. ASSUME NEW a \in Acc, Reopen(a) PROVE WakeUpAhead'
  BY <1>13 DEF Reopen
<1>14. CASE UNCHANGED vars
  BY <1>14 DEF vars
<1>15. QED
  BY <1>1, <1>2, <1>3, <1>4, <1>5, <1>6, <1>7, <1>8, <1>9, <1>10, <1>11, <1>12,
     <1>13, <1>14
     DEF Next

(* The ioctl consumes the one interrupt of its call. *)
LEMMA NextOnePerCall ==
  TypeOK /\ InCall /\ WakeUpAhead /\ OnePerCall /\ [Next]_vars => OnePerCall'
<1> SUFFICES ASSUME TypeOK, InCall, WakeUpAhead, OnePerCall, [Next]_vars
             PROVE  OnePerCall'
  OBVIOUS
<1> USE DEF TypeOK, InCall, WakeUpAhead, OnePerCall, OnTheWay, SleepsAlone
<1>1. ASSUME NEW a \in Acc, Launch(a) PROVE OnePerCall'
  BY <1>1 DEF Launch, Goto
<1>2. ASSUME NEW a \in Acc, IoctlEnter(a) PROVE OnePerCall'
  BY <1>2 DEF IoctlEnter, Goto
<1>3. ASSUME NEW a \in Acc, WaitCheck(a) PROVE OnePerCall'
  BY <1>3 DEF WaitCheck, Goto
<1>4. ASSUME NEW a \in Acc, WaitTimeout(a) PROVE OnePerCall'
  BY <1>4 DEF WaitTimeout, Goto
<1>5. ASSUME NEW a \in Acc, ResetFlag(a) PROVE OnePerCall'
  BY <1>5 DEF ResetFlag, Goto
<1>6. ASSUME NEW a \in Acc, SdsWait(a) PROVE OnePerCall'
  BY <1>6 DEF SdsWait, Goto
<1>7. ASSUME NEW a \in Acc, CoreDone(a) PROVE OnePerCall'
  BY <1>7 DEF CoreDone
<1>8. ASSUME NEW a \in Acc, LatchToReg(a) PROVE OnePerCall'
  BY <1>8 DEF LatchToReg
<1>9. ASSUME NEW a \in Acc, IsrClearReg(a) PROVE OnePerCall'
  BY <1>9 DEF IsrClearReg, interrupt_pin
<1>10. ASSUME NEW a \in Acc, IsrSetFlag(a) PROVE OnePerCall'
  BY <1>10 DEF IsrSetFlag
<1>11. ASSUME NEW a \in Acc, IsrWakeUp(a) PROVE OnePerCall'
  BY <1>11 DEF IsrWakeUp
<1>12. ASSUME NEW a \in Acc, WaitSignal(a) PROVE OnePerCall'
  <2>1. disturbed'[a] # {} /\ \A b \in Acc \ {a} : disturbed'[b] = disturbed[b]
    BY <1>12 DEF WaitSignal
  <2>2. ASSUME NEW b \in Acc, SleepsAlone(b)' PROVE b # a /\ SleepsAlone(b)
    BY <1>12, <2>1, <2>2 DEF WaitSignal
  <2>3. ASSUME NEW b \in Acc, b # a
        PROVE  /\ pc'[b] = pc[b] /\ core'[b] = core[b] /\ flag'[b] = flag[b]
               /\ latch'[b] = latch[b] /\ slv_reg0'[b] = slv_reg0[b]
               /\ isr'[b] = isr[b] /\ early'[b] = early[b]
    BY <1>12, <2>3 DEF WaitSignal, Goto
  <2>4. QED BY <2>2, <2>3
<1>13. ASSUME NEW a \in Acc, Reopen(a) PROVE OnePerCall'
  <2>1. disturbed'[a] # {} /\ \A b \in Acc \ {a} : disturbed'[b] = disturbed[b]
    BY <1>13 DEF Reopen
  <2>2. ASSUME NEW b \in Acc, SleepsAlone(b)' PROVE b # a /\ SleepsAlone(b)
    BY <1>13, <2>1, <2>2 DEF Reopen
  <2>3. ASSUME NEW b \in Acc, b # a
        PROVE  /\ pc'[b] = pc[b] /\ core'[b] = core[b] /\ flag'[b] = flag[b]
               /\ latch'[b] = latch[b] /\ slv_reg0'[b] = slv_reg0[b]
               /\ isr'[b] = isr[b] /\ early'[b] = early[b]
    BY <1>13, <2>3 DEF Reopen
  <2>4. QED BY <2>2, <2>3
<1>14. CASE UNCHANGED vars
  BY <1>14 DEF vars
<1>15. QED
  BY <1>1, <1>2, <1>3, <1>4, <1>5, <1>6, <1>7, <1>8, <1>9, <1>10, <1>11, <1>12,
     <1>13, <1>14
     DEF Next

(* Every reachable state satisfies the invariant. *)
THEOREM Invariance == Spec => []IInv
<1>1. IInv /\ [Next]_vars => IInv'
  BY NextTypeOK, NextInCall, NextWakeUpAhead, NextOnePerCall DEF IInv
<1>2. QED BY InitIInv, <1>1, PTL DEF Spec

-----------------------------------------------------------------------------
(* The registers, flags and places keep their types. *)
THEOREM TypeCorrect == Spec => []TypeOK
<1>1. IInv => TypeOK
  BY DEF IInv
<1>2. QED BY <1>1, Invariance, PTL

(* A thread asleep in a driver nobody else has opened has its wake-up      *)
(* ahead, for every TIMEOUT, whichever descriptors the kernels are given   *)
(* and whatever signals come.                                              *)
THEOREM WakeUpNotLost == Spec => []NoLostWakeUp
<1>1. IInv => NoLostWakeUp
  BY DEF IInv, WakeUpAhead, OnTheWay, NoLostWakeUp, interrupt_pin
<1>2. QED BY <1>1, Invariance, PTL

(* The ioctl returns after the interrupt of its own call, if the driver    *)
(* has no timeout, the kernel has the descriptor of that driver and the    *)
(* thread was not disturbed.  The conditions are needed: without them the  *)
(* code breaks the property.                                               *)
THEOREM SleepsUntilInterrupt == Spec => []SleepUntilOwnInterrupt
<1>1. IInv => SleepUntilOwnInterrupt
  BY DEF IInv, OnePerCall, SleepUntilOwnInterrupt
<1>2. QED BY <1>1, Invariance, PTL

(* Without a timeout no interrupt outlives the call that caused it.        *)
THEOREM NothingLeftOver == Spec => []NoInterruptLeftOver
<1>1. IInv => NoInterruptLeftOver
  <2> SUFFICES ASSUME IInv, NEW a \in Acc, SleepsAlone(a), pc[a] = "idle"
               PROVE  /\ flag[a] = 0 /\ ~ latch[a]
                      /\ ~ interrupt_pin(a) /\ isr[a] # "cleared"
    BY DEF NoInterruptLeftOver, SleepsAlone
  <2>1. ~ OnTheWay(a) /\ flag[a] = 0
    BY DEF IInv, OnePerCall
  <2>2. slv_reg0[a] \in {0, 1}
    BY DEF IInv, TypeOK
  <2>3. QED BY <2>1, <2>2 DEF OnTheWay, interrupt_pin
<1>2. QED BY <1>1, Invariance, PTL

-----------------------------------------------------------------------------
(* A kernel call keeps the promise of Offload.                             *)

(* Where the call on an accelerator is, as Offload sees it. *)
Phase(a) ==
  CASE pc[a] = "idle" -> "none"
    [] pc[a] # "idle" /\ core[a] = "done" -> "computed"
    [] OTHER -> "computing"

(* The launch, the end of the core and SDS wait are the three steps of the *)
(* promise; the interrupt, the sleep and what ends it are invisible.       *)
THEOREM ImplementsPromise == Spec => Implements
<1> DEFINE call == [a \in Acc |-> Phase(a)]
<1>1. Init => OL!Init
  BY DEF Init, OL!Init
<1>2. IInv /\ [Next]_vars => [OL!Next]_call
  <2> SUFFICES ASSUME IInv, [Next]_vars PROVE OL!Next \/ call' = call
    OBVIOUS
  <2> USE DEF IInv, TypeOK, InCall
  <2>1. ASSUME NEW a \in Acc, Launch(a) PROVE OL!Launch(a)
    BY <2>1 DEF Launch, Goto, OL!Launch
  <2>2. ASSUME NEW a \in Acc, CoreDone(a) PROVE OL!Compute(a)
    BY <2>2 DEF CoreDone, OL!Compute
  <2>3. ASSUME NEW a \in Acc, SdsWait(a) PROVE OL!Return(a)
    BY <2>3 DEF SdsWait, Goto, OL!Return
  <2>4. ASSUME NEW a \in Acc,
               \/ IoctlEnter(a) \/ WaitCheck(a) \/ WaitTimeout(a) \/ ResetFlag(a)
               \/ WaitSignal(a) \/ Reopen(a)
        PROVE  call' = call
    BY <2>4 DEF IoctlEnter, WaitCheck, WaitTimeout, ResetFlag, WaitSignal,
                Reopen, Goto, Phase
  <2>5. ASSUME NEW a \in Acc,
               \/ LatchToReg(a) \/ IsrClearReg(a) \/ IsrSetFlag(a) \/ IsrWakeUp(a)
        PROVE  call' = call
    BY <2>5 DEF LatchToReg, IsrClearReg, IsrSetFlag, IsrWakeUp, Phase
  <2>6. CASE UNCHANGED vars
    BY <2>6 DEF vars, Phase
  <2>7. QED
    BY <2>1, <2>2, <2>3, <2>4, <2>5, <2>6 DEF Next, OL!Next
<1>3. QED
  BY <1>1, <1>2, Invariance, PTL DEF Spec, Implements, OL!Spec, Phase

-----------------------------------------------------------------------------
(* Every kernel call is over after finitely many steps.                    *)

(* Steps the host thread still takes, from where it is. *)
HostSteps ==
  [idle |-> 0, sdsWait |-> 1, awake |-> 2, asleep |-> 3, check |-> 4, ioctl |-> 5]

(* Steps the handler still takes; its wake-up sends the thread back from   *)
(* its sleep to its test, and so counts for two.                           *)
IsrSteps == [out |-> 0, flagged |-> 2, cleared |-> 3]

(* Steps an interrupt in the generator leads to: the latch is copied, the  *)
(* handler begins.                                                         *)
PendingSteps(a) ==
  IF interrupt_pin(a) THEN 4 ELSE IF latch[a] THEN 5 ELSE 0

(* Steps the core leads to: that of its done, which may latch one.         *)
CoreSteps == [idle |-> 0, done |-> 0, running |-> 6]

(* Upper bound on the steps the parties of accelerator a take before the   *)
(* next launch; 19 is that of a call launched while the interrupt of       *)
(* another is still on its way.                                            *)
StepsLeft(a) ==
  HostSteps[pc[a]] + IsrSteps[isr[a]] + PendingSteps(a) + CoreSteps[core[a]]

(* All but the flag. *)
Parties(a) == <<pc[a], core[a], latch[a], slv_reg0[a], isr[a]>>

(* No call goes round in circles: each step of thread, core, generator or  *)
(* handler of an accelerator brings its return nearer.  A thread that is   *)
(* woken and finds its flag reset goes back to sleep, but only an          *)
(* interrupt wakes it, and its call causes one.                            *)
CallShortens ==
  [][\A a \in Acc :
       \/ jobs'[a] # jobs[a]
       \/ UNCHANGED Parties(a)
       \/ StepsLeft(a)' < StepsLeft(a)]_vars

(* The parts of StepsLeft are numbers, and so is it. *)
LEMMA StepsLeftParts ==
  ASSUME TypeOK, NEW a \in Acc
  PROVE  /\ HostSteps[pc[a]] \in 0..5 /\ IsrSteps[isr[a]] \in 0..3
         /\ PendingSteps(a) \in 0..5 /\ CoreSteps[core[a]] \in 0..6
         /\ StepsLeft(a) \in 0..19
<1>1. /\ pc[a] \in {"idle", "ioctl", "check", "asleep", "awake", "sdsWait"}
      /\ isr[a] \in {"out", "cleared", "flagged"} /\ core[a] \in {"idle", "running", "done"}
  BY DEF TypeOK
<1>2. HostSteps[pc[a]] \in 0..5
  BY <1>1 DEF HostSteps
<1>3. IsrSteps[isr[a]] \in 0..3
  BY <1>1 DEF IsrSteps
<1>4. CoreSteps[core[a]] \in 0..6
  BY <1>1 DEF CoreSteps
<1>5. PendingSteps(a) \in 0..5
  BY DEF PendingSteps
<1>6. StepsLeft(a) \in 0..19
  BY <1>2, <1>3, <1>4, <1>5 DEF StepsLeft
<1>7. QED BY <1>2, <1>3, <1>4, <1>5, <1>6

(* A step of one accelerator leaves the others alone. *)
LEMMA OthersUnchanged ==
  ASSUME TypeOK, NEW a \in Acc, NEW b \in Acc, b # a,
         \/ Launch(a) \/ IoctlEnter(a) \/ WaitCheck(a) \/ WaitTimeout(a) \/ WaitSignal(a)
         \/ Reopen(a) \/ ResetFlag(a) \/ SdsWait(a) \/ CoreDone(a) \/ LatchToReg(a)
         \/ IsrClearReg(a) \/ IsrSetFlag(a) \/ IsrWakeUp(a)
  PROVE  UNCHANGED Parties(b)
<1> USE DEF TypeOK, Parties, Goto
<1>1. CASE Launch(a) \/ IoctlEnter(a) \/ WaitCheck(a) \/ WaitTimeout(a) \/ WaitSignal(a)
  BY <1>1 DEF Launch, IoctlEnter, WaitCheck, WaitTimeout, WaitSignal
<1>2. CASE Reopen(a) \/ ResetFlag(a) \/ SdsWait(a) \/ CoreDone(a) \/ LatchToReg(a)
  BY <1>2 DEF Reopen, ResetFlag, SdsWait, CoreDone, LatchToReg
<1>3. CASE IsrClearReg(a) \/ IsrSetFlag(a) \/ IsrWakeUp(a)
  BY <1>3 DEF IsrClearReg, IsrSetFlag, IsrWakeUp
<1>4. QED BY <1>1, <1>2, <1>3

(* A step of the thread inside the call shortens it. *)
LEMMA HostShortens ==
  ASSUME TypeOK, TypeOK', NEW a \in Acc,
         \/ IoctlEnter(a) \/ WaitCheck(a) \/ WaitTimeout(a) \/ WaitSignal(a)
         \/ ResetFlag(a) \/ SdsWait(a)
  PROVE  StepsLeft(a)' < StepsLeft(a)
<1>1. UNCHANGED <<latch, slv_reg0, isr>>
  BY DEF IoctlEnter, WaitCheck, WaitTimeout, WaitSignal, ResetFlag, SdsWait
<1>2. PendingSteps(a)' = PendingSteps(a) /\ IsrSteps[isr'[a]] = IsrSteps[isr[a]]
  BY <1>1 DEF PendingSteps, interrupt_pin
<1>3. CoreSteps[core'[a]] <= CoreSteps[core[a]]
  <2>1. CASE SdsWait(a)
    BY <2>1 DEF SdsWait, CoreSteps, TypeOK
  <2>2. CASE ~ SdsWait(a)
    <3>1. core' = core /\ CoreSteps[core[a]] \in 0..6
      BY <2>2, StepsLeftParts
         DEF IoctlEnter, WaitCheck, WaitTimeout, WaitSignal, ResetFlag
    <3>2. QED BY <3>1
  <2>3. QED BY <2>1, <2>2
<1>4. HostSteps[pc'[a]] < HostSteps[pc[a]]
  BY DEF IoctlEnter, WaitCheck, WaitTimeout, WaitSignal, ResetFlag, SdsWait, Goto, HostSteps,
         TypeOK
<1>5. /\ HostSteps[pc[a]] \in Nat /\ IsrSteps[isr[a]] \in Nat
      /\ PendingSteps(a) \in Nat /\ CoreSteps[core[a]] \in Nat
  BY StepsLeftParts
<1>6. HostSteps[pc'[a]] \in Nat /\ CoreSteps[core'[a]] \in Nat
  BY DEF TypeOK, HostSteps, CoreSteps
<1>7. StepsLeft(a)' = HostSteps[pc'[a]] + IsrSteps[isr'[a]] + PendingSteps(a)'
                        + CoreSteps[core'[a]]
  BY DEF StepsLeft, HostSteps, IsrSteps, CoreSteps
<1>8. QED BY <1>2, <1>3, <1>4, <1>5, <1>6, <1>7 DEF StepsLeft

(* The interrupt of a done core costs less than its computation. *)
LEMMA CoreShortens ==
  ASSUME TypeOK, InCall, NEW a \in Acc, CoreDone(a) \/ LatchToReg(a)
  PROVE  StepsLeft(a)' < StepsLeft(a)
<1>1. UNCHANGED <<pc, isr>>
  BY DEF CoreDone, LatchToReg
<1>2. StepsLeft(a)' = HostSteps[pc[a]] + IsrSteps[isr[a]] + PendingSteps(a)'
                        + CoreSteps[core'[a]]
  BY <1>1 DEF StepsLeft, HostSteps, IsrSteps, CoreSteps
<1>3. /\ HostSteps[pc[a]] \in Nat /\ IsrSteps[isr[a]] \in Nat
  BY StepsLeftParts
<1>4. CASE CoreDone(a)
  <2>1. CoreSteps[core[a]] = 6 /\ CoreSteps[core'[a]] = 0
    BY <1>4 DEF CoreDone, CoreSteps, TypeOK
  <2>2. PendingSteps(a) \in 0..5 /\ PendingSteps(a)' \in 0..5
    BY DEF PendingSteps
  <2>3. QED BY <1>2, <1>3, <2>1, <2>2 DEF StepsLeft
<1>5. CASE LatchToReg(a)
  <2>1. core' = core /\ CoreSteps[core[a]] \in Nat
    BY <1>5, StepsLeftParts DEF LatchToReg
  <2>2. PendingSteps(a) = 5 /\ PendingSteps(a)' = 4
    BY <1>5 DEF LatchToReg, PendingSteps, interrupt_pin, TypeOK
  <2>3. QED BY <1>2, <1>3, <2>1, <2>2 DEF StepsLeft
<1>6. QED BY <1>4, <1>5

(* So does a step of the handler, also the one that wakes the thread. *)
LEMMA IsrShortens ==
  ASSUME TypeOK, InCall, NEW a \in Acc, IsrClearReg(a) \/ IsrSetFlag(a) \/ IsrWakeUp(a)
  PROVE  StepsLeft(a)' < StepsLeft(a)
<1>1. core' = core /\ CoreSteps[core[a]] \in Nat /\ HostSteps[pc[a]] \in Nat
      /\ PendingSteps(a) \in Nat
  BY StepsLeftParts DEF IsrClearReg, IsrSetFlag, IsrWakeUp
<1>2. StepsLeft(a)' = HostSteps[pc'[a]] + IsrSteps[isr'[a]] + PendingSteps(a)'
                        + CoreSteps[core[a]]
  BY <1>1 DEF StepsLeft, HostSteps, IsrSteps, CoreSteps
<1>3. CASE IsrClearReg(a)
  <2>1. pc' = pc /\ IsrSteps[isr[a]] = 0 /\ IsrSteps[isr'[a]] = 3
    BY <1>3 DEF IsrClearReg, IsrSteps, TypeOK
  <2>2. PendingSteps(a) = 4 /\ PendingSteps(a)' = 0
    BY <1>3 DEF IsrClearReg, PendingSteps, interrupt_pin, TypeOK
  <2>3. QED BY <1>1, <1>2, <2>1, <2>2 DEF StepsLeft
<1>4. CASE IsrSetFlag(a)
  <2>1. pc' = pc /\ IsrSteps[isr[a]] = 3 /\ IsrSteps[isr'[a]] = 2
    BY <1>4 DEF IsrSetFlag, IsrSteps, TypeOK
  <2>2. PendingSteps(a)' = PendingSteps(a)
    BY <1>4 DEF IsrSetFlag, PendingSteps, interrupt_pin
  <2>3. QED BY <1>1, <1>2, <2>1, <2>2 DEF StepsLeft
<1>5. CASE IsrWakeUp(a)
  <2>1. IsrSteps[isr[a]] = 2 /\ IsrSteps[isr'[a]] = 0
    BY <1>5 DEF IsrWakeUp, IsrSteps, TypeOK
  <2>2. HostSteps[pc'[a]] <= HostSteps[pc[a]] + 1 /\ HostSteps[pc'[a]] \in Nat
    BY <1>5 DEF IsrWakeUp, HostSteps, TypeOK
  <2>3. PendingSteps(a)' = PendingSteps(a)
    BY <1>5 DEF IsrWakeUp, PendingSteps, interrupt_pin
  <2>4. QED BY <1>1, <1>2, <2>1, <2>2, <2>3 DEF StepsLeft
<1>6. QED BY <1>3, <1>4, <1>5

(* A kernel call takes at most 19 steps of the thread, the core, the       *)
(* interrupt generator and the handler, in any interleaving, with or       *)
(* without a timeout, signals or another process that opens the driver.    *)
THEOREM CallIsFinite == Spec => CallShortens /\ [](\A a \in Acc : StepsLeft(a) \in 0..19)
<1>1. ASSUME IInv, IInv', [Next]_vars
      PROVE  [\A a \in Acc : \/ jobs'[a] # jobs[a]
                             \/ UNCHANGED Parties(a)
                             \/ StepsLeft(a)' < StepsLeft(a)]_vars
  <2> SUFFICES ASSUME Next, NEW a \in Acc
               PROVE  \/ jobs'[a] # jobs[a]
                      \/ UNCHANGED Parties(a)
                      \/ StepsLeft(a)' < StepsLeft(a)
    BY <1>1
  <2>1. TypeOK /\ TypeOK' /\ InCall
    BY <1>1 DEF IInv
  <2>2. PICK b \in Acc :
             \/ Launch(b) \/ IoctlEnter(b) \/ WaitCheck(b) \/ WaitTimeout(b) \/ WaitSignal(b)
             \/ Reopen(b) \/ ResetFlag(b) \/ SdsWait(b) \/ CoreDone(b) \/ LatchToReg(b)
             \/ IsrClearReg(b) \/ IsrSetFlag(b) \/ IsrWakeUp(b)
    BY DEF Next
  <2>3. CASE b # a
    BY <2>1, <2>2, <2>3, OthersUnchanged
  <2>4. CASE b = a
    <3>1. CASE Launch(a)
      <4>1. jobs'[a] = jobs[a] + 1 /\ jobs[a] \in Nat
        BY <2>1, <3>1, ConstantsAssumption DEF Launch, TypeOK, ConstantsAssumption
      <4>2. QED BY <4>1
    <3>2. CASE Reopen(a)
      BY <3>2 DEF Reopen, Parties
    <3>3. CASE \/ IoctlEnter(a) \/ WaitCheck(a) \/ WaitTimeout(a) \/ WaitSignal(a)
               \/ ResetFlag(a) \/ SdsWait(a)
      BY <2>1, <3>3, HostShortens
    <3>4. CASE CoreDone(a) \/ LatchToReg(a)
      BY <2>1, <3>4, CoreShortens
    <3>5. CASE IsrClearReg(a) \/ IsrSetFlag(a) \/ IsrWakeUp(a)
      BY <2>1, <3>5, IsrShortens
    <3>6. QED BY <2>2, <2>4, <3>1, <3>2, <3>3, <3>4, <3>5
  <2>5. QED BY <2>3, <2>4
<1>2. IInv => \A a \in Acc : StepsLeft(a) \in 0..19
  BY StepsLeftParts DEF IInv
<1>3. QED BY <1>1, <1>2, Invariance, PTL DEF Spec, CallShortens

=============================================================================
