------------------------------ MODULE IrqOffload ------------------------------
(***************************************************************************)
(* One kernel call of a ZCU102 host from the launch of the hardware        *)
(* function to its return, across four parties that run concurrently:      *)
(*                                                                         *)
(*   - the host thread bound to the accelerator, in kernelNNN_hp/_hpc:     *)
(*     launch (SDS async), ioctl, wait for the core (SDS wait);            *)
(*   - the FPGA core, which raises core_done for one cycle;                *)
(*   - the interrupt generator: core_done is latched in the clock domain   *)
(*     of the core, copied to slv_reg0 in that of the bus, and interrupt   *)
(*     stays up while slv_reg0 is not zero; a bus write of slv_reg0 clears *)
(*     register and latch;                                                 *)
(*   - the driver intgendriverN: its ISR clears slv_reg0, sets flag and    *)
(*     wakes the queue; its ioctl sleeps until flag is set (or TIMEOUT     *)
(*     seconds have passed) and resets it.                                 *)
(*                                                                         *)
(* An accelerator has one interrupt generator and one driver; it is used   *)
(* by one thread only (AcceleratorOwner of MultiDynamic), so threads are   *)
(* named by their accelerator.                                             *)
(***************************************************************************)
EXTENDS Naturals

CONSTANTS
  Acc,        (* The accelerators.                                         *)
  FileDesc,   (* Driver whose descriptor the body passes to each kernel.   *)
  IoctlFlags, (* The values a run may give ioctl_flag.                     *)
  Timeouts,   (* The values a driver may be loaded with for TIMEOUT.       *)
  Disturbances, (* What may happen to an accelerator: a "signal" to its    *)
                (* sleeping thread, an "open" of its driver by another     *)
                (* process.                                                *)
  MaxJobs     (* Bound on the kernel calls of an accelerator.              *)

ASSUME ConstantsAssumption ==
  /\ FileDesc \in [Acc -> Acc]
  /\ IoctlFlags \subseteq BOOLEAN
  /\ Timeouts \subseteq Nat
  /\ Disturbances \in [Acc -> SUBSET {"signal", "open"}]
  /\ MaxJobs \in Nat

VARIABLES
  ioctl_flag,
             (* Sleep on the interrupt, or only poll in SDS wait?          *)
  TIMEOUT,   (* Module parameter of each driver: 0 is "no timeout".        *)
  pc,        (* Where the host thread of each accelerator is.              *)
  early,     (* Its last sleep ended by the timeout or by a signal.        *)
  disturbed, (* History: the disturbances an accelerator has had.          *)
  jobs,      (* Kernel calls made so far.                                  *)
  core,      (* The core: idle, running, or done with this call's chunk.   *)
  latch,     (* core_terminated_int of the interrupt generator.            *)
  slv_reg0,  (* Its interrupt register, 0 or 1.                            *)
  isr,       (* Where the interrupt handler of each driver is.             *)
  flag       (* The flag each driver sleeps on.                            *)

vars == <<ioctl_flag, TIMEOUT, pc, early, disturbed, jobs, core, latch,
          slv_reg0, isr, flag>>

Init ==
  /\ ioctl_flag \in IoctlFlags
  /\ TIMEOUT \in [Acc -> Timeouts]
  /\ pc = [a \in Acc |-> "idle"]
  /\ early = [a \in Acc |-> FALSE]
  /\ disturbed = [a \in Acc |-> {}]
  /\ jobs = [a \in Acc |-> 0]
  /\ core = [a \in Acc |-> "idle"]
  /\ latch = [a \in Acc |-> FALSE]
  /\ slv_reg0 = [a \in Acc |-> 0]
  /\ isr = [a \in Acc |-> "out"]
  /\ flag = [a \in Acc |-> 0]

Goto(a, label) == pc' = [pc EXCEPT ![a] = label]

-----------------------------------------------------------------------------
(* The host thread.                                                        *)

(* SDS async: the core starts; then the ioctl if the run asks for it.      *)
Launch(a) ==
  /\ pc[a] = "idle"
  /\ jobs[a] < MaxJobs
  /\ jobs' = [jobs EXCEPT ![a] = @ + 1]
  /\ core' = [core EXCEPT ![a] = "running"]
  /\ early' = [early EXCEPT ![a] = FALSE]
  /\ Goto(a, IF ioctl_flag THEN "ioctl" ELSE "sdsWait")
  /\ UNCHANGED <<ioctl_flag, TIMEOUT, disturbed, latch, slv_reg0, isr, flag>>

(* The number of the ioctl belongs to driver a; any other driver falls     *)
(* through its switch and returns SUCCESS.                                 *)
IoctlEnter(a) ==
  /\ pc[a] = "ioctl"
  /\ Goto(a, IF FileDesc[a] = a THEN "check" ELSE "sdsWait")
  /\ UNCHANGED <<ioctl_flag, TIMEOUT, disturbed, early, jobs, core, latch,
                 slv_reg0, isr, flag>>

(* wait_event_interruptible[_timeout]: the condition is tested after the   *)
(* thread is on the queue, so a wake-up in between is not lost.            *)
WaitCheck(a) ==
  /\ pc[a] = "check"
  /\ Goto(a, IF flag[a] # 0 THEN "awake" ELSE "asleep")
  /\ UNCHANGED <<ioctl_flag, TIMEOUT, disturbed, early, jobs, core, latch,
                 slv_reg0, isr, flag>>

(* The seconds of TIMEOUT are over before the wake-up.                     *)
WaitTimeout(a) ==
  /\ pc[a] = "asleep"
  /\ TIMEOUT[a] # 0
  /\ early' = [early EXCEPT ![a] = TRUE]
  /\ Goto(a, "awake")
  /\ UNCHANGED <<ioctl_flag, TIMEOUT, disturbed, jobs, core, latch, slv_reg0,
                 isr, flag>>

(* A signal ends wait_event_interruptible; the ioctl ignores what that     *)
(* returns, and goes on as if the interrupt had come.                      *)
WaitSignal(a) ==
  /\ pc[a] = "asleep"
  /\ "signal" \in Disturbances[a]
  /\ disturbed' = [disturbed EXCEPT ![a] = @ \union {"signal"}]
  /\ early' = [early EXCEPT ![a] = TRUE]
  /\ Goto(a, "awake")
  /\ UNCHANGED <<ioctl_flag, TIMEOUT, jobs, core, latch, slv_reg0, isr, flag>>

(* Another process opens the driver, which resets its one flag.            *)
Reopen(a) ==
  /\ "open" \in Disturbances[a]
  /\ disturbed' = [disturbed EXCEPT ![a] = @ \union {"open"}]
  /\ flag' = [flag EXCEPT ![a] = 0]
  /\ UNCHANGED <<ioctl_flag, TIMEOUT, pc, early, jobs, core, latch, slv_reg0,
                 isr>>

(* Faulty variant: the ioctl leaves the flag set. *)
ResetFlag_Kept(a) ==
  /\ pc[a] = "awake"
  /\ Goto(a, "sdsWait")
  /\ UNCHANGED <<ioctl_flag, TIMEOUT, disturbed, early, jobs, core, latch,
                 slv_reg0, isr, flag>>

(* The ioctl resets the flag and returns. *)
ResetFlag(a) ==
  /\ pc[a] = "awake"
  /\ flag' = [flag EXCEPT ![a] = 0]
  /\ Goto(a, "sdsWait")
  /\ UNCHANGED <<ioctl_flag, TIMEOUT, disturbed, early, jobs, core, latch,
                 slv_reg0, isr>>

(* Faulty variant: no SDS wait after the ioctl. *)
SdsWait_Dropped(a) ==
  /\ pc[a] = "sdsWait"
  /\ core' = [core EXCEPT ![a] = "idle"]
  /\ Goto(a, "idle")
  /\ UNCHANGED <<ioctl_flag, TIMEOUT, disturbed, early, jobs, latch, slv_reg0,
                 isr, flag>>

(* SDS wait polls the core; then the kernel call returns. *)
SdsWait(a) ==
  /\ pc[a] = "sdsWait"
  /\ core[a] = "done"
  /\ core' = [core EXCEPT ![a] = "idle"]
  /\ Goto(a, "idle")
  /\ UNCHANGED <<ioctl_flag, TIMEOUT, disturbed, early, jobs, latch, slv_reg0,
                 isr, flag>>

-----------------------------------------------------------------------------
(* The core and the interrupt generator.                                   *)

(* The core finishes; its done pulse sets the latch. *)
CoreDone(a) ==
  /\ core[a] = "running"
  /\ core' = [core EXCEPT ![a] = "done"]
  /\ latch' = [latch EXCEPT ![a] = TRUE]
  /\ UNCHANGED <<ioctl_flag, TIMEOUT, disturbed, pc, early, jobs, slv_reg0,
                 isr, flag>>

(* A bus clock without a write ors the latch into the register.            *)
LatchToReg(a) ==
  /\ latch[a]
  /\ slv_reg0[a] = 0
  /\ slv_reg0' = [slv_reg0 EXCEPT ![a] = 1]
  /\ UNCHANGED <<ioctl_flag, TIMEOUT, disturbed, pc, early, jobs, core, latch,
                 isr, flag>>

interrupt_pin(a) == slv_reg0[a] # 0

-----------------------------------------------------------------------------
(* The interrupt handler, at any distance from the interrupt.              *)

(* Faulty variant: the write clears the register but not the latch.        *)
IsrClearReg_LatchKept(a) ==
  /\ isr[a] = "out"
  /\ interrupt_pin(a)
  /\ slv_reg0' = [slv_reg0 EXCEPT ![a] = 0]
  /\ isr' = [isr EXCEPT ![a] = "cleared"]
  /\ UNCHANGED <<ioctl_flag, TIMEOUT, disturbed, pc, early, jobs, core, latch,
                 flag>>

(* *intr0 = 0: the write clears the register and, by reset_ip_clk, the     *)
(* latch, which would set the register again.                              *)
IsrClearReg(a) ==
  /\ isr[a] = "out"
  /\ interrupt_pin(a)
  /\ slv_reg0' = [slv_reg0 EXCEPT ![a] = 0]
  /\ latch' = [latch EXCEPT ![a] = FALSE]
  /\ isr' = [isr EXCEPT ![a] = "cleared"]
  /\ UNCHANGED <<ioctl_flag, TIMEOUT, disturbed, pc, early, jobs, core, flag>>

(* Faulty variant: the interrupts are counted. *)
IsrSetFlag_Counts(a) ==
  /\ isr[a] = "cleared"
  /\ flag' = [flag EXCEPT ![a] = @ + 1]
  /\ isr' = [isr EXCEPT ![a] = "flagged"]
  /\ UNCHANGED <<ioctl_flag, TIMEOUT, disturbed, pc, early, jobs, core, latch,
                 slv_reg0>>

(* flag = 1. *)
IsrSetFlag(a) ==
  /\ isr[a] = "cleared"
  /\ flag' = [flag EXCEPT ![a] = 1]
  /\ isr' = [isr EXCEPT ![a] = "flagged"]
  /\ UNCHANGED <<ioctl_flag, TIMEOUT, disturbed, pc, early, jobs, core, latch,
                 slv_reg0>>

(* Faulty variant: the queue of the driver is not woken. *)
IsrWakeUp_Forgotten(a) ==
  /\ isr[a] = "flagged"
  /\ isr' = [isr EXCEPT ![a] = "out"]
  /\ UNCHANGED <<ioctl_flag, TIMEOUT, disturbed, pc, early, jobs, core, latch,
                 slv_reg0, flag>>

(* wake_up_interruptible: a sleeping thread tests its condition again.     *)
IsrWakeUp(a) ==
  /\ isr[a] = "flagged"
  /\ pc' = IF pc[a] = "asleep" THEN [pc EXCEPT ![a] = "check"] ELSE pc
  /\ isr' = [isr EXCEPT ![a] = "out"]
  /\ UNCHANGED <<ioctl_flag, TIMEOUT, disturbed, early, jobs, core, latch,
                 slv_reg0, flag>>

-----------------------------------------------------------------------------
Next ==
  \/ \E a \in Acc : Launch(a)
  \/ \E a \in Acc : IoctlEnter(a)
  \/ \E a \in Acc : WaitCheck(a)
  \/ \E a \in Acc : WaitTimeout(a)
  \/ \E a \in Acc : WaitSignal(a)
  \/ \E a \in Acc : Reopen(a)
  \/ \E a \in Acc : ResetFlag(a)
  \/ \E a \in Acc : SdsWait(a)
  \/ \E a \in Acc : CoreDone(a)
  \/ \E a \in Acc : LatchToReg(a)
  \/ \E a \in Acc : IsrClearReg(a)
  \/ \E a \in Acc : IsrSetFlag(a)
  \/ \E a \in Acc : IsrWakeUp(a)

Spec == Init /\ [][Next]_vars

(* Steps of the host thread other than the launch, which the scheduler     *)
(* decides, and the end of its sleep.                                      *)
Host(a) == IoctlEnter(a) \/ WaitCheck(a) \/ ResetFlag(a) \/ SdsWait(a)
Isr(a) == IsrClearReg(a) \/ IsrSetFlag(a) \/ IsrWakeUp(a)

(* The core computes, the clocks tick, the interrupt is served, a runnable *)
(* thread runs, and a timer expires.  Nobody has to disturb a thread.      *)
FairSpec ==
  /\ Spec
  /\ \A a \in Acc :
       WF_vars(Host(a)) /\ WF_vars(CoreDone(a)) /\ WF_vars(LatchToReg(a))
         /\ WF_vars(Isr(a)) /\ WF_vars(WaitTimeout(a))

-----------------------------------------------------------------------------
TypeOK ==
  /\ ioctl_flag \in BOOLEAN
  /\ TIMEOUT \in [Acc -> Nat]
  /\ pc \in [Acc -> {"idle", "ioctl", "check", "asleep", "awake", "sdsWait"}]
  /\ early \in [Acc -> BOOLEAN]
  /\ disturbed \in [Acc -> SUBSET {"signal", "open"}]
  /\ jobs \in [Acc -> 0..MaxJobs]
  /\ core \in [Acc -> {"idle", "running", "done"}]
  /\ latch \in [Acc -> BOOLEAN]
  /\ slv_reg0 \in [Acc -> {0, 1}]
  /\ isr \in [Acc -> {"out", "cleared", "flagged"}]
  /\ flag \in [Acc -> {0, 1}]

(* A thread asleep in the driver, with a timeout or not, has its wake-up   *)
(* ahead: the core still runs, its done is on the way through the          *)
(* interrupt generator, or the handler is at work.  No interleaving of the *)
(* four parties strands it, and no signal; another process that opens the  *)
(* driver may.                                                             *)
NoLostWakeUp ==
  \A a \in Acc :
    pc[a] = "asleep" /\ "open" \notin disturbed[a] =>
      \/ core[a] = "running" \/ latch[a]
      \/ interrupt_pin(a) \/ isr[a] = "cleared"
      \/ isr[a] = "flagged" /\ flag[a] = 1

(* "Sleep until interrupt": a thread that leaves the ioctl other than by   *)
(* the timeout or a signal does so after the core is done with this very   *)
(* call, so SDS wait does not burn the CPU time the interrupt was to save. *)
SleepUntilInterrupt ==
  \A a \in Acc :
    ioctl_flag /\ pc[a] = "sdsWait" /\ ~ early[a] => core[a] = "done"

(* The thread of a sleeps on its own driver, for as long as it takes, and  *)
(* was never disturbed.                                                    *)
SleepsAlone(a) ==
  ioctl_flag /\ TIMEOUT[a] = 0 /\ FileDesc[a] = a /\ disturbed[a] = {}

(* SleepUntilInterrupt for the threads that do, whatever the other         *)
(* accelerators and their drivers are set to.                              *)
SleepUntilOwnInterrupt ==
  \A a \in Acc : SleepsAlone(a) /\ pc[a] = "sdsWait" => core[a] = "done"

(* Without a timeout each interrupt is consumed by the call that caused    *)
(* it: between calls no flag, register or latch is left over, and none is  *)
(* consumed twice.                                                         *)
NoInterruptLeftOver ==
  \A a \in Acc :
    SleepsAlone(a) /\ pc[a] = "idle" =>
      flag[a] = 0 /\ ~ interrupt_pin(a) /\ ~ latch[a] /\ isr[a] # "cleared"

(* The kernel call keeps its promise, whatever the interrupt does. *)
OL == INSTANCE Offload WITH
        call <- [a \in Acc |->
                   CASE pc[a] = "idle" -> "none"
                     [] pc[a] # "idle" /\ core[a] = "done" -> "computed"
                     [] OTHER -> "computing"]
Implements == OL!Spec

(* Every kernel call returns: the thread never sleeps for ever.  TIMEOUT   *)
(* is there "so that the thread does not stall" (intgendriver1.c:78), and  *)
(* only a driver without it lets another process that opens it do that.    *)
CallsReturn ==
  \A a \in Acc :
    pc[a] # "idle" ~>
      pc[a] = "idle" \/ (TIMEOUT[a] = 0 /\ "open" \in disturbed[a])

=============================================================================
