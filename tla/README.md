# Formal model of the ENEAC run-time system

ENEAC runs the iterations of a parallel loop on the cores of a Zynq device and,
at the same time, on hardware functions in its FPGA. A *scheduler* carves the
iteration space into chunks, a *body* runs a chunk on a core or launches it on an
accelerator, an *interrupt generator* in the FPGA and a *kernel driver* let the
thread of an accelerator sleep until its chunk is done, and an *energy meter*
samples the power while all this goes on.

This directory holds TLA+ modules of those parts, TLC configurations that check
small instances of them, and TLAPS proofs for every instance. All paths below
are relative to the root of the repository; `Z` stands for `src/zcu102`.

## 1. Inventory

| Component | State it keeps | Operations | Talks to |
|---|---|---|---|
| **Dynamic scheduler, ZCU102** `Z/*/[Ss]chedulers/MultiDynamic.h` | `begin` of the serial stage; global `nAcc`, `gpuThroughput[]`; thread-local `myAccId`, `chunkCPU`, `cpuThroughput`; one `Bundle` per busy thread | constructor, `heterogeneous_parallel_for`, `MySerialFilter`, `MyParallelFilter` | called by the main program; runs as a TBB pipeline; calls the body |
| **Dynamic scheduler, ZC702** `src/zc702/schedulers/DynamicScheduler.h` | `begin`; atomic `gpuStatus` (accelerator tokens); racing floats `gpuThroughput`, `fG`; thread-local `cpuThroughput`; `totGPU`, `totCPU` | `Initialize`, `heterogeneous_parallel_for`, both stages | as above |
| **LogFit scheduler, ZCU102** `Z/GEMM_host/Schedulers/MultiHap.h` and copies | as MultiDynamic, and: active accelerators, `chunkGPU`, the measured points `x[]` with their counters, exploration / stable phase, stop condition | constructor, `heterogeneous_parallel_for`, both stages | as above |
| **LogFit scheduler, ZC702** `src/zc702/Schedulers/LogFitScheduler.h` | as DynamicScheduler, and: points, phase, stop condition, `nCPUs` with parked accelerators | `Initialize`, `heterogeneous_parallel_for`, both stages | as above |
| **Bodies and kernel calls** `Z/*/Body.h`, `Z/*_18_3_igx4_*/kernel*.cpp` | none between calls; descriptors and `ioctl_flag` | `OperatorCPU`, `OperatorGPU`, `kernelXxxN_hp/_hpc` | launch the core (SDSoC), `ioctl` to a driver |
| **Interrupt generator (VHDL)** `Z/sdsoc_mig4_platform/custom_ig_source` | latch `core_terminated_int`, register `slv_reg0`, AXI handshake | done pulse, register read/write | the core, the bus, the interrupt line |
| **Drivers intgendriver1..4** `Z/petalinux_igx4_kernel_module_drivers` | `flag`, wait queue, `TIMEOUT`, mapped register | probe, remove, open, ioctl, interrupt handler | the interrupt generator and the kernel calls |
| **Energy meter** `Z/energy_meter` | `energy_sample`: two stamps, `now`, energy, mutex, `destroy` | init, start, read, diff, stop, destroy, sampling thread | the main program, the sensors |
| **Main programs, CPU kernels, HLS kernels, clock control, scripts** | data | I/O, arithmetic | - |

Which behaviours are hard, and what makes each part correct:

* *Schedulers.* Threads enter the serial stage in any order, with throughputs
  measured by other threads at other moments; bindings and throughputs survive a
  call. The CPU kernels accumulate into the result (`c_p[..] += ..`,
  `Z/GEMM_host/GEMM.h:100`), so a row that two devices run, or the same one twice,
  is a wrong result: every iteration must run exactly once, the call must wait for
  the last chunk, one accelerator must have one chunk at a time, and the call
  must return.
* *LogFit.* The size of an accelerator chunk is found by measuring, by several
  threads at once, in variables without a lock. The points of the curve must be
  measured once each, be positive and grow, as the logarithms and the slopes between
  neighbours take for granted; accelerators must be
  retired once each; chunks that are measured, tails and shares of the rest mix
  sizes, but must begin at whole blocks.
* *Kernel call, interrupt generator, driver.* Four parties run concurrently, in
  two clock domains, with one flag per driver for all calls. The platform "removes
  spin-locks and allows the processing cores to sleep when not performing useful
  work" (`README.md:10` of the repository): no wake-up may be lost, no
  interrupt may be taken for that of another call, and the call must not return
  before the core is done.
* *Energy meter.* The program and the sampling thread alternate the same two
  stamps, of which only the nanoseconds are used: each interval must be counted
  once, nothing after `stop`, and `destroy` must not free what the thread uses.

`PROJECT.json` lists the hazards one by one, each at its line, with the
properties that watch it or the reason why none does yet.

## 2. Modules

```
ParallelFor <--implements-- MultiDynamic
            <--implements-- Pipeline <--implements-- DynamicScheduler
                                                     MultiHap
                                                     LogFitScheduler
Offload     <--implements-- IrqOffload
                            EnergyMeter
```

`MCX` instantiates `X` for TLC, `X_proofs` holds the theorems about `X`; `Pipeline`
needs no run of its own, since the schedulers' proofs and runs are about it.

**ParallelFor** is what a caller of `heterogeneous_parallel_for` relies on: after
`Start` devices execute sets of iterations nobody has run before, and `Return`
comes when none is left. **Pipeline** lies between it and the schedulers: a serial
stage hands out the space from front to back, threads run what they hold. It leaves
open who gets which chunk, which is all the schedulers differ in, so that what
follows from the pipeline alone is proved once. (`MultiDynamic`, the first one
modelled, is proved to implement `ParallelFor` directly; that it implements the
`Pipeline`, too, is a theorem next to it.) **Counting** is one lemma on finite sets for
the proofs: how a number of threads changes when one of them moves.

**MultiDynamic.** One action per branch of the pipeline: `ParallelForCall` (up to
`pipe.run`), `SerialFilterGPU/CPU/End` (the serial stage, one thread at a time, as
TBB runs it), `OperatorGPU/CPU` (the parallel stage: body, throughput, `delete
bundle`), `PipeReturn`. A TBB thread carries its token through both stages, so a
thread is free or holds one `Bundle`. Execution times are open: a chunk that is
not empty is measured at any throughput in `Speeds`, an empty one at zero. The
quotient `fG = gpu/cpu` is a pair, and the conversions to `int` are integer
divisions; `100` in `(end-begin)/100` and the first guess `8` are `InitialPart` and
`InitialFG`. Proofs and runs hold for any positive values. `Kernels` is the number
of cases in the dispatch of the body; an id without a case runs nothing, as in
the code, and `KernelsAssumption` says how many accelerators are used with it.
`heap` counts allocated bundles.

**DynamicScheduler.** Here threads are not bound: `TakeToken` is `--gpuStatus >= 0`,
`RefuseToken` followed by `SerialCPU` is the thread that is refused and repays,
`ReleaseToken` the `gpuStatus++` of the parallel stage. Those are steps of their
own because threads in the parallel stage run between them. `OperatorGPU/CPU`
writes one throughput and `UpdateFG` then reads both, since they are shared
floats without a lock. `dedicated` distinguishes the builds: with
`HOSTPRI_LINUX`/`HOSTA7` there are no tokens and the main thread takes every
accelerator chunk (`SerialDedicated`); `Init` chooses the build.

**MultiHap.** An accelerator's thread does the calculations of all accelerators in the
serial stage, before it takes its next chunk: `Fits` is the set of their outcomes
(point stored or not, curve found flat or not, chunk of the fit), `Adopt` the part
all its branches share, and the five ways it leaves the stage are `GiveChunk`,
`GiveTail`, `GiveTailToCPU`, `ConcordGPU` and `ConcordCPU`. `SerialFilterCPU` is the
core branch, also of a thread whose accelerator is retired; `executeOnGPU/CPU` is
the parallel stage. The logarithm, the flatness test and the quotient `fG` are open
choices from `FitChunks` and `SpeedUps`: what is shown does not depend on the
quality of the model. Of a throughput the sign is kept, which is what the control
tests. `x[-1]`, which the code reads when no point is stored (`MultiHap.h:433`), is
memory in front of the array and may hold any value in `BeforeX`. At the stop
condition `aproxGPUTh_multi` may give 0 or no number at all (`NoThroughput`: a point
is missing); the accelerator then loses to the core, also to one not measured yet.

**LogFitScheduler.** The tokens of `DynamicScheduler` with measurements in the parallel
stage: after `OperatorGPU` a thread stores its point, doubles the chunk, starts the
exploration again, or fits, and gives its token back afterwards, each in a step of
its own. Once the stop condition holds, an accelerator gets a last chunk or is
parked: its token stays taken and its thread counts as one more core (`nCPUs`). `fG`
is a pair; the throughput of an empty CPU chunk makes it an infinite quotient, as
in the code's floats. What the fit and `getLastChunks` give is open (`FitChunks`,
any last chunk), also where the code divides by 0: a fit of one point
(`LogFitScheduler.h:201`), or the slope of the last interval (`:250`) once the stable
phase has made the last point equal to the one before (`Refit`). It is modelled as the Makefiles build it (`NEWLOGFIT`, `SLOPE`
and `LOGFITFIXEDCHUNK` undefined).

Two facts about the LogFit code the models make visible, neither promised
otherwise by a doc: integer quotients in places that look like ratios
(`begin/(end-begin)<0.2` holds only if the quotient is 0), and a division by
the number of cores that may be 0, which AArch64 answers with 0 (`Div`).

**Offload** is the promise of a kernel call: launch, computation once, return
afterwards. **IrqOffload** is the call itself: `Launch`, `IoctlEnter`, `WaitCheck`,
`WaitTimeout`, `ResetFlag`, `SdsWait` of the host thread; `CoreDone` and `LatchToReg`
of the hardware; `IsrClearReg`, `IsrSetFlag`, `IsrWakeUp` of the handler. Sleeping
is two places, `check` and `asleep`, because the kernel tests the condition with
the thread already queued. `WaitSignal` is a signal that ends the sleep, whose
return value the kernel call ignores, and `Reopen` another process that opens the
device file and so resets the flag; `Disturbances` says to which accelerators either
may happen. `ioctl_flag` (a program argument) and `TIMEOUT` (a module
parameter of each driver) are chosen by `Init`; `FileDesc` gives the descriptor
each kernel is passed.

**EnergyMeter.** The mutex is also the switch of the sampling: `init` takes it,
`start` gives it back, `stop` takes it again, `destroy` gives it back for good.
`read` and `diff` are two steps, `ReadLock` and `ReadSample`, since the sampling
thread starts by writing `now` without the mutex (`SamplerBegin`). It may do so before
either of them, and within the second one between the stamp and the interval, for
each of which the code reads `now`. Power is one
unit, so energy is the time accounted for; `SECOND` ticks make a second and
`Elapsed` subtracts only the ticks within one, as the code subtracts `tv_nsec`. The
struct comes from `malloc`: `LastStamp` is the stamp written last, `now` starts as either half, a stamp as `Unset`, and
`tainted` records that an unwritten stamp was used.

Operators named `X_Something` before an operator `X` are faulty variants of it
("Faulty variant: ..."). No specification uses them; they show that a property
can fail, and which mistake in the code would break it.

## 3. Runs

| Run | Shows | Bounds |
|---|---|---|
| `MultiDynamic_hetero` | types, `RunOnce`, `AcceleratorOwner`, `DevicesNotOversubscribed`, `CallShortens`, `Implements`, `CallReturns` | 1 core, 2 accelerators, 7 iterations, chunk 2, 2 calls, throughputs {1, 3} |
| `MultiDynamic_cores` | `GuidedShrinks`: without accelerators a later chunk is never longer | 3 cores, 9 iterations, 2 calls |
| `MultiDynamic_zero_chunk` | *violates* `CallReturns` | 1 accelerator, chunk 0 |
| `MultiDynamic_leak` | *violates* `NoBundleLeft` | 1 core, 1 accelerator |
| `DynamicScheduler_tokens` | types, `TokensConserved`, `OneChunkOnAccelerator`, `TotalsByDevice`, `CallShortens`, `Implements`, `CallReturns` | 2 cores, 1 accelerator, both builds, 4 iterations, chunk 2, 2 calls |
| `MultiHap_phases` | types, `ActiveCounted`, `PointsApart`, `PointsIncrease`, `BlocksAligned`, `CallShortens`, `Implements`, `CallReturns` | 3 threads, none to 2 of them accelerators, 9 iterations in blocks of 2, 2 calls |
| `LogFitScheduler_tokens` | types, `TokensConserved`, `RunOnce`, `PointsIncrease`, `CallShortens`, `CallReturns` | 3 threads, without and with the accelerator, 17 iterations, fit at 2 points, 2 calls |
| `IrqOffload_call` | types, `NoLostWakeUp`, `SleepUntilOwnInterrupt`, `NoInterruptLeftOver`, `Implements`, `CallsReturn` | 2 accelerators, polled or sleeping, each driver with or without timeout, the first one disturbed by signals and a second opener, the second given the first's descriptor; 2 calls each |
| `IrqOffload_late` | *violates* `SleepUntilInterrupt` | 1 accelerator with a timeout, 3 calls |
| `IrqOffload_descriptor` | *violates* `SleepUntilInterrupt` | 2 accelerators, both given the descriptor of driver 1 |
| `EnergyMeter_meter` | types, `AccountedOnce`, `DiffIsBetween`, `FrozenAfterStop`, `DestroyReturns` | seconds of 3 ticks, clock to 6 |
| `EnergyMeter_cold` | *violates* `ReadingsAreTaken` | clock to 5 |

Why the bounds are enough. In the scheduler runs the space is a few chunks long
and neither a multiple of them nor of the CPU chunks, so that last chunks are
clipped, some threads find nothing left and others take several chunks; a second
call starts with the bindings and throughputs the first one left. Two speeds
with the ratio 3 make CPU chunks both larger and smaller than an even share and
drive the quotient to zero, which the floor of one iteration must catch. Two
accelerators are what a collision needs. Two calls per accelerator are what a
stale interrupt needs (the late interrupt needs one more to show that the
damage continues). In the LogFit runs the space holds an exploration of several
doublings, a stable phase and both kinds of end; `NumberPoints` and `numberPoints` are
smaller than the 4 of the code, so that a flat curve is found within it, and the
second call starts in the phase the first one ended in. Nine iterations in blocks
of two leave a partial block at the end. Six ticks of a second of three let every interval cross the
turn of a second, and `MaxGap < SECOND` is the demand of `energy_meter.h:116`.
Where a run checks `Implements`, `RunOnce` or the completeness of a return need no run of their
own: a `ParallelFor` executes pending iterations only and returns when none is left;
both are proved all the same.
The bounds on time steps and calls (`MaxCalls`, `MaxJobs`, `MaxClock`) stop the
model where the program would go on, hence `CHECK_DEADLOCK FALSE`.

Fairness. The schedulers assume that TBB gives the serial stage to *some* free
thread while there is input, that a chunk given to a device ends (no thread is
starved inside a stage), and that `pipe.run` returns when nothing is in flight; no
fairness is assumed for a particular thread to enter, so a thread that is never
scheduled is covered. The kernel call assumes that cores compute, clocks tick,
interrupts are served, runnable threads run and a timer that was set expires;
neither the launch nor a disturbance is fair. A call returns under it unless
another process reset the flag of a driver without a timeout. The meter assumes that the sampling thread runs and that a join
returns; what the program calls is its own affair. A free mutex goes to whoever
takes it next: no order of the waiting threads is assumed.

### What the violating runs found

* `MultiDynamic_zero_chunk`: the programs accept an accelerator chunk of 0 (the
  usage text says "0 or higher integer", `Z/GEMM_host/GEMM.h:80`); with the Dynamic
  scheduler the serial stage hands out empty chunks for ever, and if every thread
  is bound to an accelerator the call never returns.
* `MultiDynamic_leak`: the bundle allocated before the end of the input is noticed
  (`MultiDynamic.h:142`) is never deleted, one per call, although the code deletes
  the others "to avoid memory leaking" (`:335`).
* `IrqOffload_late`: an interrupt later than the driver's `TIMEOUT` sets the flag
  with nobody waiting; the next call's sleep ends at once, its own interrupt is
  late in turn, and so on. Results stay right, the sleeping does not. (The module
  comment says the default is 15 s, `intgendriver1.c:79`; `TIMEOUT` has no initial
  value and is 0, no timeout, unless given.)
* `IrqOffload_descriptor`: `Z/SPMM_host/SPMM_fast/Body.h:77` and the lines that follow
  pass `file_desc_1` to kernels 2 to 4; driver 1 does not know their ioctl number
  and returns success without sleeping.
* `EnergyMeter_cold`: a reading right after `energy_meter_start`, as the example
  program makes it (`main_energy_meter.c:69`), may come before the first sample and
  then subtracts a stamp nobody has written. The trace is just that: start, and
  both halves of a read, with the sampling thread not yet begun; its write of `now`
  without the mutex is not needed for it. `ReadingsAreTaken` speaks of what `read`
  and `diff` store; that `stop` has the same defect shows in `tainted`, not here.

## 4. Proofs

**`MultiDynamic_proofs`** (for every number of threads, up to the four accelerators
the bodies know, every chunk size, space, set of throughputs and number of calls)
proves `TypeCorrect`, `RunsOnce`, `OwnersDistinct`, `ReturnsComplete` and
`ImplementsPromise` from the assumptions the module states on its constants.
`RunOnce` alone is not inductive: nothing in it stops two threads from holding the
same iteration. `IInv` adds

* `HeldBelow`: what a thread holds lies below `begin`, and a free thread holds
  nothing;
* `HeldApart`: the chunks of two threads do not overlap;
* `Quiet`: outside a call the input has ended and nobody is busy; ended input
  means `begin = Last`;
* `FreeBelow`: the unbound accelerators are `1..nAcc`, which makes
  `AcceleratorOwner` inductive;
* the types, which bring in the arithmetic of the partitioner: its divisions
  have positive divisors and stay in `Nat` (`DivNat`, `FastestNat`, `NextChunkNat`), and
  a chunk ends inside the space (`ChunkEndBounds`).

`ClaimKeeps` and `RunKeeps` are the two lemmas of substance: taking a chunk moves
`begin` over exactly the iterations that become held, and running one turns
exactly the held ones into run ones. The refinement follows: a run chunk is a set
of `Pending` iterations, since held ones have not been run, and at the return
`begin = Last` with nobody busy leaves none pending. Nothing is assumed about how
large `NextChunkCPU` is beyond being a natural number: the exactness of the
schedule does not depend on the quality of the estimate.

**`IrqOffload_proofs`** (every number of accelerators and calls, every descriptor,
every `TIMEOUT`, polled or not) proves `TypeCorrect`, `WakeUpNotLost`,
`SleepsUntilInterrupt`, `NothingLeftOver` and `ImplementsPromise`. `IInv` adds

* `InCall`: the core is busy exactly while its thread is in a call, and the
  register never outlives the latch;
* `WakeUpAhead`: a thread that will sleep has the core, the latch, the register,
  the handler or the flag ahead of it, and one asleep with its flag set is about
  to be woken;
* `OnePerCall`: for a thread that sleeps undisturbed on its own driver without a
  timeout the interrupt of the call is nowhere before the core is done, in exactly one place
  from then on, and consumed by the ioctl.

The driver and the timeout in the conditions of `OnePerCall` are necessary: the two
violating runs show what happens without either.

**`Pipeline_proofs`** proves for every space and set of threads that the pipeline runs
every iteration exactly once and implements `ParallelFor`, from three facts: chunks
held by two threads are disjoint, what is held lies below `begin`, and outside a call
nothing is held. The proofs of the other three schedulers instance it: each shows
that every step of its scheduler is a pipeline step or none, and inherits `Inv`.

**`DynamicScheduler_proofs`** (every number of cores, both builds) proves `TypeCorrect`,
`TokensKept`, `AcceleratorExclusive`, `TotalsTrue`, `RunsOnce` and `ImplementsPromise`. `IInv`
adds `Places` (what a thread in each place holds), `Refused` (a refused thread is
still free, and there is a chunk and a core for it) and `Owned` (in the build without
tokens accelerator chunks are the main thread's). That `OneChunkOnAccelerator` follows
from the tokens is the point of counting the refused thread among them.

**`MultiHap_proofs`** (every number of threads and accelerators, every block, fit and
ratio) proves `TypeCorrect`, `RunsOnce`, `ActivesCounted`, `OwnersDistinct`, `PointsDistinct`,
`PointsGrow`, `ChunksAligned` and `ImplementsPromise`. `IInv` adds

* `Numbered`: a new point costs an iteration, so `PointsAssumption` (no more iterations
  in all calls than `x` has places) keeps the points inside `x`; the code does not look;
* `Exploring`: in the exploration the points of different threads differ, and the
  points under way and to come are empty;
* `Single`: a single accelerator stores its points in order, its next one is not
  before the last one stored. With two accelerators the points need not grow,
  whatever the comment at `MultiHap.h:433` says: chunks may end in another order. A
  gap that leaves disables the test for flatness;
* `Blocks`, an invariant next to `IInv`, for `BlocksAligned`: every size is a multiple of `CHUNKALIGN`, or covers
  the whole space. It holds until the stop condition: concord chunks of an
  accelerator (`MultiHap.h:634`) are not aligned, and the property does not speak of them.

**`LogFitScheduler_proofs`** (every number of threads, fit and throughput) proves
`TypeCorrect`, `TokensKept`, `AcceleratorExclusive`, `RunsOnce`, `PointsGrow` and
`ImplementsPromise`. Besides `Places` and `Refused`, `IInv` has `Devices` (chunks and parked
accelerators are at most `numGPUs`), `StopStable` (the stop condition holds only in the
stable phase), `Filled` (an accelerator chunk is never empty, so its throughput is
positive and `fG` can be divided by) and `Enough` (`measurements <= x[measurements]`:
points grow by at least one, so a call shorter than `x` cannot overrun it).
`PointsGrow` covers all phases: while exploring, all points grow and are positive, a
restart forgets them, and in the stable phase only the last one moves. It is kept
because a point is stored only behind a smaller one and `Refit` writes no other. Of
the slopes it protects all but the last: `x[measurements-1] < x[measurements]` is false
in the stable phase, which TLC shows at once, so nothing is claimed of that interval.

**`EnergyMeter_proofs`** (every length of a second, gap below it and clock) proves
`TypeCorrect`, `EveryMomentOnce`, `DiffTrue` and `StaysFrozen`. Its lemma
`NanosecondsSuffice` is why the nanoseconds alone are enough: two stamps less than a
second apart differ by what `Elapsed` computes, also across the turn. `IInv` adds
`Locked` (who holds the mutex where, and that the sampling thread ends before the
struct is freed), `Early` and `Late` (before the first sample nothing is accounted for;
from then on `LastStamp` is no older than `MaxGap`) and `ReadUpTo` (a reading is the
energy up to its moment, which is what a diff subtracts).

`MultiDynamic_proofs` also proves `NotOversubscribed`, from `Bindings` (bound
accelerators and free ones are `nGPUs`, and a thread has a core chunk only when none is
free), and `Guided`, from `Shrinking` (the next guided chunk is no longer than any
under way).

### Termination, as far as it can be proved

That a call returns is a liveness property: it needs that the next step is possible
and is taken, that is ENABLED and fairness, and stays with TLC. The other half, that
no call goes round in circles, is safety, and is proved for every value of the
constants. Each scheduler has a measure `StepsLeft`, an upper bound on the steps a call
still takes, and the action property `CallShortens`: every step within a call makes it
smaller. `CallIsFinite` proves that together with the bound on the measure:

| Module | Steps of a call at most | What has to be shown |
|---|---|---|
| `MultiDynamic` | `2*(Last-First) + 2` | no chunk is empty: the floor of one iteration for cores, a positive `ChunkGPU` |
| `DynamicScheduler` | `4*(Last-First) + 2` | a refused thread takes a chunk before another one is refused; a core's share of what is left is not 0 |
| `MultiHap` | `2*(Last-First) + 2*nGPUs + 2` | an empty tail or concord chunk retires an accelerator; doubling, fitting and rounding to blocks make no chunk empty |
| `LogFitScheduler` | `4*(Last-First) + 3*numGPUs + 2` | an empty concord chunk goes with a parked accelerator, which stays parked until the call returns; explorations may start again, but each costs a chunk |
| `IrqOffload_proofs` | 19 for each accelerator | a woken thread that finds its flag reset sleeps again, but only an interrupt wakes it, and the latch holds one |
| `EnergyMeter_proofs` | 4 from the start of `destroy`, besides the clock's | after `destroy` the sampling thread begins no other turn, and nobody holds the mutex it needs |

The theorem of `MultiDynamic` has the hypothesis `ChunkGPU > 0 \/ nGPUs = 0`. It is
necessary: with the chunk of 0 the usage text allows, an accelerator's thread takes
empty chunks for ever, which is the finding of `MultiDynamic_zero_chunk`. For a thread
in the kernel call and in `destroy` the measure and the property are defined in the
proofs module (`CallShortens`, `JoinNears`) and have no run; with `NoLostWakeUp`, which says
that somebody is left who takes the next step, they are the safety part of
`CallsReturn` and `DestroyReturns`.

`EnergyMeter_proofs` also proves `TaintedOnlyCold`: energy is accounted from a stamp nobody
wrote only while the sampling thread has not taken its first sample. A reading, a diff
or a stop before that sample is thus the only way to it, and a program that waits for
the first sample is safe.

Each scheduler's proofs end with `ImplementsPipeline`, the refinement of `Pipeline` as a
temporal theorem. In `MultiDynamic` its two lemmas are `ClaimTakes` (leaving the serial
stage with a `Bundle` is taking its iterations, on either branch) and `ReleaseRuns`.

Only model-checked: the liveness properties (`CallReturns`, `CallsReturn`,
`DestroyReturns`), since ENABLED and fairness are out of the prover's reach. Every
invariant and every other action property of a passing run is proved. Some theorems
are about nothing a run checks: `ReturnsComplete`, `RunsOnce` of `DynamicScheduler` and
`MultiHap` and `ImplementsPipeline`, which go with `Implements`; `OwnersDistinct` of `MultiHap`,
whose binding is that of `MultiDynamic`, where a run checks it; `AcceleratorExclusive` and
`ImplementsPromise` of `LogFitScheduler`; `TaintedOnlyCold` and the last two rows of the table.

## 5. Not modelled

The numeric kernels, on cores and in hardware, are data: to the models a chunk is
run or it is not. That includes which columns `gemmCPU` touches when `mat_dim` is
not a multiple of its block (`GEMM.h:86-110`). Left out for good: argument parsing,
files, printing, traces and thread affinity; the sensors (register I/O); the clock
control (a sequence of register writes); the older energy meter of the ZC702, which
has the structure of the one modelled; the scripts and plots.

Most of the repository's lines are generated Xilinx and board-support code, headers of
the platform, and copies: each host directory has its own copy of the schedulers, and
those that differ only in affinity and printing are represented by one of them.
`Z/SPMM_host/SPMM_fast/Schedulers/MultiHap.h` is an older version without
`anyFPGArunning` and is not modelled. Within the modelled parts the following is left
out:

* the posted write of the interrupt handler, which is atomic here: on the board
  the handler may return before the write clears a level-triggered line, and how
  long the interconnect posts it is not in the sources; likewise the AXI handshakes of
  the generated slave template: a register write is one step;
* probe and remove of the drivers with their error paths: straight-line functions
  before and after every call;
* the lost updates of the plain counters `bodies_F` and `bodies_C`;
* the copies between cached and non-cacheable buffers of the HP kernels;
* in the LogFit schedulers the chunk statistics and the reset branch `if(0 && ..)`;
  totals in `LogFitScheduler`;
* `meter_function_debug`, which samples as `meter_function` does and logs.

## 6. What could follow

1. A bus between the handler and the interrupt generator, if the order its writes
   are posted in is to be relied on.
2. A composition of `MultiDynamic` with `IrqOffload`: the parallel stage of a bound
   thread is a kernel call, and `AcceleratorOwner` is what lets `IrqOffload` name
   threads by accelerator.
3. The blocks of `gemmCPU` against the rows and columns it was given.

The driver of the ZC702 (`src/zc702/my_driver.ko`) is in the repository only as a
binary and cannot be modelled from it.
