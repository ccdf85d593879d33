------------------------------ MODULE EnergyMeter ------------------------------
(***************************************************************************)
(* The energy meter of the ZCU102 hosts (zcu102/energy_meter).             *)
(*                                                                         *)
(* A sampling thread and the thread that uses the API share one            *)
(* energy_sample under a mutex, which is also what starts and stops the    *)
(* sampling: init takes it, start gives it back, stop takes it again and   *)
(* destroy gives it back for good.  Every sample multiplies the power it   *)
(* reads by the time since the sample before, whose stamp is the other     *)
(* half of res[2]; only the nanoseconds of the stamps are used.            *)
(*                                                                         *)
(* Power is taken to be one unit, so that energy is the time accounted     *)
(* for.  The clock counts ticks, SECOND of them a second.  The struct      *)
(* comes from malloc: now, res and power hold whatever was there until     *)
(* they are first written.                                                 *)
(***************************************************************************)
EXTENDS Integers

CONSTANTS
  SECOND,    (* Ticks in a second.                                         *)
  MaxGap,    (* Longest time between two samples of the sampling thread.   *)
  MaxClock   (* Bound on the clock.                                        *)

(* "sample_rate is the sampling period in miliseconds must be < 1 second"  *)
(* (energy_meter.h:116).                                                   *)
ASSUME TimeAssumption ==
  /\ SECOND \in Nat \ {0}
  /\ MaxGap \in 0..(SECOND - 1)
  /\ MaxClock \in Nat

VARIABLES
  clock,      (* CLOCK_REALTIME.                                           *)
  mutex,      (* Who holds the mutex: "main", "sampler" never between      *)
              (* steps, "none".                                            *)
  main,       (* Where the user of the API is.                             *)
  sampler,    (* Where the sampling thread is.                             *)
  now,        (* Which half of res has the last stamp.                     *)
  res,        (* The two stamps.                                           *)
  energy,     (* Energy so far, at one unit of power.                      *)
  tainted,    (* Was energy computed from a stamp nobody has written?      *)
  startTime, stopTime,
  firstTime,  (* When the sampling thread took its first sample.           *)
  em          (* The em_t of the user: the energy energy_meter_read or     *)
              (* _diff stored in it, and the time that spans.              *)

vars == <<clock, mutex, main, sampler, now, res, energy, tainted, startTime,
          stopTime, firstTime, em>>

Unset == -1
Ticks == 0..MaxClock

(* energy_meter_init: the sampling thread exists, the mutex is taken.      *)
Init ==
  /\ clock \in 0..(SECOND - 1) /\ clock <= MaxClock
  /\ mutex = "main"
  /\ main = "inited"
  /\ sampler = "new"
  /\ now \in {0, 1}
  /\ res = [i \in {0, 1} |-> Unset]
  /\ energy = 0
  /\ tainted = FALSE
  /\ startTime = Unset /\ stopTime = Unset /\ firstTime = Unset
  /\ em = [kind |-> "none", energy |-> 0, span |-> 0, at |-> Unset]

(* Is the sampling thread at work, so that its period bounds the gaps?     *)
Sampling == main \in {"running", "read", "diff"} /\ sampler = "loop"

(* The stamp of the last sample: a reading under way has turned now. *)
LastStamp == res[IF main \in {"read", "diff"} THEN 1 - now ELSE now]

(* Time passes.  The thread samples at least every MaxGap ticks.           *)
Tick ==
  /\ clock < MaxClock
  /\ Sampling => clock - LastStamp < MaxGap
  /\ clock' = clock + 1
  /\ UNCHANGED <<mutex, main, sampler, now, res, energy, tainted, startTime,
                 stopTime, firstTime, em>>

-----------------------------------------------------------------------------
(* Faulty variant: no correction when the second has turned over. *)
Elapsed_NoWrap(later, earlier) == (later % SECOND) - (earlier % SECOND)

(* "get time interval !!! only nanoseconds". *)
Elapsed(later, earlier) ==
  LET d == (later % SECOND) - (earlier % SECOND)
  IN  IF d < 0 THEN d + SECOND ELSE d

(* energy += power * secs, for the time from one stamp to another. *)
Account(later, earlier) ==
  /\ energy' = IF Unset \in {later, earlier} THEN energy
               ELSE energy + Elapsed(later, earlier)
  /\ tainted' = (tainted \/ Unset \in {later, earlier})

-----------------------------------------------------------------------------
(* The user of the API.                                                    *)

(* energy_meter_start. *)
Start ==
  /\ main = "inited"
  /\ main' = "running"
  /\ startTime' = clock
  /\ mutex' = "none"
  /\ UNCHANGED <<clock, sampler, now, res, energy, tainted, stopTime, firstTime, em>>

(* The program calls the meter once it runs; it need not have sampled yet. *)
MayCall == main = "running" /\ mutex = "none"

(* Faulty variant: the other half of res is not used. *)
ReadLock_NoToggle(op) ==
  /\ MayCall
  /\ op = "diff" => em.kind = "read"
  /\ mutex' = "main"
  /\ main' = op
  /\ UNCHANGED <<clock, sampler, now, res, energy, tainted, startTime, stopTime,
                 firstTime, em>>

(* energy_meter_read and _diff take the mutex and turn to the other half.  *)
(* A diff follows the read it is made with.                                *)
ReadLock(op) ==
  /\ MayCall
  /\ op = "diff" => em.kind = "read"
  /\ mutex' = "main"
  /\ main' = op
  /\ now' = 1 - now
  /\ UNCHANGED <<clock, sampler, res, energy, tainted, startTime, stopTime,
                 firstTime, em>>

(* The sample itself.  now is read again for the stamp, and once more for  *)
(* the interval; the sampling thread may write it before either, and the   *)
(* stamp is then not that of the half the interval ends with.              *)
ReadSample(op) ==
  /\ main = op
  /\ res' = [res EXCEPT ![now] = clock]
  /\ \/ UNCHANGED <<now, sampler>>
     \/ sampler = "new" /\ sampler' = "first" /\ now' = 0
  /\ Account(res'[now'], res'[1 - now'])
  /\ em' = IF op = "read"
             THEN [kind |-> "read", energy |-> energy', span |-> 0, at |-> clock]
             ELSE [kind |-> "diff", energy |-> energy' - em.energy,
                   span |-> clock - em.at, at |-> clock]
  /\ main' = "running"
  /\ mutex' = "none"
  /\ UNCHANGED <<clock, startTime, stopTime, firstTime>>

(* Faulty variant: the mutex is given back. *)
Stop_Unlocks ==
  /\ MayCall
  /\ main' = "stopped"
  /\ stopTime' = clock
  /\ Account(clock, res[now])
  /\ UNCHANGED <<clock, mutex, sampler, now, res, startTime, firstTime, em>>

(* energy_meter_stop keeps the mutex; the last stamp stays what it is. *)
Stop ==
  /\ MayCall
  /\ mutex' = "main"
  /\ main' = "stopped"
  /\ stopTime' = clock
  /\ Account(clock, res[now])
  /\ UNCHANGED <<clock, sampler, now, res, startTime, firstTime, em>>

(* Faulty variant: the mutex is kept. *)
Destroy_KeepsMutex ==
  /\ main = "stopped"
  /\ main' = "joining"
  /\ UNCHANGED <<clock, mutex, sampler, now, res, energy, tainted, startTime,
                 stopTime, firstTime, em>>

(* energy_meter_destroy up to pthread_join: sample->destroy is set. *)
Destroy ==
  /\ main = "stopped"
  /\ main' = "joining"
  /\ mutex' = "none"
  /\ UNCHANGED <<clock, sampler, now, res, energy, tainted, startTime, stopTime,
                 firstTime, em>>

(* pthread_join returns, and the struct is freed. *)
Join ==
  /\ main = "joining"
  /\ sampler = "exited"
  /\ main' = "freed"
  /\ UNCHANGED <<clock, mutex, sampler, now, res, energy, tainted, startTime,
                 stopTime, firstTime, em>>

-----------------------------------------------------------------------------
(* The sampling thread, meter_function.                                    *)

(* sample->now=0, without the mutex. *)
SamplerBegin ==
  /\ sampler = "new"
  /\ now' = 0
  /\ sampler' = "first"
  /\ UNCHANGED <<clock, mutex, main, res, energy, tainted, startTime, stopTime,
                 firstTime, em>>

(* The first sample fills the first half of res, whatever now is. *)
FirstSample ==
  /\ sampler = "first"
  /\ mutex = "none"
  /\ res' = [res EXCEPT ![0] = clock]
  /\ firstTime' = clock
  /\ sampler' = "loop"
  /\ UNCHANGED <<clock, mutex, main, now, energy, tainted, startTime, stopTime, em>>

(* One round of the loop: sample->destroy is not set. *)
Sample ==
  /\ sampler = "loop"
  /\ mutex = "none"
  /\ main # "joining"
  /\ now' = 1 - now
  /\ res' = [res EXCEPT ![1 - now] = clock]
  /\ Account(clock, res[now])
  /\ UNCHANGED <<clock, mutex, main, sampler, startTime, stopTime, firstTime, em>>

(* sample->destroy is set: the thread ends. *)
SamplerExit ==
  /\ sampler = "loop"
  /\ mutex = "none"
  /\ main = "joining"
  /\ sampler' = "exited"
  /\ UNCHANGED <<clock, mutex, main, now, res, energy, tainted, startTime,
                 stopTime, firstTime, em>>

-----------------------------------------------------------------------------
Next ==
  \/ Tick
  \/ Start
  \/ \E op \in {"read", "diff"} : ReadLock(op)
  \/ \E op \in {"read", "diff"} : ReadSample(op)
  \/ Stop
  \/ Destroy
  \/ Join
  \/ SamplerBegin
  \/ FirstSample
  \/ Sample
  \/ SamplerExit

Spec == Init /\ [][Next]_vars

(* The sampling thread runs, and join returns when it has ended; what the  *)
(* user calls and when is the program's affair.                            *)
FairSpec ==
  /\ Spec
  /\ WF_vars(SamplerBegin) /\ WF_vars(FirstSample)
  /\ WF_vars(Sample) /\ WF_vars(SamplerExit)
  /\ WF_vars(Join)

-----------------------------------------------------------------------------
Stamps == Ticks \union {Unset}

TypeOK ==
  /\ clock \in Ticks
  /\ mutex \in {"none", "main"}
  /\ main \in {"inited", "running", "read", "diff", "stopped", "joining", "freed"}
  /\ sampler \in {"new", "first", "loop", "exited"}
  /\ now \in {0, 1}
  /\ res \in [{0, 1} -> Stamps]
  /\ energy \in Nat
  /\ tainted \in BOOLEAN
  /\ startTime \in Stamps /\ stopTime \in Stamps /\ firstTime \in Stamps
  /\ em \in [kind : {"none", "read", "diff"}, energy : Int, span : Nat, at : Stamps]

(* Whoever takes the samples, in whatever order: each moment from the      *)
(* first sample to the last stamp, and to the stop once there is one, is   *)
(* accounted for exactly once, also across the turn of a second.           *)
AccountedOnce ==
  ~ tainted /\ firstTime # Unset =>
    \/ main \in {"running", "read", "diff"} /\ energy = LastStamp - firstTime
    \/ main \in {"stopped", "joining", "freed"} /\ energy = stopTime - firstTime

(* "read the current accumulated energy between to points (A) and (B)"     *)
(* (energy_meter.h:188): what _diff stores is the time between the two.    *)
DiffIsBetween == ~ tainted /\ em.kind = "diff" => em.energy = em.span

(* The results are printed without the mutex: after stop no sample changes *)
(* them.                                                                   *)
FrozenAfterStop ==
  [][(main \in {"stopped", "joining", "freed"}) => energy' = energy]_vars

(* "Makes a new sample => readings are updated up to this moment"          *)
(* (energy_meter.h:176): what _read or _diff stored does not rest on a     *)
(* stamp that was never taken.                                             *)
ReadingsAreTaken == em.kind # "none" => ~ tainted

(* energy_meter_destroy returns. *)
DestroyReturns == main = "joining" ~> main = "freed"

=============================================================================
