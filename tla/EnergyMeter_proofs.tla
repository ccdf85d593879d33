--------------------------- MODULE EnergyMeter_proofs ---------------------------
(***************************************************************************)
(* Proofs about the energy meter, for every length of the second and every *)
(* sampling period below it.                                               *)
(***************************************************************************)
EXTENDS EnergyMeter, TLAPS

USE TimeAssumption

Ended == {"stopped", "joining", "freed"}
Reading == {"read", "diff"}

-----------------------------------------------------------------------------
(* The inductive invariant.                                                *)

(* The mutex says where the user is, and the sampling thread ends last.    *)
Locked ==
  /\ mutex = "none" <=> main \in {"running", "joining", "freed"}
  /\ main = "freed" => sampler = "exited"
  /\ sampler = "exited" => main \in {"joining", "freed"}
  /\ main \in Ended => stopTime # Unset
  /\ firstTime = Unset <=> sampler \in {"new", "first"}

(* Before the first sample nothing has been read that counts, and the      *)
(* first half of res is where the sampling thread will look for it.        *)
Early ==
  ~ tainted /\ sampler \in {"new", "first"} =>
    /\ \A i \in {0, 1} : res[i] = Unset
    /\ energy = 0
    /\ em.kind = "none"
    /\ main \notin Ended
    /\ sampler = "first" /\ main \notin Reading => now = 0

(* From then on the last stamp is one of the clock, no older than a gap.   *)
Late ==
  ~ tainted /\ sampler \in {"loop", "exited"} /\ main \notin Ended =>
    /\ main # "inited"
    /\ LastStamp \in Nat
    /\ LastStamp <= clock /\ clock - LastStamp <= MaxGap

(* What has been read is the energy up to the moment it was read, and a    *)
(* difference is taken to it.                                              *)
ReadUpTo ==
  /\ em.at <= clock
  /\ main = "diff" => em.kind = "read"
  /\ ~ tainted /\ em.kind = "read" => em.energy = em.at - firstTime

IInv ==
  /\ TypeOK
  /\ Locked
  /\ Early
  /\ Late
  /\ ReadUpTo
  /\ AccountedOnce
  /\ DiffIsBetween

-----------------------------------------------------------------------------
(* Multiples are apart. *)
LEMMA Multiples ==
  ASSUME NEW s \in Nat \ {0}, NEW q \in Int
  PROVE  /\ q >= 2 => s * q >= s + s
         /\ q <= -1 => s * q <= - s
         /\ q = 0 => s * q = 0
         /\ q = 1 => s * q = s
OBVIOUS

(* Nanoseconds alone tell the time between two stamps that are less than a *)
(* second apart, whatever seconds they lie in.                             *)
LEMMA NanosecondsSuffice ==
  ASSUME NEW later \in Nat, NEW earlier \in Nat,
         earlier <= later, later - earlier < SECOND
  PROVE  Elapsed(later, earlier) = later - earlier
<1> DEFINE q1 == later \div SECOND
           q2 == earlier \div SECOND
           r1 == later % SECOND
           r2 == earlier % SECOND
<1>1. /\ q1 \in Int /\ q2 \in Int /\ r1 \in 0..(SECOND - 1) /\ r2 \in 0..(SECOND - 1)
      /\ later = SECOND * q1 + r1 /\ earlier = SECOND * q2 + r2
  OBVIOUS
<1>2. Elapsed(later, earlier) = IF r1 - r2 < 0 THEN (r1 - r2) + SECOND ELSE r1 - r2
  BY DEF Elapsed
<1> HIDE DEF q1, q2, r1, r2
<1> DEFINE q == q1 - q2
<1>3. SECOND * q = SECOND * q1 - SECOND * q2
  BY <1>1
<1>4. q \in Int /\ SECOND * q1 \in Int /\ SECOND * q2 \in Int
  BY <1>1
<1>5. later - earlier = SECOND * q + (r1 - r2)
  BY <1>1, <1>3, <1>4
<1> HIDE DEF q
<1>6. q = 0 \/ q = 1
  <2>1. ~ q >= 2
    BY <1>1, <1>4, <1>5, Multiples
  <2>2. ~ q <= -1
    BY <1>1, <1>4, <1>5, Multiples
  <2>3. QED BY <1>4, <2>1, <2>2
<1>7. SECOND * q = IF q = 0 THEN 0 ELSE SECOND
  BY <1>6, Multiples
<1>8. QED BY <1>1, <1>2, <1>5, <1>6, <1>7

(* A sample adds the time since the last one, or taints the energy. *)
LEMMA AccountAdds ==
  ASSUME TypeOK, NEW later \in Stamps, NEW earlier \in Stamps, Account(later, earlier)
  PROVE  /\ energy' \in Nat
         /\ tainted' \in BOOLEAN
         /\ ~ tainted' => ~ tainted /\ later \in Nat /\ earlier \in Nat
         /\ ~ tainted' /\ earlier <= later /\ later - earlier <= MaxGap
              => energy' = energy + (later - earlier)
<1>1. energy \in Nat /\ MaxClock \in Nat
  BY DEF TypeOK
<1>2. /\ later = Unset \/ later \in Nat
      /\ earlier = Unset \/ earlier \in Nat
  BY DEF Ticks, Stamps
<1>3. tainted \in BOOLEAN
  BY DEF TypeOK
<1>4. tainted' = (tainted \/ Unset \in {later, earlier})
  BY DEF Account
<1>5. CASE Unset \in {later, earlier}
  <2>1. energy' = energy /\ tainted'
    BY <1>4, <1>5 DEF Account
  <2>2. tainted' \in BOOLEAN
    BY <1>3, <1>4
  <2>3. QED BY <1>1, <2>1, <2>2
<1>6. CASE Unset \notin {later, earlier}
  <2>1. later \in Nat /\ earlier \in Nat
    BY <1>2, <1>6
  <2>2. energy' = energy + Elapsed(later, earlier)
    BY <1>6 DEF Account
  <2>3. Elapsed(later, earlier) \in Nat
    <3>1. (later % SECOND) \in 0..(SECOND - 1) /\ (earlier % SECOND) \in 0..(SECOND - 1)
      BY <2>1
    <3>2. QED BY <3>1 DEF Elapsed
  <2>4. energy' \in Nat
    BY <1>1, <2>2, <2>3
  <2>5. earlier <= later /\ later - earlier <= MaxGap
          => energy' = energy + (later - earlier)
    BY <2>1, <2>2, NanosecondsSuffice
  <2>6. tainted' = tainted
    BY <1>3, <1>4, <1>6
  <2>7. QED BY <1>3, <2>1, <2>4, <2>5, <2>6
<1>7. QED BY <1>5, <1>6

-----------------------------------------------------------------------------
(* Every step keeps the invariant.                                         *)

(* Numbers, to calculate with. *)
LEMMA Numbers ==
  ASSUME TypeOK
  PROVE  /\ clock \in Nat /\ energy \in Nat /\ MaxGap \in Nat
         /\ \A s \in Stamps : s \in Int /\ (s # Unset => s \in Nat)
         /\ firstTime \in Stamps /\ stopTime \in Stamps /\ em.at \in Stamps
         /\ em.energy \in Int /\ em.span \in Nat
         /\ \A i \in {0, 1} : res[i] \in Stamps
         /\ 1 - now \in {0, 1} /\ now \in {0, 1} /\ 1 - (1 - now) = now
<1>1. /\ clock \in Nat /\ energy \in Nat /\ MaxGap \in Nat
      /\ \A s \in Stamps : s \in Int /\ (s # Unset => s \in Nat)
  BY DEF TypeOK, Stamps, Ticks, Unset
<1>2. now \in {0, 1} /\ 1 - now \in {0, 1} /\ 1 - (1 - now) = now
  BY DEF TypeOK
<1>3. QED BY <1>1, <1>2 DEF TypeOK

(* The two threads start, wait and end without touching a sample. *)
LEMMA QuietKeeps ==
  ASSUME IInv, Start \/ SamplerBegin \/ Destroy \/ Join \/ SamplerExit
  PROVE  IInv'
<1>1. TypeOK /\ Locked /\ Early /\ Late /\ ReadUpTo /\ AccountedOnce /\ DiffIsBetween
  BY DEF IInv
<1>2. UNCHANGED <<clock, res, energy, tainted, stopTime, firstTime, em>>
  BY DEF Start, SamplerBegin, Destroy, Join, SamplerExit
<1>3. ReadUpTo' /\ DiffIsBetween'
  <2>1. main' = "diff" => main = "diff"
    BY DEF Start, SamplerBegin, Destroy, Join, SamplerExit
  <2>2. QED BY <1>1, <1>2, <2>1 DEF ReadUpTo, DiffIsBetween
<1>4. CASE Start
  <2>1. /\ main = "inited" /\ main' = "running" /\ startTime' = clock /\ mutex' = "none"
        /\ UNCHANGED <<sampler, now>>
    BY <1>4 DEF Start
  <2>2. TypeOK'
    BY <1>1, <1>2, <2>1 DEF TypeOK, Stamps
  <2>3. Locked' /\ Early'
    BY <1>1, <1>2, <2>1 DEF Locked, Early, Ended, Reading
  <2>4. Late'
    BY <1>1, <1>2, <2>1 DEF Late, Locked, Ended
  <2>5. AccountedOnce'
    BY <1>1, <1>2, <2>1 DEF AccountedOnce
  <2>6. QED BY <1>3, <2>2, <2>3, <2>4, <2>5 DEF IInv
<1>5. CASE SamplerBegin
  <2>1. /\ sampler = "new" /\ sampler' = "first" /\ now' = 0
        /\ UNCHANGED <<mutex, main, startTime>>
    BY <1>5 DEF SamplerBegin
  <2>2. TypeOK'
    BY <1>1, <1>2, <2>1 DEF TypeOK
  <2>3. Locked'
    BY <1>1, <1>2, <2>1 DEF Locked
  <2>4. Early' /\ Late'
    BY <1>1, <1>2, <2>1 DEF Early, Late
  <2>5. firstTime' = Unset
    BY <1>1, <1>2, <2>1 DEF Locked
  <2>6. AccountedOnce'
    BY <2>5 DEF AccountedOnce
  <2>7. QED BY <1>3, <2>2, <2>3, <2>4, <2>6 DEF IInv
<1>6. CASE Destroy \/ Join \/ SamplerExit
  <2>1. /\ main \in Ended /\ main' \in Ended /\ mutex' \in {"none", "main"}
        /\ sampler' \in {sampler, "exited"}
        /\ UNCHANGED <<now, startTime>>
    BY <1>1, <1>6 DEF Destroy, Join, SamplerExit, Ended, TypeOK
  <2>2. TypeOK'
    BY <1>1, <1>2, <2>1 DEF TypeOK, Ended
  <2>3. Locked'
    BY <1>1, <1>2, <1>6 DEF Locked, Destroy, Join, SamplerExit, Ended
  <2>4. ~ tainted => sampler \notin {"new", "first"}
    BY <1>1, <2>1 DEF Early
  <2>5. sampler' \in {"new", "first"} => sampler \in {"new", "first"}
    BY <2>1
  <2>6. Early'
    BY <1>2, <2>4, <2>5 DEF Early
  <2>7. Late'
    BY <2>1 DEF Late
  <2>8. AccountedOnce'
    BY <1>1, <1>2, <2>1 DEF AccountedOnce, Ended
  <2>9. QED BY <1>3, <2>2, <2>3, <2>6, <2>7, <2>8 DEF IInv
<1>7. QED BY <1>4, <1>5, <1>6

(* Time passes, but no gap between samples grows too long. *)
LEMMA TickKeeps ==
  ASSUME IInv, Tick
  PROVE  IInv'
<1>1. TypeOK /\ Locked /\ Early /\ Late /\ ReadUpTo /\ AccountedOnce /\ DiffIsBetween
  BY DEF IInv
<1>2. /\ clock < MaxClock /\ clock' = clock + 1
      /\ Sampling => clock - LastStamp < MaxGap
      /\ UNCHANGED <<mutex, main, sampler, now, res, energy, tainted, startTime,
                     stopTime, firstTime, em>>
  BY DEF Tick
<1>3. TypeOK'
  <2>1. clock' \in Ticks
    BY <1>1, <1>2 DEF TypeOK, Ticks
  <2>2. QED BY <1>1, <1>2, <2>1 DEF TypeOK, Stamps, Ticks
<1>4. Locked' /\ Early'
  BY <1>1, <1>2 DEF Locked, Early
<1>5. LastStamp' = LastStamp
  BY <1>2 DEF LastStamp
<1>6. Late'
  <2>1. SUFFICES ASSUME ~ tainted, sampler \in {"loop", "exited"}, main \notin Ended
                 PROVE  /\ main # "inited" /\ LastStamp \in Nat
                        /\ LastStamp <= clock + 1 /\ (clock + 1) - LastStamp <= MaxGap
    BY <1>2, <1>5 DEF Late
  <2>2. Sampling /\ main # "inited"
    BY <1>1, <2>1 DEF Sampling, Late, Locked, Ended, TypeOK
  <2>3. LastStamp \in Nat /\ LastStamp <= clock /\ clock - LastStamp < MaxGap
    BY <1>1, <1>2, <2>1, <2>2 DEF Late
  <2>4. QED BY <1>1, <2>2, <2>3, Numbers
<1>7. ReadUpTo'
  <2>1. em.at \in Int /\ clock \in Nat
    BY <1>1, Numbers
  <2>2. QED BY <1>1, <1>2, <2>1 DEF ReadUpTo
<1>8. AccountedOnce' /\ DiffIsBetween'
  BY <1>1, <1>2, <1>5 DEF AccountedOnce, DiffIsBetween
<1>9. QED BY <1>3, <1>4, <1>6, <1>7, <1>8 DEF IInv

(* A reading takes the mutex and turns to the other half of res. *)
LEMMA ReadLockKeeps ==
  ASSUME IInv, NEW op \in Reading, ReadLock(op)
  PROVE  IInv'
<1>1. TypeOK /\ Locked /\ Early /\ Late /\ ReadUpTo /\ AccountedOnce /\ DiffIsBetween
  BY DEF IInv
<1>2. /\ main = "running" /\ mutex' = "main" /\ main' = op /\ now' = 1 - now
      /\ UNCHANGED <<clock, sampler, res, energy, tainted, startTime, stopTime,
                     firstTime, em>>
  BY DEF ReadLock, MayCall
<1>3. TypeOK'
  <2>1. now' \in {0, 1}
    BY <1>1, <1>2, Numbers
  <2>2. main' \in {"read", "diff"}
    BY <1>2 DEF Reading
  <2>3. QED BY <1>1, <1>2, <2>1, <2>2 DEF TypeOK
<1>4. Locked' /\ Early'
  BY <1>1, <1>2 DEF Locked, Early, Reading, Ended
<1>5. LastStamp' = LastStamp
  <2>1. LastStamp = res[now] /\ LastStamp' = res[1 - (1 - now)]
    BY <1>2 DEF LastStamp, Reading
  <2>2. QED BY <1>1, <2>1, Numbers
<1>6. Late'
  BY <1>1, <1>2, <1>5 DEF Late, Reading, Ended
<1>7. AccountedOnce'
  BY <1>1, <1>2, <1>5 DEF AccountedOnce, Reading
<1>8. ReadUpTo' /\ DiffIsBetween'
  BY <1>1, <1>2 DEF ReadUpTo, DiffIsBetween, ReadLock
<1>9. QED BY <1>3, <1>4, <1>6, <1>7, <1>8 DEF IInv

(* A sample, by whichever thread, accounts for the time since the last one. *)
LEMMA SampleAdds ==
  ASSUME IInv, Account(clock, LastStamp), main \notin Ended
  PROVE  /\ energy' \in Nat /\ tainted' \in BOOLEAN /\ (~ tainted' => ~ tainted)
         /\ ~ tainted' => sampler \in {"loop", "exited"} /\ energy' = clock - firstTime
<1>1. TypeOK /\ Locked /\ Early /\ Late /\ AccountedOnce
  BY DEF IInv
<1>2. clock \in Stamps /\ LastStamp \in Stamps
  BY <1>1, Numbers DEF TypeOK, LastStamp, Stamps
<1>3. /\ energy' \in Nat /\ tainted' \in BOOLEAN
      /\ ~ tainted' => ~ tainted /\ LastStamp \in Nat
      /\ ~ tainted' /\ LastStamp <= clock /\ clock - LastStamp <= MaxGap
           => energy' = energy + (clock - LastStamp)
  BY <1>1, <1>2, AccountAdds
<1>4. ASSUME ~ tainted'
      PROVE  sampler \in {"loop", "exited"} /\ energy' = clock - firstTime
  <2>1. ~ tainted /\ LastStamp \in Nat
    BY <1>3, <1>4
  <2>2. sampler \notin {"new", "first"}
    <3>1. SUFFICES ASSUME sampler \in {"new", "first"} PROVE FALSE
      OBVIOUS
    <3>2. \A i \in {0, 1} : res[i] = Unset
      BY <1>1, <2>1, <3>1 DEF Early
    <3>3. LastStamp = Unset
      BY <1>1, <3>2, Numbers DEF LastStamp
    <3>4. QED BY <2>1, <3>3 DEF Unset
  <2>3. sampler \in {"loop", "exited"} /\ firstTime # Unset
    BY <1>1, <2>2 DEF TypeOK, Locked
  <2>4. /\ main \in {"running", "read", "diff"}
        /\ LastStamp <= clock /\ clock - LastStamp <= MaxGap
    BY <1>1, <2>1, <2>3 DEF Late, TypeOK, Ended
  <2>5. energy = LastStamp - firstTime
    BY <1>1, <2>1, <2>3, <2>4 DEF AccountedOnce
  <2>6. energy' = energy + (clock - LastStamp)
    BY <1>3, <1>4, <2>4
  <2>7. firstTime \in Int /\ clock \in Nat
    BY <1>1, Numbers
  <2>8. QED BY <2>1, <2>3, <2>5, <2>6, <2>7
<1>5. QED BY <1>3, <1>4

(* A reading samples, and stores what the program asked for. *)
LEMMA ReadSampleKeeps ==
  ASSUME IInv, NEW op \in Reading, ReadSample(op)
  PROVE  IInv'
<1>1. TypeOK /\ Locked /\ Early /\ Late /\ ReadUpTo /\ AccountedOnce /\ DiffIsBetween
  BY DEF IInv
<1>2. /\ main = op /\ main' = "running" /\ mutex' = "none"
      /\ res' = [res EXCEPT ![now] = clock] /\ Account(res'[now'], res'[1 - now'])
      /\ em' = IF op = "read"
                 THEN [kind |-> "read", energy |-> energy', span |-> 0, at |-> clock]
                 ELSE [kind |-> "diff", energy |-> energy' - em.energy,
                       span |-> clock - em.at, at |-> clock]
      /\ UNCHANGED <<clock, startTime, stopTime, firstTime>>
      /\ \/ UNCHANGED <<now, sampler>>
         \/ sampler = "new" /\ sampler' = "first" /\ now' = 0
  BY DEF ReadSample
<1>3. /\ LastStamp = res[1 - now] /\ main \notin Ended
      /\ res'[now] = clock /\ res'[1 - now] = res[1 - now] /\ clock \in Nat
  <2>1. now \in {0, 1} /\ 1 - now \in {0, 1} /\ 1 - now # now
    BY <1>1 DEF TypeOK
  <2>2. res'[now] = clock /\ res'[1 - now] = res[1 - now]
    BY <1>1, <1>2, <2>1 DEF TypeOK
  <2>3. QED BY <1>1, <1>2, <2>2, Numbers DEF LastStamp, Reading, Ended
<1>4. /\ energy' \in Nat /\ tainted' \in BOOLEAN /\ (~ tainted' => ~ tainted)
      /\ ~ tainted' => /\ sampler \in {"loop", "exited"} /\ energy' = clock - firstTime
                       /\ now' = now /\ sampler' = sampler
  <2>1. CASE UNCHANGED <<now, sampler>>
    <3>1. Account(clock, LastStamp)
      BY <1>2, <1>3, <2>1
    <3>2. QED BY <1>3, <2>1, <3>1, SampleAdds
  <2>2. CASE sampler = "new" /\ sampler' = "first" /\ now' = 0
    <3>1. res'[now'] \in Stamps /\ res'[1 - now'] \in Stamps
      <4>1. clock \in Stamps
        BY <1>1 DEF TypeOK, Stamps
      <4>2. \A i \in {0, 1} : res'[i] \in Stamps
        BY <1>1, <1>2, <4>1 DEF TypeOK
      <4>3. QED BY <2>2, <4>2
    <3>2. /\ energy' \in Nat /\ tainted' \in BOOLEAN
          /\ ~ tainted' => ~ tainted /\ res'[now'] \in Nat /\ res'[1 - now'] \in Nat
      BY <1>1, <1>2, <3>1, AccountAdds
    <3>3. tainted'
      <4>1. SUFFICES ASSUME ~ tainted' PROVE FALSE
        OBVIOUS
      <4>2. res'[0] \in Nat /\ res'[1] \in Nat
        BY <2>2, <3>2, <4>1
      <4>3. res[1 - now] = Unset
        BY <1>1, <2>2, <3>2, <4>1, Numbers DEF Early
      <4>4. res'[1 - now] \in Nat
        BY <1>1, <4>2, Numbers
      <4>5. QED BY <1>3, <4>3, <4>4 DEF Unset
    <3>4. QED BY <3>2, <3>3
  <2>3. QED BY <1>2, <2>1, <2>2
<1>5. ~ tainted' => LastStamp' = clock
  BY <1>2, <1>3, <1>4 DEF LastStamp
<1>6. em' \in [kind : {"none", "read", "diff"}, energy : Int, span : Nat, at : Stamps]
  <2>1. clock \in Stamps
    BY <1>1 DEF TypeOK, Stamps
  <2>2. clock - em.at \in Nat
    BY <1>1, Numbers DEF ReadUpTo
  <2>3. energy' - em.energy \in Int
    BY <1>1, <1>4, Numbers
  <2>4. CASE op = "read"
    BY <1>2, <1>4, <2>1, <2>4
  <2>5. CASE op # "read"
    BY <1>2, <2>1, <2>2, <2>3, <2>5
  <2>6. QED BY <2>4, <2>5
<1>7. res' \in [{0, 1} -> Stamps] /\ main' \in {"running"}
  <2>1. clock \in Stamps
    BY <1>1 DEF TypeOK, Stamps
  <2>2. QED BY <1>1, <1>2, <2>1 DEF TypeOK
<1>8. TypeOK'
  <2>1. now' \in {0, 1} /\ sampler' \in {"new", "first", "loop", "exited"}
    BY <1>1, <1>2 DEF TypeOK
  <2>2. QED BY <1>1, <1>2, <1>4, <1>6, <1>7, <2>1 DEF TypeOK, Stamps, Ticks
<1>9. Locked'
  BY <1>1, <1>2 DEF Locked, Reading, Ended
<1>10. Early'
  BY <1>2, <1>4 DEF Early
<1>11. Late'
  BY <1>1, <1>2, <1>3, <1>4, <1>5, Numbers DEF Late
<1>12. AccountedOnce'
  BY <1>2, <1>4, <1>5 DEF AccountedOnce
<1>13. ReadUpTo'
  <2>1. em'.at = clock /\ main' # "diff"
    BY <1>2
  <2>2. em'.kind = "read" => em'.energy = energy' /\ op = "read"
    BY <1>2
  <2>3. QED BY <1>2, <1>3, <1>4, <2>1, <2>2 DEF ReadUpTo
<1>14. DiffIsBetween'
  <2>1. SUFFICES ASSUME ~ tainted', em'.kind = "diff" PROVE em'.energy = em'.span
    BY DEF DiffIsBetween
  <2>2. op = "diff"
    BY <1>2, <2>1 DEF Reading
  <2>3. em'.energy = energy' - em.energy /\ em'.span = clock - em.at
    BY <1>2, <2>2
  <2>4. em.energy = em.at - firstTime /\ energy' = clock - firstTime
    BY <1>1, <1>2, <1>4, <2>1, <2>2 DEF ReadUpTo
  <2>5. clock \in Int /\ em.at \in Int /\ firstTime \in Int
    BY <1>1, Numbers
  <2>6. QED BY <2>3, <2>4, <2>5
<1>15. QED
  BY <1>8, <1>9, <1>10, <1>11, <1>12, <1>13, <1>14 DEF IInv

(* The sampling thread takes its first sample. *)
LEMMA FirstSampleKeeps ==
  ASSUME IInv, FirstSample
  PROVE  IInv'
<1>1. TypeOK /\ Locked /\ Early /\ Late /\ ReadUpTo /\ AccountedOnce /\ DiffIsBetween
  BY DEF IInv
<1>2. /\ sampler = "first" /\ mutex = "none" /\ res' = [res EXCEPT ![0] = clock]
      /\ firstTime' = clock /\ sampler' = "loop"
      /\ UNCHANGED <<clock, mutex, main, now, energy, tainted, startTime, stopTime, em>>
  BY DEF FirstSample
<1>3. clock \in Stamps /\ clock \in Nat /\ clock # Unset
  BY <1>1, Numbers DEF TypeOK, Stamps, Unset
<1>4. TypeOK'
  BY <1>1, <1>2, <1>3 DEF TypeOK, Stamps, Ticks
<1>5. Locked'
  <2>1. main # "freed" /\ main \in {"running", "joining", "freed"}
    BY <1>1, <1>2 DEF Locked
  <2>2. QED BY <1>1, <1>2, <1>3, <2>1 DEF Locked
<1>6. Early'
  BY <1>2 DEF Early
<1>7. ASSUME ~ tainted
      PROVE  main = "running" /\ LastStamp' = clock /\ energy = 0 /\ em.kind = "none"
  <2>1. energy = 0 /\ em.kind = "none" /\ main = "running"
    BY <1>1, <1>2, <1>7 DEF Early, Locked, Ended
  <2>2. now = 0
    BY <1>1, <1>2, <1>7, <2>1 DEF Early, Reading
  <2>3. LastStamp' = res'[0]
    BY <1>2, <2>1, <2>2 DEF LastStamp
  <2>4. res'[0] = clock
    BY <1>1, <1>2 DEF TypeOK
  <2>5. QED BY <2>1, <2>3, <2>4
<1>8. Late'
  BY <1>1, <1>2, <1>3, <1>7, Numbers DEF Late
<1>9. AccountedOnce'
  BY <1>2, <1>3, <1>7 DEF AccountedOnce
<1>10. ReadUpTo' /\ DiffIsBetween'
  BY <1>1, <1>2, <1>7 DEF ReadUpTo, DiffIsBetween
<1>11. QED BY <1>4, <1>5, <1>6, <1>8, <1>9, <1>10 DEF IInv

(* It takes another one. *)
LEMMA SampleKeeps ==
  ASSUME IInv, Sample
  PROVE  IInv'
<1>1. TypeOK /\ Locked /\ Early /\ Late /\ ReadUpTo /\ AccountedOnce /\ DiffIsBetween
  BY DEF IInv
<1>2. /\ sampler = "loop" /\ mutex = "none" /\ main # "joining"
      /\ now' = 1 - now /\ res' = [res EXCEPT ![1 - now] = clock]
      /\ Account(clock, res[now])
      /\ UNCHANGED <<clock, mutex, main, sampler, startTime, stopTime, firstTime, em>>
  BY DEF Sample
<1>3. main = "running"
  BY <1>1, <1>2 DEF Locked
<1>4. LastStamp = res[now] /\ main \notin Ended
  BY <1>3 DEF LastStamp, Ended
<1>5. /\ energy' \in Nat /\ tainted' \in BOOLEAN /\ (~ tainted' => ~ tainted)
      /\ ~ tainted' => sampler \in {"loop", "exited"} /\ energy' = clock - firstTime
  BY <1>2, <1>4, SampleAdds
<1>6. LastStamp' = clock /\ clock \in Nat
  <2>1. LastStamp' = res'[1 - now]
    BY <1>2, <1>3 DEF LastStamp
  <2>2. QED BY <1>1, <1>2, <2>1, Numbers DEF TypeOK
<1>7. res' \in [{0, 1} -> Stamps] /\ now' \in {0, 1}
  <2>1. clock \in Stamps
    BY <1>1 DEF TypeOK, Stamps
  <2>2. now' \in {0, 1}
    BY <1>1, <1>2, Numbers
  <2>3. QED BY <1>1, <1>2, <2>1, <2>2 DEF TypeOK
<1>8. TypeOK'
  BY <1>1, <1>2, <1>5, <1>7 DEF TypeOK, Stamps, Ticks
<1>9. Locked'
  BY <1>1, <1>2 DEF Locked
<1>10. Early'
  BY <1>2 DEF Early
<1>11. Late'
  BY <1>1, <1>2, <1>3, <1>6, Numbers DEF Late
<1>12. AccountedOnce'
  BY <1>2, <1>3, <1>5, <1>6 DEF AccountedOnce
<1>13. ReadUpTo' /\ DiffIsBetween'
  BY <1>1, <1>2, <1>5 DEF ReadUpTo, DiffIsBetween
<1>14. QED BY <1>8, <1>9, <1>10, <1>11, <1>12, <1>13 DEF IInv

(* The last sample is taken by stop, which leaves the stamps alone. *)
LEMMA StopKeeps ==
  ASSUME IInv, Stop
  PROVE  IInv'
<1>1. TypeOK /\ Locked /\ Early /\ Late /\ ReadUpTo /\ AccountedOnce /\ DiffIsBetween
  BY DEF IInv
<1>2. /\ main = "running" /\ mutex' = "main" /\ main' = "stopped" /\ stopTime' = clock
      /\ Account(clock, res[now])
      /\ UNCHANGED <<clock, sampler, now, res, startTime, firstTime, em>>
  BY DEF Stop, MayCall
<1>3. LastStamp = res[now] /\ main \notin Ended
  BY <1>2 DEF LastStamp, Ended
<1>4. /\ energy' \in Nat /\ tainted' \in BOOLEAN /\ (~ tainted' => ~ tainted)
      /\ ~ tainted' => sampler \in {"loop", "exited"} /\ energy' = clock - firstTime
  BY <1>2, <1>3, SampleAdds
<1>5. clock \in Stamps /\ clock # Unset
  BY <1>1, Numbers DEF TypeOK, Stamps, Unset
<1>6. TypeOK'
  BY <1>1, <1>2, <1>4, <1>5 DEF TypeOK, Stamps, Ticks
<1>7. Locked'
  BY <1>1, <1>2, <1>5 DEF Locked, Ended
<1>8. Early'
  BY <1>2, <1>4 DEF Early
<1>9. Late'
  BY <1>2 DEF Late, Ended
<1>10. AccountedOnce'
  BY <1>2, <1>4 DEF AccountedOnce
<1>11. ReadUpTo' /\ DiffIsBetween'
  BY <1>1, <1>2, <1>4 DEF ReadUpTo, DiffIsBetween
<1>12. QED BY <1>6, <1>7, <1>8, <1>9, <1>10, <1>11 DEF IInv

(* The invariant holds when init returns. *)
LEMMA InitIInv == Init => IInv
<1> SUFFICES ASSUME Init PROVE IInv
  OBVIOUS
<1> USE DEF Init
<1>1. TypeOK
  <2>1. Unset \in Stamps /\ clock \in Ticks
    BY DEF Stamps, Ticks
  <2>2. em \in [kind : {"none", "read", "diff"}, energy : Int, span : Nat, at : Stamps]
    BY <2>1
  <2>3. res \in [{0, 1} -> Stamps] /\ energy \in Nat
    BY <2>1
  <2>4. tainted \in BOOLEAN
    OBVIOUS
  <2>5. QED BY <2>1, <2>2, <2>3, <2>4 DEF TypeOK
<1>2. Locked /\ Early /\ Late
  BY DEF Locked, Early, Late, Ended
<1>3. ReadUpTo /\ AccountedOnce /\ DiffIsBetween
  BY DEF ReadUpTo, AccountedOnce, DiffIsBetween, Unset
<1>4. QED BY <1>1, <1>2, <1>3 DEF IInv

(* Every step keeps it. *)
LEMMA NextIInv == IInv /\ [Next]_vars => IInv'
<1> SUFFICES ASSUME IInv, [Next]_vars PROVE IInv'
  OBVIOUS
<1>1. CASE Next
  <2>1. ASSUME NEW op \in Reading, ReadLock(op) \/ ReadSample(op) PROVE IInv'
    BY <2>1, ReadLockKeeps, ReadSampleKeeps
  <2>2. QED
    BY <1>1, <2>1, QuietKeeps, TickKeeps, FirstSampleKeeps, SampleKeeps, StopKeeps
       DEF Next, Reading
<1>2. CASE UNCHANGED vars
  BY <1>2 DEF vars, IInv, TypeOK, Locked, Early, Late, ReadUpTo, AccountedOnce,
              DiffIsBetween, LastStamp
<1>3. QED BY <1>1, <1>2

-----------------------------------------------------------------------------
(* The theorems.                                                           *)

(* The strengthened invariant holds in every state of the meter. *)
THEOREM Invariance == Spec => []IInv
<1>1. QED BY InitIInv, NextIInv, PTL DEF Spec

(* The variables keep their types; the energy never falls below 0.         *)
THEOREM TypeCorrect == Spec => []TypeOK
<1>1. IInv => TypeOK
  BY DEF IInv
<1>2. QED BY <1>1, Invariance, PTL

(* Whichever thread takes the samples, every moment from the first sample  *)
(* on is accounted for exactly once, unless a stamp was used that had not  *)
(* been taken.                                                             *)
THEOREM EveryMomentOnce == Spec => []AccountedOnce
<1>1. IInv => AccountedOnce
  BY DEF IInv
<1>2. QED BY <1>1, Invariance, PTL

(* energy_meter_diff gives the energy since the reading it is made with.   *)
THEOREM DiffTrue == Spec => []DiffIsBetween
<1>1. IInv => DiffIsBetween
  BY DEF IInv
<1>2. QED BY <1>1, Invariance, PTL

(* No sample changes the energy after energy_meter_stop. *)
THEOREM StaysFrozen == Spec => FrozenAfterStop
<1>1. IInv /\ [Next]_vars =>
        [(main \in {"stopped", "joining", "freed"}) => energy' = energy]_vars
  <2>1. SUFFICES ASSUME IInv, Next, main \in {"stopped", "joining", "freed"}
                 PROVE  energy' = energy
    OBVIOUS
  <2>2. Locked
    BY <2>1 DEF IInv
  <2>3. ~ Sample
    BY <2>1, <2>2 DEF Sample, Locked
  <2>4. ~ Stop /\ \A op \in {"read", "diff"} : ~ ReadSample(op)
    BY <2>1 DEF Stop, MayCall, ReadSample
  <2>5. QED
    BY <2>1, <2>3, <2>4
       DEF Next, Tick, Start, ReadLock, Destroy, Join, SamplerBegin, FirstSample,
           SamplerExit
<1>2. QED BY <1>1, Invariance, PTL DEF Spec, FrozenAfterStop

-----------------------------------------------------------------------------
(* What taints a reading, and the end of the sampling thread.              *)

(* Energy is computed from a stamp nobody has written only before the      *)
(* sampling thread has taken its first sample: a program that gives it the *)
(* time for one reads and stops as energy_meter.h says.                    *)
OnlyColdReadings == [][tainted' # tainted => firstTime = Unset]_vars

(* Steps of the two threads until destroy has returned. *)
StepsToJoin ==
  IF main = "freed" THEN 0
  ELSE [new |-> 4, first |-> 3, loop |-> 2, exited |-> 1][sampler]

(* pthread_join waits for steps of the sampling thread that it can take,   *)
(* since nobody holds the mutex, and that end: it takes no sample more.    *)
JoinNears ==
  /\ [][main = "joining" => clock' # clock \/ StepsToJoin' < StepsToJoin]_vars
  /\ [](main = "joining" => mutex = "none")

(* Once there is a first sample, readings rest on stamps. *)
LEMMA WarmReading ==
  ASSUME IInv, ~ tainted, firstTime # Unset, main \notin Ended, Account(clock, LastStamp)
  PROVE  ~ tainted'
<1>1. sampler \in {"loop", "exited"}
  BY DEF IInv, Locked, TypeOK
<1>2. LastStamp \in Nat /\ clock \in Nat
  BY <1>1, Numbers DEF IInv, Late
<1>3. LastStamp # Unset /\ clock # Unset
  BY <1>2 DEF Unset
<1>4. QED BY <1>3 DEF Account

(* Only a reading before the first sample rests on memory nobody wrote. *)
THEOREM TaintedOnlyCold == Spec => OnlyColdReadings
<1>1. IInv /\ [Next]_vars => [tainted' # tainted => firstTime = Unset]_vars
  <2>1. SUFFICES ASSUME IInv, Next, tainted' # tainted, firstTime # Unset PROVE FALSE
    OBVIOUS
  <2>2. /\ TypeOK /\ tainted \in BOOLEAN /\ sampler # "new"
    BY <2>1 DEF IInv, TypeOK, Locked
  <2>3. /\ \/ Stop \/ Sample \/ \E op \in Reading : ReadSample(op)
    BY <2>1 DEF Next, Tick, Start, ReadLock, Destroy, Join, SamplerBegin, FirstSample,
                SamplerExit, Reading
  <2>4. Account(clock, LastStamp) /\ main \notin Ended
    <3>1. CASE Stop
      <4>1. main = "running"
        BY <3>1 DEF Stop, MayCall
      <4>2. QED BY <3>1, <4>1 DEF Stop, LastStamp, Ended
    <3>2. CASE Sample
      <4>1. main = "running"
        BY <2>1, <3>2 DEF Sample, IInv, Locked
      <4>2. QED BY <3>2, <4>1 DEF Sample, LastStamp, Ended
    <3>3. ASSUME NEW op \in Reading, ReadSample(op)
          PROVE  Account(clock, LastStamp) /\ main \notin Ended
      <4>1. /\ main = op /\ now' = now /\ res' = [res EXCEPT ![now] = clock]
            /\ Account(res'[now'], res'[1 - now'])
        BY <2>2, <3>3 DEF ReadSample
      <4>2. now \in {0, 1} /\ 1 - now \in {0, 1} /\ 1 - now # now
        BY <2>2 DEF TypeOK
      <4>3. res'[now] = clock /\ res'[1 - now] = res[1 - now]
        BY <2>2, <4>1, <4>2 DEF TypeOK
      <4>4. QED BY <4>1, <4>3 DEF LastStamp, Reading, Ended
    <3>4. QED BY <2>3, <3>1, <3>2, <3>3
  <2>5. tainted' = (tainted \/ Unset \in {clock, LastStamp})
    BY <2>4 DEF Account
  <2>6. ~ tainted /\ tainted'
    BY <2>1, <2>2, <2>5
  <2>7. QED BY <2>1, <2>4, <2>6, WarmReading
<1>2. QED BY <1>1, Invariance, PTL DEF Spec, OnlyColdReadings

(* destroy waits for at most four steps besides those of the clock, and    *)
(* never for the mutex.                                                    *)
THEOREM DestroyIsFinite == Spec => JoinNears /\ [](StepsToJoin \in 0..4)
<1>1. IInv /\ [Next]_vars
        => [main = "joining" => clock' # clock \/ StepsToJoin' < StepsToJoin]_vars
  <2>1. SUFFICES ASSUME IInv, Next, main = "joining"
                 PROVE  clock' # clock \/ StepsToJoin' < StepsToJoin
    OBVIOUS
  <2>2. sampler \in {"new", "first", "loop", "exited"}
    BY <2>1 DEF IInv, TypeOK
  <2>3. CASE Tick
    <3>1. clock' = clock + 1 /\ clock \in Nat
      BY <2>1, <2>3, Numbers DEF Tick, IInv
    <3>2. QED BY <3>1
  <2>4. CASE Join \/ SamplerBegin \/ FirstSample \/ SamplerExit
    BY <2>1, <2>2, <2>4 DEF Join, SamplerBegin, FirstSample, SamplerExit, StepsToJoin
  <2>5. QED
    BY <2>1, <2>3, <2>4 DEF Next, Start, ReadLock, ReadSample, MayCall, Stop, Destroy, Sample
<1>2. IInv => (main = "joining" => mutex = "none") /\ StepsToJoin \in 0..4
  BY DEF IInv, Locked, TypeOK, StepsToJoin
<1>3. QED BY <1>1, <1>2, Invariance, PTL DEF Spec, JoinNears

=============================================================================
