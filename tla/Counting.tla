------------------------------- MODULE Counting -------------------------------
(***************************************************************************)
(* How the number of threads in a place changes when one of them moves:    *)
(* used by the proofs that a call of a scheduler takes finitely many steps.*)
(***************************************************************************)
EXTENDS Integers, FiniteSets, FiniteSetTheorems, TLAPS

(* When one element is added or removed, the cardinality changes by it.    *)
LEMMA OneMoves ==
  ASSUME NEW S, IsFiniteSet(S), NEW R, NEW x, S \ {x} = R \ {x}
  PROVE  /\ Cardinality(S) \in Nat
         /\ Cardinality(R) = Cardinality(S) + (IF x \in R THEN 1 ELSE 0)
                                            - (IF x \in S THEN 1 ELSE 0)
<1>1. Cardinality(S) \in Nat
  BY FS_CardinalityType
<1>2. CASE x \in S /\ x \notin R
  <2>1. R = S \ {x}
    BY <1>2
  <2>2. Cardinality(R) = Cardinality(S) - 1
    BY <1>2, <2>1, FS_RemoveElement
  <2>3. QED BY <1>1, <1>2, <2>2
<1>3. CASE x \notin S /\ x \in R
  <2>1. R = S \union {x}
    BY <1>3
  <2>2. Cardinality(R) = Cardinality(S) + 1
    BY <1>3, <2>1, FS_AddElement
  <2>3. QED BY <1>1, <1>3, <2>2
<1>4. CASE x \in S <=> x \in R
  <2>1. R = S
    BY <1>4
  <2>2. QED BY <1>1, <2>1
<1>5. QED BY <1>2, <1>3, <1>4

=============================================================================
