------------------------------ MODULE Induction ------------------------------
(***************************************************************************)
(* Induction for proofs about folds and sequences, said without a          *)
(* predicate as a parameter: a set of counterexamples has a smallest one.  *)
(***************************************************************************)
EXTENDS Integers, FiniteSetTheorems, WellFoundedInduction, TLAPS

\* Among subsets of a finite set one has no other below it.
THEOREM FewestFirst ==
  ASSUME NEW E, IsFiniteSet(E), NEW T, T \subseteq SUBSET E, T # {}
  PROVE  \E x \in T : \A y \in T : y \subseteq x => y = x
<1>1. IsWellFoundedOn(StrictSubsetOrdering(E), SUBSET E)
  BY FS_StrictSubsetOrderingWellFounded, FS_FiniteSubsetsOfFinite
<1>2. \E x \in T : \A y \in T : ~ (<<y, x>> \in StrictSubsetOrdering(E))
  BY <1>1, WFMin
<1>3. QED
  BY <1>2 DEF StrictSubsetOrdering

\* Numbers up to a bound have a least one.
THEOREM Least ==
  ASSUME NEW n \in Nat, NEW T, T \subseteq 0 .. n, T # {}
  PROVE  \E x \in T : \A y \in T : x <= y
<1> DEFINE Upto(k) == 0 .. k
           Below == {Upto(k) : k \in T}
<1>1. Below \subseteq SUBSET (0 .. n) /\ Below # {}
  <2>1. \A k \in T : Upto(k) \subseteq 0 .. n
    OBVIOUS
  <2> HIDE DEF Upto
  <2>2. QED
    BY <2>1
<1>2. PICK u \in Below : \A v \in Below : v \subseteq u => v = u
  <2> DEFINE E == 0 .. n
  <2>1. IsFiniteSet(E) /\ Below \subseteq SUBSET E /\ Below # {}
    BY <1>1, FS_Interval
  <2> HIDE DEF Below, E
  <2>2. QED
    BY <2>1, FewestFirst
<1>3. PICK x \in T : u = 0 .. x
  <2>1. PICK x \in T : u = Upto(x)
    <3>1. u \in {Upto(k) : k \in T}
      BY <1>2
    <3> HIDE DEF Upto
    <3>2. QED
      BY <3>1
  <2>2. QED
    BY <2>1
<1>4. ASSUME NEW y \in T, y < x
      PROVE  FALSE
  <2>1. 0 .. y \in Below
    OBVIOUS
  <2>2. 0 .. y \subseteq u /\ x \in u /\ x \notin 0 .. y
    BY <1>3, <1>4
  <2> HIDE DEF Below
  <2>3. QED
    BY <1>2, <2>1, <2>2
<1>5. \A y \in T : x \in Nat /\ y \in Nat
  OBVIOUS
<1>6. QED
  BY <1>4, <1>5

\* And a greatest one.
THEOREM Greatest ==
  ASSUME NEW n \in Nat, NEW T, T \subseteq 0 .. n, T # {}
  PROVE  \E x \in T : \A y \in T : y <= x
<1> DEFINE M == {n - k : k \in T}
<1>1. M \subseteq 0 .. n /\ M # {}
  <2>1. \A k \in T : n - k \in 0 .. n
    OBVIOUS
  <2>2. QED
    BY <2>1
<1>2. PICK m \in M : \A l \in M : m <= l
  <2> HIDE DEF M
  <2> QED BY <1>1, Least
<1>3. PICK x \in T : m = n - x
  OBVIOUS
<1>4. ASSUME NEW y \in T
      PROVE  y <= x
  <2>1. n - y \in M /\ x \in 0 .. n /\ y \in 0 .. n
    OBVIOUS
  <2>2. n - x <= n - y
    BY <1>2, <1>3, <2>1
  <2>3. QED
    BY <2>1, <2>2
<1>5. QED
  BY <1>4

=============================================================================
