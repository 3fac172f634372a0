---------------------------- MODULE NumberLemmas ----------------------------
(***************************************************************************)
(* Facts about numbers and counts that the proofs of several components    *)
(* need.  The induction theorems of the library take an operator as their  *)
(* parameter; these take a set, which a proof can name.                    *)
(***************************************************************************)
EXTENDS Naturals, FiniteSets, FiniteSetTheorems, WellFoundedInduction, TLAPS

\* Of any set of numbers, the least.
LEMMA Least ==
    ASSUME NEW T \in SUBSET Nat, T # {}
    PROVE  \E m \in T : \A k \in T : m <= k
<1> DEFINE R == OpToRel(<, Nat)
<1>1. IsWellFoundedOn(R, Nat) BY NatLessThanWellFounded
<1>2. \A i, j \in Nat : i < j => <<i, j>> \in R BY DEF OpToRel
<1> HIDE DEF R
<1>3. PICK m \in T : \A k \in T : ~(<<k, m>> \in R) BY <1>1, WFMin
<1>4. ASSUME NEW k \in T PROVE m <= k
  <2>1. k \in Nat /\ m \in Nat OBVIOUS
  <2>2. ~(k < m) BY <1>2, <1>3, <2>1
  <2> QED BY <2>1, <2>2
<1> QED BY <1>4

\* Of a set of numbers with a bound, the greatest.
LEMMA Greatest ==
    ASSUME NEW b \in Nat, NEW T \in SUBSET (0..b), T # {}
    PROVE  \E m \in T : \A k \in T : k <= m
<1> DEFINE D == {d \in 0..b : b - d \in T}
<1>1. D \in SUBSET Nat OBVIOUS
<1>2. D # {}
  <2>1. PICK k \in T : TRUE OBVIOUS
  <2>2. k \in 0..b /\ b - (b - k) = k /\ b - k \in 0..b OBVIOUS
  <2>3. b - k \in D BY <2>2
  <2> QED BY <2>3
<1>3. PICK d \in D : \A k \in D : d <= k BY <1>1, <1>2, Least
<1>4. b - d \in T BY <1>3
<1>5. ASSUME NEW k \in T PROVE k <= b - d
  <2>1. k \in 0..b /\ b - (b - k) = k /\ b - k \in 0..b OBVIOUS
  <2>2. b - k \in D BY <2>1
  <2>3. d <= b - k BY <1>3, <2>2
  <2> QED BY <1>3, <2>1, <2>3
<1> QED BY <1>4, <1>5

\* Induction, in the form the provers can use: a set of numbers that has 0 and
\* with each number the next one has them all.
LEMMA Inductive ==
    ASSUME NEW T, 0 \in T, \A k \in Nat : k \in T => k + 1 \in T
    PROVE  Nat \subseteq T
<1> DEFINE Bad == Nat \ T
<1>1. SUFFICES ASSUME Bad # {} PROVE FALSE OBVIOUS
<1>2. PICK m \in Bad : \A k \in Bad : m <= k BY <1>1, Least
<1>3. m # 0 /\ m \in Nat BY <1>2
<1>4. m - 1 \in Nat /\ ~(m <= m - 1) /\ (m - 1) + 1 = m BY <1>3
<1>5. m - 1 \notin Bad BY <1>2, <1>4
<1> QED BY <1>2, <1>4, <1>5

\* A set without two different elements.
LEMMA AtMostOne ==
    ASSUME NEW S, \A x, y \in S : x = y
    PROVE  Cardinality(S) = IF S = {} THEN 0 ELSE 1
<1>1. CASE S = {} BY <1>1, FS_EmptySet
<1>2. CASE S # {}
  <2>1. PICK x \in S : TRUE BY <1>2
  <2>2. S = {x} BY <2>1
  <2>3. Cardinality({x}) = 1 BY FS_Singleton
  <2> QED BY <1>2, <2>2, <2>3
<1> QED BY <1>1, <1>2

\* Induction over the subsets of a finite set: of those outside T there is a
\* least one.
LEMMA OverSubsets ==
    ASSUME NEW B, IsFiniteSet(B), NEW T,
           \A S \in SUBSET B :
               (\A s \in SUBSET S : s # S => s \in T) => S \in T
    PROVE  SUBSET B \subseteq T
<1> DEFINE R == StrictSubsetOrdering(B)
           Bad == (SUBSET B) \ T
<1>1. IsWellFoundedOn(R, SUBSET B)
  BY FS_StrictSubsetOrderingWellFounded, FS_FiniteSubsetsOfFinite
<1>2. \A S \in SUBSET B : \A s \in SUBSET S : s # S => <<s, S>> \in R
  BY DEF StrictSubsetOrdering
<1> HIDE DEF R
<1>3. SUFFICES ASSUME Bad # {} PROVE FALSE OBVIOUS
<1>4. Bad \subseteq SUBSET B OBVIOUS
<1> HIDE DEF Bad
<1>5. PICK S \in Bad : \A s \in Bad : ~(<<s, S>> \in R)
  BY <1>1, <1>3, <1>4, WFMin
<1>6. ASSUME NEW s \in SUBSET S, s # S PROVE s \in T
  <2>1. S \in SUBSET B BY <1>4, <1>5
  <2>2. s \in SUBSET B /\ <<s, S>> \in R BY <1>2, <1>6, <2>1
  <2> QED BY <1>5, <2>2 DEF Bad
<1> QED BY <1>5, <1>6 DEF Bad
=============================================================================
