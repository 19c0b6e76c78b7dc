---------------------------- MODULE NaturalOrder ----------------------------
(***************************************************************************)
(* Least and greatest elements of sets of natural numbers: what the proofs *)
(* of this project use in the place of induction.                          *)
(***************************************************************************)
EXTENDS FiniteSetTheorems, TLAPS

\* A set of naturals has a least element: the initial segments 1..n are ordered
\* by inclusion, which is well founded on finite sets.  Inductions over the
\* naturals look at the least counterexample.
LEMMA LeastNatural ==
    ASSUME NEW T \in SUBSET Nat, T # {}
    PROVE  \E x \in T : \A y \in T : x <= y
<1> DEFINE U == {1..n : n \in T}
<1>1. U \subseteq FiniteSubsetsOf(Nat)
  <2> SUFFICES ASSUME NEW n \in T PROVE 1..n \in FiniteSubsetsOf(Nat)
    OBVIOUS
  <2>1. IsFiniteSet(1..n)
    BY FS_Interval
  <2> QED
    BY <2>1 DEF FiniteSubsetsOf
<1>2. U # {}
  OBVIOUS
<1>3. \E m \in U : \A w \in U : ~(<<w, m>> \in StrictSubsetOrdering(Nat))
  <2> HIDE DEF U
  <2> QED
    BY <1>1, <1>2, FS_StrictSubsetOrderingWellFounded, WFMin
<1>4. PICK x \in T : \A y \in T : ~(<<1..y, 1..x>> \in StrictSubsetOrdering(Nat))
  BY <1>3
<1>5. ASSUME NEW y \in T, y < x PROVE FALSE
  <2>1. 1..y \subseteq 1..x /\ 1..y \in SUBSET Nat /\ 1..x \in SUBSET Nat
    BY <1>5
  <2>2. x \in 1..x /\ x \notin 1..y
    BY <1>5
  <2> QED
    BY <2>1, <2>2, <1>4 DEF StrictSubsetOrdering
<1> QED
    BY <1>5

\* A nonempty set of naturals with an upper bound has a greatest element.
LEMMA GreatestNatural ==
    ASSUME NEW N \in Nat, NEW T \in SUBSET (0..N), T # {}
    PROVE  \E x \in T : \A y \in T : y <= x
<1> DEFINE D == {n \in 0..N : N - n \in T}
<1>1. D \in SUBSET Nat /\ D # {}
  <2>1. PICK t \in T : TRUE
    OBVIOUS
  <2>2. t \in Nat /\ N - t \in 0..N /\ N - (N - t) = t
    BY <2>1
  <2>3. N - t \in D
    BY <2>1, <2>2
  <2> QED
    BY <2>3
<1>2. PICK d \in D : \A e \in D : d <= e
  <2> HIDE DEF D
  <2> QED
    BY <1>1, LeastNatural
<1>3. ASSUME NEW y \in T PROVE y <= N - d
  <2>1. y \in Nat /\ y <= N /\ N - y \in 0..N /\ N - (N - y) = y
    OBVIOUS
  <2>2. N - y \in D
    BY <2>1
  <2>3. d <= N - y /\ d \in 0..N
    BY <1>2, <2>2
  <2> QED
    BY <2>1, <2>3
<1> QED
  BY <1>2, <1>3
=============================================================================
