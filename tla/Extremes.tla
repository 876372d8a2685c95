-------------------------------- MODULE Extremes --------------------------------
(***************************************************************************)
(* Greatest elements of bounded sets of version numbers, which several     *)
(* modules choose.                                                         *)
(***************************************************************************)
EXTENDS Integers, FiniteSetsExt, FiniteSetTheorems, TLAPS

\* A set of naturals with a bound has a greatest element: its final segments
\* are finite, so one of them has no smaller one below it.
LEMMA GreatestExists ==
    ASSUME NEW n \in Nat, NEW S \in SUBSET (1..n), S # {}
    PROVE  \E m \in S : \A x \in S : x <= m
<1> DEFINE From(x) == {y \in S : x <= y}
           T == {From(x) : x \in S}
           R == StrictSubsetOrdering(1..n)
<1>1. T \subseteq FiniteSubsetsOf(1..n)
  <2>1. IsFiniteSet(1..n)  BY FS_Interval
  <2>2. FiniteSubsetsOf(1..n) = SUBSET (1..n)  BY <2>1, FS_FiniteSubsetsOfFinite
  <2>3. \A x \in S : From(x) \subseteq 1..n  OBVIOUS
  <2> QED BY <2>2, <2>3
<1>2. IsWellFoundedOn(R, FiniteSubsetsOf(1..n))  BY FS_StrictSubsetOrderingWellFounded
<1>3. T # {}  OBVIOUS
<1>4. PICK t \in T : \A u \in T : ~(<<u, t>> \in R)
  <2> HIDE DEF T, R
  <2> QED BY <1>1, <1>2, <1>3, WFMin
<1>5. PICK m \in S : t = From(m)  OBVIOUS
<1>6. ASSUME NEW x \in S, m < x PROVE FALSE
  <2>1. \A y \in S : y \in 1..n  OBVIOUS
  <2>2. m \in From(m) /\ m \notin From(x)  BY <1>6, <2>1
  <2>3. \A y \in S : x <= y => m <= y  BY <1>6, <2>1
  <2>4. From(x) \subseteq From(m)  BY <2>3
  <2>5. From(x) \in T /\ From(x) \subseteq 1..n /\ From(m) \subseteq 1..n  OBVIOUS
  <2>6. <<From(x), From(m)>> \in R
    <3> HIDE DEF From
    <3> QED BY <2>2, <2>4, <2>5 DEF StrictSubsetOrdering
  <2> QED BY <1>4, <1>5, <2>5, <2>6
<1>7. m \in S /\ \A x \in S : x \in Int /\ m \in Int  OBVIOUS
<1> QED BY <1>6, <1>7

\* Max of the community modules finds it, and nothing else.
LEMMA MaxIsGreatest ==
    ASSUME NEW n \in Nat, NEW S \in SUBSET (1..n), S # {}
    PROVE  Max(S) \in S /\ \A x \in S : x <= Max(S)
<1>1. \E m \in S : \A x \in S : x <= m  BY GreatestExists
<1>2. \E m \in S : \A x \in S : m >= x
  <2>1. \A x \in S : x \in Int  OBVIOUS
  <2> QED BY <1>1, <2>1
<1>3. Max(S) \in S /\ \A x \in S : Max(S) >= x  BY <1>2 DEF Max
<1>4. \A x \in S : x \in Int  OBVIOUS
<1> QED BY <1>3, <1>4

LEMMA MaxIsUnique ==
    ASSUME NEW n \in Nat, NEW S \in SUBSET (1..n), NEW m \in S, \A x \in S : x <= m
    PROVE  Max(S) = m
<1>1. Max(S) \in S /\ m <= Max(S) /\ Max(S) <= m  BY MaxIsGreatest
<1>2. \A x \in S : x \in Int  OBVIOUS
<1>3. Max(S) \in Int /\ m \in Int  BY <1>1, <1>2
<1> QED BY <1>1, <1>3
==============================================================================
