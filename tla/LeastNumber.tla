---------------------------- MODULE LeastNumber ----------------------------
(***************************************************************************)
(* A nonempty set of natural numbers has a least member.                   *)
(***************************************************************************)
EXTENDS Integers, FiniteSetTheorems, WellFoundedInduction, TLAPS

\* Every nonempty set of numbers has a least one: the sets of the numbers
\* below each member are finite, and finite sets are well-founded by inclusion.
LEMMA LeastExists ==
  ASSUME NEW T \in SUBSET Nat, T # {}
  PROVE  \E least \in T : \A n \in T : least <= n
<1> DEFINE Below(n) == 0..(n - 1)
           Chains == {Below(n) : n \in T}
<1>1. Chains \subseteq FiniteSubsetsOf(Nat)
  <2>1. ASSUME NEW n \in T PROVE Below(n) \in FiniteSubsetsOf(Nat)
    <3>1. n - 1 \in Int /\ 0 \in Int
      OBVIOUS
    <3>2. IsFiniteSet(0..(n - 1))
      BY <3>1, FS_Interval
    <3>3. 0..(n - 1) \in SUBSET Nat
      OBVIOUS
    <3>4. QED
      BY <3>2, <3>3 DEF FiniteSubsetsOf
  <2>2. QED
    BY <2>1
<1>2. Chains # {}
  OBVIOUS
<1>3. PICK b \in Chains :
        \A c \in Chains : ~ (<<c, b>> \in StrictSubsetOrdering(Nat))
  <2> HIDE DEF Chains
  <2>1. QED
    BY <1>1, <1>2, WFMin, FS_StrictSubsetOrderingWellFounded
<1>4. PICK least \in T : b = Below(least)
  OBVIOUS
<1>5. ASSUME NEW n \in T PROVE least <= n
  <2>1. SUFFICES ASSUME n < least PROVE FALSE
    OBVIOUS
  <2>2. Below(n) \subseteq Below(least) /\ n \in Below(least) /\ n \notin Below(n)
    BY <2>1
  <2>3. Below(n) \in SUBSET Nat /\ Below(least) \in SUBSET Nat
    OBVIOUS
  <2>4. <<Below(n), Below(least)>> \in StrictSubsetOrdering(Nat)
    BY <2>2, <2>3 DEF StrictSubsetOrdering
  <2>5. Below(n) \in Chains
    OBVIOUS
  <2>6. QED
    BY <1>3, <1>4, <2>4, <2>5
<1>6. QED
  BY <1>5
=============================================================================
