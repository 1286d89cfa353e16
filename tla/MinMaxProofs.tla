----------------------------- MODULE MinMaxProofs -----------------------------
(***************************************************************************)
(* What the operators Min and Max of FiniteSetsExt, which the models of    *)
(* searches use, are of sets of natural numbers.                           *)
(***************************************************************************)
EXTENDS Integers, FiniteSets, FiniteSetsExt, FiniteSetTheorems, TLAPS

\* A search from 0 up that hits at all has a first hit: the scan for a name, the
\* kernel's choice of a descriptor.
LEMMA MinOfNaturals ==
  ASSUME NEW S \in SUBSET Nat, S # {}
  PROVE  Min(S) \in S /\ \A x \in S : Min(S) <= x
<1> DEFINE Less == OpToRel(<, Nat)
<1>1. \A x, y \in Nat : y < x => <<y, x>> \in Less
  BY Zenon DEF OpToRel
<1>2. IsWellFoundedOn(Less, Nat)
  BY NatLessThanWellFounded
<1> HIDE DEF Less
<1>3. \E x \in S : \A y \in S : x <= y
  <2>1. PICK x \in S : \A y \in S : ~ (<<y, x>> \in Less)
    BY <1>2, WFMin
  <2>2. \A y \in S : x \in Nat /\ y \in Nat /\ ~ (y < x)
    BY <1>1, <2>1
  <2>3. \A y \in S : x <= y
    BY <2>2
  <2> QED  BY <2>3
<1> QED  BY <1>3 DEF Min

\* The largest number safs_init's loop can find exists: the member of S with
\* the fewest members above it has none.
LEMMA MaxOfFinite ==
  ASSUME NEW S \in SUBSET Nat, S # {}, IsFiniteSet(S)
  PROVE  Max(S) \in S /\ \A x \in S : x <= Max(S)
<1> DEFINE Above(x) == {y \in S : y > x}
           Counts == {Cardinality(Above(x)) : x \in S}
<1>1. \A x \in S : IsFiniteSet(Above(x)) /\ Cardinality(Above(x)) \in Nat
  BY FS_Subset, FS_CardinalityType
<1>2. Counts \in SUBSET Nat /\ Counts # {}
  BY <1>1
<1>3. PICK x \in S : Min(Counts) = Cardinality(Above(x))
  <2>1. Min(Counts) \in Counts  BY <1>2, MinOfNaturals
  <2> QED  BY <2>1
<1>4. Above(x) = {}
  <2> SUFFICES ASSUME NEW y \in Above(x)  PROVE FALSE
    OBVIOUS
  <2>0. x \in Nat /\ y \in Nat /\ y > x  OBVIOUS
  <2>1. Above(y) \in SUBSET Above(x) /\ y \notin Above(y)
    <3>1. \A z \in S : z > y => z > x  BY <2>0
    <3>2. ~ (y > y)  BY <2>0
    <3> QED  BY <3>1, <3>2, Zenon
  <2>2. Cardinality(Above(y)) < Cardinality(Above(x))
    BY <2>1, <1>1, FS_Subset
  <2>3. Cardinality(Above(x)) <= Cardinality(Above(y))
    <3>1. Cardinality(Above(y)) \in Counts  OBVIOUS
    <3> QED  BY <3>1, <1>2, <1>3, MinOfNaturals
  <2> QED  BY <2>2, <2>3, <1>1
<1>5. \A y \in S : x >= y
  BY <1>4
<1> QED  BY <1>5 DEF Max

\* A byte count is the larger of the old length and the end of the write.
LEMMA MaxOfTwo ==
  ASSUME NEW x \in Nat, NEW y \in Nat
  PROVE  Max({x, y}) \in Nat /\ x <= Max({x, y}) /\ y <= Max({x, y})
<1>1. IsFiniteSet({x, y})
  <2>1. {x, y} = {x} \cup {y}  OBVIOUS
  <2>2. IsFiniteSet({x}) /\ IsFiniteSet({y})  BY FS_Singleton
  <2>3. IsFiniteSet({x} \cup {y})  BY <2>2, FS_Union
  <2> QED  BY <2>1, <2>3
<1> QED  BY <1>1, MaxOfFinite
=============================================================================
