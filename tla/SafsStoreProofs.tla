--------------------------- MODULE SafsStoreProofs ---------------------------
(***************************************************************************)
(* What the searches of SafsStore find, and that the compaction copies     *)
(* every record it keeps exactly once.                                     *)
(***************************************************************************)
EXTENDS SafsStore, MinMaxProofs

\* A record written over a file, or removed from it, leaves the others.
LEMMA PutType ==
  ASSUME NEW S, NEW T, NEW f, DOMAIN f \subseteq S, f \in [DOMAIN f -> T],
         NEW x \in S, NEW v \in T
  PROVE  /\ DOMAIN Put(f, x, v) = DOMAIN f \cup {x}
         /\ DOMAIN Put(f, x, v) \subseteq S
         /\ Put(f, x, v) \in [DOMAIN Put(f, x, v) -> T]
  BY DEF Put

\* A data file removed leaves the others as they were.
LEMMA DropType ==
  ASSUME NEW S, NEW T, NEW f, DOMAIN f \subseteq S, f \in [DOMAIN f -> T], NEW x
  PROVE  /\ DOMAIN Drop(f, x) \subseteq S
         /\ Drop(f, x) \in [DOMAIN Drop(f, x) -> T]
  BY DEF Drop

\* safs_link's search ends at a slot that is not in use, at the latest past the
\* last record.
LEMMA FreeSlotType ==
  ASSUME NEW d, DOMAIN d \subseteq Nat, IsFiniteSet(DOMAIN d)
  PROVE  /\ FreeSlot(d) \in Nat /\ FreeSlot(d) \notin LiveSlots(d)
         /\ EndOfFile(d) \in Nat
         /\ DOMAIN d # {} => EndOfFile(d) - 1 \in DOMAIN d
<1>1. DOMAIN d # {} => /\ Max(DOMAIN d) \in DOMAIN d
                       /\ \A s \in DOMAIN d : s <= Max(DOMAIN d)
  BY MaxOfFinite
<1>2. EndOfFile(d) \in Nat /\ EndOfFile(d) \notin DOMAIN d
  <2>1. CASE DOMAIN d = {}  BY <2>1 DEF EndOfFile
  <2>2. CASE DOMAIN d # {}
    <3>1. EndOfFile(d) = Max(DOMAIN d) + 1 /\ Max(DOMAIN d) \in Nat
      BY <2>2, <1>1 DEF EndOfFile
    <3> QED  BY <2>2, <3>1, <1>1
  <2> QED  BY <2>1, <2>2
<1>3. (0 .. EndOfFile(d)) \ LiveSlots(d) \in SUBSET Nat
      /\ (0 .. EndOfFile(d)) \ LiveSlots(d) # {}
  BY <1>2 DEF LiveSlots
<1>4. FreeSlot(d) \in Nat /\ FreeSlot(d) \notin LiveSlots(d)
  BY <1>3, MinOfNaturals DEF FreeSlot
<1> QED  BY <1>1, <1>2, <1>4 DEF EndOfFile
-----------------------------------------------------------------------------
\* A record of K is copied after fewer others than there are, and the later of
\* two records after more.
LEMMA RankIncreasing ==
  ASSUME NEW K \in SUBSET Nat, IsFiniteSet(K)
  PROVE  /\ \A s \in K : Rank(K, s) \in 0 .. Cardinality(K) - 1
         /\ \A s, t \in K : Rank(K, s) = Rank(K, t) => s = t
<1> DEFINE Below(s) == {t \in K : t < s}
           R == 0 .. Cardinality(K) - 1
<1>0. Cardinality(K) \in Nat
  BY FS_CardinalityType
<1>1. \A s \in K : IsFiniteSet(Below(s)) /\ Cardinality(Below(s)) \in R
  <2> TAKE s \in K
  <2>1. Below(s) \in SUBSET K /\ Below(s) # K  OBVIOUS
  <2>2. IsFiniteSet(Below(s)) /\ Cardinality(Below(s)) < Cardinality(K)
    BY <2>1, <1>0, FS_Subset, FS_CardinalityType
  <2> QED  BY <2>2, <1>0, FS_CardinalityType
<1>2. \A s, t \in K : s < t => Rank(K, s) < Rank(K, t)
  <2> SUFFICES ASSUME NEW s \in K, NEW t \in K, s < t
               PROVE  Cardinality(Below(s)) < Cardinality(Below(t))
    BY DEF Rank
  <2>0. s \in Nat /\ t \in Nat  OBVIOUS
  <2>1. Below(s) \in SUBSET Below(t) /\ s \in Below(t) /\ s \notin Below(s)
    <3>1. \A z \in K : z < s => z < t  BY <2>0
    <3>2. ~ (s < s)  BY <2>0
    <3> QED  BY <3>1, <3>2, Zenon
  <2>2. Cardinality(Below(s)) <= Cardinality(Below(t))
        /\ Cardinality(Below(s)) # Cardinality(Below(t))
    BY <2>1, <1>1, FS_Subset
  <2> QED  BY <2>2, <1>1
<1>3. \A s \in K : Rank(K, s) \in R
  BY <1>1 DEF Rank
<1>4. \A s, t \in K : Rank(K, s) = Rank(K, t) => s = t
  <2> SUFFICES ASSUME NEW s \in K, NEW t \in K, Rank(K, s) = Rank(K, t), s # t
               PROVE  FALSE
    OBVIOUS
  <2>1. s < t \/ t < s  OBVIOUS
  <2>2. Rank(K, s) \in Nat /\ Rank(K, t) \in Nat  BY <1>0, <1>3
  <2> QED  BY <2>1, <2>2, <1>2
<1> QED  BY <1>3, <1>4

\* Of the records in K, exactly one is copied after r others.
LEMMA RankedInSet ==
  ASSUME NEW K \in SUBSET Nat, IsFiniteSet(K), NEW r \in 0 .. Cardinality(K) - 1
  PROVE  Ranked(K, r) \in K /\ Rank(K, Ranked(K, r)) = r
<1> DEFINE f == [s \in K |-> Rank(K, s)]
           R == 0 .. Cardinality(K) - 1
<1>1. f \in Injection(K, R)
  <2>1. f \in [K -> R]  BY RankIncreasing
  <2>2. \A s, t \in K : f[s] = f[t] => s = t  BY RankIncreasing
  <2> QED  BY <2>1, <2>2 DEF Injection, IsInjective
<1>2. IsFiniteSet(R) /\ Cardinality(R) = Cardinality(K)
  BY FS_CardinalityType, FS_Interval
<1>3. f \in Surjection(K, R)
  BY <1>1, <1>2, FS_Injection
<1>4. \E s \in K : Rank(K, s) = r
  BY <1>3 DEF Surjection
<1> QED  BY <1>4 DEF Ranked

\* The new Directory~ has its records from FirstNewSlot on; each is one that
\* was kept, and none is copied twice.
LEMMA RebuiltCopies ==
  ASSUME NEW d, NEW K \in SUBSET Nat, IsFiniteSet(K)
  PROVE  /\ Cardinality(K) \in Nat
         /\ DOMAIN Rebuilt(d, K) = 2 .. Cardinality(K) + 1
         /\ \A s \in DOMAIN Rebuilt(d, K) :
              \E k \in K : Rebuilt(d, K)[s] = d[k]
         /\ \A s, t \in DOMAIN Rebuilt(d, K) :
              s # t => \E j, k \in K : /\ j # k
                                       /\ Rebuilt(d, K)[s] = d[j]
                                       /\ Rebuilt(d, K)[t] = d[k]
<1>1. Cardinality(K) \in Nat
  BY FS_CardinalityType
<1>2. /\ DOMAIN Rebuilt(d, K) = 2 .. Cardinality(K) + 1
      /\ \A s \in DOMAIN Rebuilt(d, K) : Rebuilt(d, K)[s] = d[Ranked(K, s - 2)]
  BY <1>1 DEF Rebuilt, FirstNewSlot
<1>3. \A s \in DOMAIN Rebuilt(d, K) :
        Ranked(K, s - 2) \in K /\ Rank(K, Ranked(K, s - 2)) = s - 2
  BY <1>1, <1>2, RankedInSet
<1>4. \A s, t \in DOMAIN Rebuilt(d, K) :
        s # t => Ranked(K, s - 2) # Ranked(K, t - 2)
  BY <1>2, <1>3
<1> QED  BY <1>1, <1>2, <1>3, <1>4

\* Every record that was kept is in the new Directory~.
LEMMA RebuiltHasAll ==
  ASSUME NEW d, NEW K \in SUBSET Nat, IsFiniteSet(K), NEW k \in K
  PROVE  \E s \in DOMAIN Rebuilt(d, K) : Rebuilt(d, K)[s] = d[k]
<1>1. Cardinality(K) \in Nat /\ Rank(K, k) \in 0 .. Cardinality(K) - 1
  BY FS_CardinalityType, RankIncreasing
<1>2. Ranked(K, Rank(K, k)) = k
  <2>1. /\ Ranked(K, Rank(K, k)) \in K
        /\ Rank(K, Ranked(K, Rank(K, k))) = Rank(K, k)
    BY <1>1, RankedInSet
  <2>2. \A s, t \in K : Rank(K, s) = Rank(K, t) => s = t
    BY RankIncreasing
  <2> QED  BY <2>1, <2>2, Zenon
<1> DEFINE s == Rank(K, k) + 2
<1>3. s \in FirstNewSlot .. FirstNewSlot + Cardinality(K) - 1
      /\ s - FirstNewSlot = Rank(K, k)
  BY <1>1 DEF FirstNewSlot
<1> HIDE DEF s
<1> QED  BY <1>2, <1>3 DEF Rebuilt
=============================================================================
