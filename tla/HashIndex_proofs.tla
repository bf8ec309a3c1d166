-------------------------- MODULE HashIndex_proofs --------------------------
(***************************************************************************)
(* Proofs about the hash index: for any sizes and any keys, the search     *)
(* finds a key exactly when it is among those the index was built from.    *)
(***************************************************************************)
EXTENDS HashIndex, LeastNumber, FiniteSetTheorems, SequenceTheorems, TLAPS

-----------------------------------------------------------------------------
(* Keys, buckets and entries. *)

LEMMA KeyParts ==
    ASSUME NEW k \in Keys
    PROVE  /\ Bucket(k) \in 0..Buckets-1 /\ Entry(k) \in 0..Tails-1
           /\ k = Tails * Bucket(k) + Entry(k)
BY SizesAssumption, Z3T(30) DEF Keys, Bucket, Entry

LEMMA KeyOrder ==
    ASSUME NEW j \in Keys, NEW k \in Keys
    PROVE  /\ j < k => Bucket(j) <= Bucket(k)
           /\ j < k /\ Bucket(j) = Bucket(k) => Entry(j) < Entry(k)
           /\ Bucket(j) = Bucket(k) /\ Entry(j) = Entry(k) => j = k
BY KeyParts, SizesAssumption, Z3T(30)

-----------------------------------------------------------------------------
(* The keys in order. *)

Below(S, k) == {j \in S : j < k}

\* A key has fewer keys before it than a greater one, and than there are.
LEMMA RankGrows ==
    ASSUME NEW S \in SUBSET Nat, IsFiniteSet(S), NEW k \in S
    PROVE  /\ Cardinality(Below(S, k)) \in 0..Cardinality(S) - 1
           /\ \A j \in S : j < k => Cardinality(Below(S, j)) < Cardinality(Below(S, k))
<1>1. ASSUME NEW T \in SUBSET S, NEW U \in SUBSET T, U # T
      PROVE  /\ Cardinality(T) \in Nat /\ Cardinality(U) \in Nat
             /\ Cardinality(U) < Cardinality(T)
  <2>1. IsFiniteSet(T) /\ IsFiniteSet(U)
    BY FS_Subset
  <2>2. Cardinality(U) <= Cardinality(T) /\ Cardinality(T) # Cardinality(U)
    BY <1>1, <2>1, FS_Subset
  <2>3. Cardinality(T) \in Nat /\ Cardinality(U) \in Nat
    BY <2>1, FS_CardinalityType
  <2> QED BY <2>2, <2>3
<1>2. Below(S, k) \in SUBSET S /\ Below(S, k) # S
  <2>1. k \notin Below(S, k)
    BY DEF Below
  <2> QED BY <2>1 DEF Below
<1>3. Cardinality(S) \in Nat /\ Cardinality(Below(S, k)) \in Nat
      /\ Cardinality(Below(S, k)) < Cardinality(S)
  BY <1>1, <1>2
<1>4. ASSUME NEW j \in S, j < k PROVE Cardinality(Below(S, j)) < Cardinality(Below(S, k))
  <2>1. Below(S, j) \in SUBSET Below(S, k)
    <3>1. ASSUME NEW i \in S, i < j PROVE i < k
      <4>1. i \in Nat /\ j \in Nat /\ k \in Nat
        OBVIOUS
      <4> QED BY <1>4, <3>1, <4>1
    <3> QED BY <3>1 DEF Below
  <2>2. j \in Below(S, k) /\ j \notin Below(S, j)
    BY <1>4 DEF Below
  <2> QED BY <1>1, <1>2, <2>1, <2>2
<1> QED BY <1>3, <1>4

\* And how many come before it takes every value there is room for.
LEMMA EveryRank ==
    ASSUME NEW S \in SUBSET Nat, IsFiniteSet(S), NEW i \in 1..Cardinality(S)
    PROVE  \E k \in S : Cardinality(Below(S, k)) = i - 1
<1> DEFINE rank == [k \in S |-> Cardinality(Below(S, k))]
           places == 0..Cardinality(S) - 1
<1>1. Cardinality(S) \in Nat
  BY FS_CardinalityType
<1>2. rank \in [S -> places]
  BY RankGrows
<1>3. ASSUME NEW j \in S, NEW k \in S, rank[j] = rank[k] PROVE j = k
  <2>1. rank[j] \in places /\ rank[j] = Cardinality(Below(S, j))
    BY <1>2
  <2>2. ~(j < k) /\ ~(k < j)
    BY <1>1, <1>3, <2>1, RankGrows
  <2> QED BY <2>2
<1> HIDE DEF rank
<1>4. rank \in Injection(S, places)
  BY <1>2, <1>3 DEF Injection, IsInjective
<1>5. IsFiniteSet(places) /\ Cardinality(places) = Cardinality(S)
  <2>1. /\ IsFiniteSet(places)
        /\ Cardinality(places) = IF 0 > Cardinality(S) - 1 THEN 0 ELSE (Cardinality(S) - 1) - 0 + 1
    <3>1. 0 \in Int /\ Cardinality(S) - 1 \in Int
      BY <1>1
    <3> HIDE <1>1
    <3> QED BY <3>1, FS_Interval
  <2> QED BY <1>1, <2>1
<1>6. rank \in Surjection(S, places)
  BY <1>4, <1>5, FS_Injection
<1>7. i - 1 \in places
  BY <1>1
<1>8. PICK k \in S : rank[k] = i - 1
  BY <1>6, <1>7 DEF Surjection
<1> QED BY <1>8 DEF rank

\* The keys of a corpus are put in order, each of them once (Build).
THEOREM SortedIsInOrder ==
    ASSUME NEW S \in SUBSET Keys, IsFiniteSet(S)
    PROVE  /\ Sorted(S) \in Seq(Keys) /\ Increasing(Sorted(S))
           /\ Len(Sorted(S)) = Cardinality(S)
           /\ \A k : k \in S <=> \E i \in DOMAIN Sorted(S) : Sorted(S)[i] = k
<1> DEFINE n == Cardinality(S)
<1>1. S \in SUBSET Nat /\ n \in Nat
  BY FS_CardinalityType, SizesAssumption DEF Keys
<1>2. ASSUME NEW i \in 1..n
      PROVE  Sorted(S)[i] \in S /\ Cardinality(Below(S, Sorted(S)[i])) = i - 1
  <2>1. Sorted(S)[i] = CHOOSE k \in S : Cardinality(Below(S, k)) = i - 1
    BY DEF Sorted, Below
  <2> QED BY <1>1, <2>1, EveryRank
<1>3. DOMAIN Sorted(S) = 1..n
  BY DEF Sorted
<1>4. \A j, k \in S : j < k => Cardinality(Below(S, j)) < Cardinality(Below(S, k))
  BY <1>1, RankGrows
<1>5. \A k \in S : Cardinality(Below(S, k)) \in 0..n-1
  BY <1>1, RankGrows
<1> HIDE DEF n
<1>6. Increasing(Sorted(S))
  <2> SUFFICES ASSUME NEW i \in 1..n, NEW j \in 1..n, i < j PROVE Sorted(S)[i] < Sorted(S)[j]
    BY <1>3 DEF Increasing
  <2>1. Sorted(S)[i] \in Nat /\ Sorted(S)[j] \in Nat
    BY <1>1, <1>2
  <2>2. Sorted(S)[i] # Sorted(S)[j]
    BY <1>1, <1>2
  <2>3. ~(Sorted(S)[j] < Sorted(S)[i])
    <3>1. Sorted(S)[j] < Sorted(S)[i] => j - 1 < i - 1
      BY <1>2, <1>4
    <3> QED BY <1>1, <3>1
  <2> QED BY <2>1, <2>2, <2>3
<1>7. ASSUME NEW k \in S PROVE \E i \in DOMAIN Sorted(S) : Sorted(S)[i] = k
  <2>1. PICK i \in 1..n : Cardinality(Below(S, k)) = i - 1
    <3>1. Cardinality(Below(S, k)) + 1 \in 1..n
      BY <1>1, <1>5
    <3>2. Cardinality(Below(S, k)) = (Cardinality(Below(S, k)) + 1) - 1
      BY <1>5
    <3> QED BY <3>1, <3>2
  <2>2. Sorted(S)[i] \in S /\ Cardinality(Below(S, Sorted(S)[i])) = Cardinality(Below(S, k))
    BY <1>2, <2>1
  <2>3. ~(Sorted(S)[i] < k) /\ ~(k < Sorted(S)[i])
    BY <1>4, <1>5, <2>2
  <2>4. Sorted(S)[i] \in Nat /\ k \in Nat
    BY <1>1, <2>2
  <2> QED BY <1>3, <2>3, <2>4
<1>8. Sorted(S) \in Seq(Keys)
  <2>1. Sorted(S) \in [1..n -> Keys]
    BY <1>2, <1>3 DEF Sorted, n
  <2> QED BY <1>1, <2>1, SeqDef
<1>9. Len(Sorted(S)) = Cardinality(S)
  BY <1>1, <1>3, <1>8 DEF n
<1> QED BY <1>2, <1>3, <1>6, <1>7, <1>8, <1>9

-----------------------------------------------------------------------------
(* The offsets. *)

\* For every bucket there is exactly one place where the pass over the keys stops.
LEMMA StopsOnce ==
    ASSUME NEW keys \in Seq(Keys), NEW b \in Nat
    PROVE  \E n \in 0..Len(keys) : StartsAt(keys, b, n)
<1> DEFINE T == {n \in 0..Len(keys) : n < Len(keys) => Bucket(keys[n + 1]) >= b}
<1>1. Len(keys) \in T
  BY LenProperties
<1>2. PICK n \in T : \A m \in T : n <= m
  <2>1. T \in SUBSET Nat
    BY LenProperties
  <2> QED BY <1>1, <2>1, Least
<1>3. \A m \in 0..Len(keys) : m < n => m < Len(keys) /\ ~(Bucket(keys[m + 1]) >= b)
  BY <1>2, LenProperties
<1>4. n \in 0..Len(keys) /\ Len(keys) \in Nat
  BY LenProperties
<1> HIDE DEF T
<1>5. ASSUME NEW i \in 1..n PROVE Bucket(keys[i]) < b
  <2>1. i - 1 \in 0..Len(keys) /\ i - 1 < n /\ (i - 1) + 1 = i
    BY <1>4
  <2>2. ~(Bucket(keys[i]) >= b)
    BY <1>3, <2>1
  <2>3. Bucket(keys[i]) \in Int
    BY <1>4, KeyParts
  <2> QED BY <2>2, <2>3
<1>6. n < Len(keys) => Bucket(keys[n + 1]) >= b
  BY <1>2 DEF T
<1> QED BY <1>4, <1>5, <1>6 DEF StartsAt

LEMMA OffsetsStop ==
    ASSUME NEW keys \in Seq(Keys), Len(keys) < Counts, NEW b \in 0..Buckets
    PROVE  Offsets(keys)[b] \in 0..Len(keys) /\ StartsAt(keys, b, Offsets(keys)[b])
<1> DEFINE n == CHOOSE m \in 0..Len(keys) : StartsAt(keys, b, m)
<1>1. b \in Nat
  BY SizesAssumption
<1>2. n \in 0..Len(keys) /\ StartsAt(keys, b, n)
  BY <1>1, StopsOnce
<1>3. Offsets(keys)[b] = n % Counts
  BY DEF Offsets
<1> HIDE DEF n
<1>4. n % Counts = n
  <2>1. Len(keys) \in Nat /\ Counts \in Nat \ {0}
    BY LenProperties, SizesAssumption
  <2>2. n \in Nat /\ n < Counts
    BY <1>2, <2>1
  <2> QED BY <2>1, <2>2
<1> QED BY <1>2, <1>3, <1>4

\* The keys of a bucket are those between its offset and the next.
LEMMA BucketIsBetween ==
    ASSUME NEW keys \in Seq(Keys), Len(keys) < Counts, Increasing(keys), NEW b \in 0..Buckets-1,
           NEW i \in DOMAIN keys
    PROVE  Bucket(keys[i]) = b <=>
               i \in Offsets(keys)[b] + 1 .. Offsets(keys)[b + 1]
<1> DEFINE lo == Offsets(keys)[b]
           hi == Offsets(keys)[b + 1]
<1>1. b \in 0..Buckets /\ b + 1 \in 0..Buckets
  BY SizesAssumption
<1>2. lo \in 0..Len(keys) /\ StartsAt(keys, b, lo) /\ hi \in 0..Len(keys) /\ StartsAt(keys, b + 1, hi)
  BY <1>1, OffsetsStop
<1>3. \A j, k \in DOMAIN keys : j <= k => Bucket(keys[j]) <= Bucket(keys[k])
  <2>1. \A j, k \in DOMAIN keys : j < k => keys[j] < keys[k]
    BY DEF Increasing
  <2>2. \A j \in DOMAIN keys : keys[j] \in Keys /\ Bucket(keys[j]) \in Int
    BY KeyParts
  <2>3. DOMAIN keys \subseteq Int
    BY DEF Increasing
  <2> QED BY <2>1, <2>2, <2>3, KeyOrder
<1>4. Bucket(keys[i]) \in Int /\ i \in 1..Len(keys) /\ DOMAIN keys = 1..Len(keys)
  BY KeyParts
<1> HIDE DEF lo, hi
<1>5. i <= lo => Bucket(keys[i]) < b
  BY <1>2, <1>4 DEF StartsAt
<1>6. i > lo => Bucket(keys[i]) >= b
  <2> SUFFICES ASSUME i > lo PROVE Bucket(keys[i]) >= b
    OBVIOUS
  <2>1. lo < Len(keys) /\ lo + 1 \in DOMAIN keys /\ lo + 1 <= i
    BY <1>2, <1>4
  <2>2. Bucket(keys[lo + 1]) >= b /\ Bucket(keys[lo + 1]) <= Bucket(keys[i])
    BY <1>2, <1>3, <1>4, <2>1 DEF StartsAt
  <2>3. Bucket(keys[lo + 1]) \in Int
    BY <2>1, KeyParts
  <2> QED BY <1>4, <2>2, <2>3
<1>7. i <= hi => Bucket(keys[i]) < b + 1
  BY <1>2, <1>4 DEF StartsAt
<1>8. i > hi => Bucket(keys[i]) >= b + 1
  <2> SUFFICES ASSUME i > hi PROVE Bucket(keys[i]) >= b + 1
    OBVIOUS
  <2>1. hi < Len(keys) /\ hi + 1 \in DOMAIN keys /\ hi + 1 <= i
    BY <1>2, <1>4
  <2>2. Bucket(keys[hi + 1]) >= b + 1 /\ Bucket(keys[hi + 1]) <= Bucket(keys[i])
    BY <1>2, <1>3, <1>4, <2>1 DEF StartsAt
  <2>3. Bucket(keys[hi + 1]) \in Int
    BY <2>1, KeyParts
  <2> QED BY <1>4, <2>2, <2>3
<1>9. (Bucket(keys[i]) = b) <=> (i > lo /\ i <= hi)
  BY <1>2, <1>4, <1>5, <1>6, <1>7, <1>8
<1> QED BY <1>2, <1>4, <1>9 DEF lo, hi

\* The search finds a key exactly when the index was built from it: also the first
\* and the last key, in the first and the last bucket, and in empty ones (Contains).
THEOREM FoundIsMember ==
    ASSUME NEW keys \in Seq(Keys), Len(keys) < Counts, Increasing(keys), NEW k \in Keys
    PROVE  Found(Offsets(keys), Entries(keys), k) <=> \E i \in DOMAIN keys : keys[i] = k
<1> DEFINE lo == Offsets(keys)[Bucket(k)]
           hi == Offsets(keys)[Bucket(k) + 1]
<1>1. /\ Bucket(k) \in 0..Buckets /\ Bucket(k) + 1 \in 0..Buckets
      /\ Bucket(k) \in 0..Buckets-1 /\ Entry(k) \in Int
  BY KeyParts, SizesAssumption
<1>2. lo \in 0..Len(keys) /\ hi \in 0..Len(keys)
  BY <1>1, OffsetsStop
<1>3. \A i \in DOMAIN keys : keys[i] \in Keys /\ Entry(keys[i]) \in Int /\ Entries(keys)[i] = Entry(keys[i])
  BY KeyParts DEF Entries
<1>4. DOMAIN keys = 1..Len(keys)
  OBVIOUS
<1>5. \A i \in lo + 1 .. hi : i \in DOMAIN keys /\ Bucket(keys[i]) = Bucket(k)
  BY <1>1, <1>2, <1>4, BucketIsBetween
<1>6. \A i \in DOMAIN keys : keys[i] = k => i \in lo + 1 .. hi
  BY <1>1, BucketIsBetween
<1>7. ASSUME NEW i \in lo + 1 .. hi, Entries(keys)[i] = Entry(k) PROVE keys[i] = k
  BY <1>3, <1>5, <1>7, KeyOrder
<1>8. ASSUME NEW i \in DOMAIN keys, keys[i] = k
      PROVE  \A j \in lo + 1 .. i - 1 : Entries(keys)[j] < Entry(k)
  <2> SUFFICES ASSUME NEW j \in lo + 1 .. i - 1 PROVE Entries(keys)[j] < Entry(k)
    OBVIOUS
  <2>1. j \in lo + 1 .. hi /\ j < i
    BY <1>2, <1>4, <1>6, <1>8
  <2>2. j \in DOMAIN keys /\ Bucket(keys[j]) = Bucket(k)
    BY <1>5, <2>1
  <2>3. keys[j] < k
    BY <1>8, <2>1, <2>2 DEF Increasing
  <2> QED BY <1>3, <2>2, <2>3, KeyOrder
<1> HIDE DEF lo, hi
<1>9. Found(Offsets(keys), Entries(keys), k) <=>
         \E i \in lo + 1 .. hi : /\ Entries(keys)[i] = Entry(k)
                                /\ \A j \in lo + 1 .. i - 1 : Entries(keys)[j] < Entry(k)
  BY DEF Found, lo, hi
<1> QED BY <1>3, <1>5, <1>6, <1>7, <1>8, <1>9

\* An index as Build writes it is one Open accepts, and no search in it reads past
\* its end.
THEOREM IndexIsReadable ==
    ASSUME NEW keys \in Seq(Keys), Len(keys) < Counts, Increasing(keys)
    PROVE  /\ Offsets(keys)[Buckets] = Len(Entries(keys))
           /\ \A k \in Keys : ~CannotRead(Offsets(keys), Entries(keys), k)
<1>1. Len(Entries(keys)) = Len(keys)
  BY DEF Entries
<1>2. ASSUME NEW b \in 0..Buckets PROVE Offsets(keys)[b] \in 0..Len(keys)
  BY OffsetsStop
<1>3. Offsets(keys)[Buckets] = Len(keys)
  <2> DEFINE n == Offsets(keys)[Buckets]
  <2>1. Buckets \in 0..Buckets
    BY SizesAssumption
  <2>2. n \in 0..Len(keys) /\ StartsAt(keys, Buckets, n)
    BY <2>1, OffsetsStop
  <2>3. SUFFICES ASSUME n < Len(keys) PROVE FALSE
    BY <2>2
  <2>4. n + 1 \in DOMAIN keys
    BY <2>2, <2>3
  <2>5. Bucket(keys[n + 1]) \in 0..Buckets - 1
    BY <2>4, KeyParts
  <2>6. Bucket(keys[n + 1]) >= Buckets
    BY <2>2, <2>3 DEF StartsAt
  <2> QED BY <2>5, <2>6, SizesAssumption
<1>4. ASSUME NEW k \in Keys PROVE ~CannotRead(Offsets(keys), Entries(keys), k)
  <2>1. Bucket(k) + 1 \in 0..Buckets
    BY KeyParts, SizesAssumption
  <2> QED BY <1>1, <1>2, <2>1 DEF CannotRead
<1> QED BY <1>1, <1>3, <1>4

\* The index of a corpus holds the corpus, and nothing else.
THEOREM IndexIsMembership ==
    ASSUME NEW S \in SUBSET Keys, IsFiniteSet(S), Cardinality(S) < Counts, NEW k \in Keys
    PROVE  Found(Offsets(Sorted(S)), Entries(Sorted(S)), k) <=> k \in S
BY SortedIsInOrder, FoundIsMember
=============================================================================
