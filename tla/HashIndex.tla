----------------------------- MODULE HashIndex -----------------------------
(***************************************************************************)
(* The layout of the malware hash index of aiexpose and the search in it   *)
(* (internal/hashdb/hashdb.go), as pure definitions.                       *)
(*                                                                         *)
(* A key is the first 64 bits of an MD5: the top bits select a bucket, the *)
(* rest is the entry.  The file holds, for each bucket, how many keys are  *)
(* in the buckets before it, and then the entries in the order of the keys.*)
(***************************************************************************)
EXTENDS Integers, Sequences, FiniteSets

CONSTANTS
    Buckets,      \* bucketCount, 2^16 in the code
    Tails,        \* mask48 + 1, 2^48 in the code
    Counts        \* 2^32: the numbers of keys are written in 32 bits

ASSUME SizesAssumption == Buckets \in Nat \ {0} /\ Tails \in Nat \ {0} /\ Counts \in Nat \ {0}

Keys == 0 .. Buckets * Tails - 1
Bucket(k) == k \div Tails
Entry(k) == k % Tails

Increasing(s) == \A i, j \in DOMAIN s : i < j => s[i] < s[j]

\* Mutant: the first of the keys is taken for a copy of the zero the loop over
\* them starts with.
SortedSkippingZero(S) ==
    [i \in 1..Cardinality(S \ {0}) |->
        CHOOSE k \in S \ {0} : Cardinality({j \in S \ {0} : j < k}) = i - 1]

\* Build: the keys of all lists in order, each of them once.
Sorted(S) == [i \in 1..Cardinality(S) |->
                 CHOOSE k \in S : Cardinality({j \in S : j < k}) = i - 1]

\* writeIndex: the pass over the keys stops for bucket b where the first key of b
\* or of a later bucket is.
StartsAt(keys, b, n) ==
    /\ \A i \in 1..n : Bucket(keys[i]) < b
    /\ n < Len(keys) => Bucket(keys[n + 1]) >= b

Offsets(keys) ==
    [b \in 0..Buckets |-> (CHOOSE n \in 0..Len(keys) : StartsAt(keys, b, n)) % Counts]
Entries(keys) == [i \in DOMAIN keys |-> Entry(keys[i])]

\* Contains: sort.Search returns the least place in the bucket whose entry is not
\* below the one sought; it is found when they are equal.
Found(table, entries, k) ==
    \E i \in table[Bucket(k)] + 1 .. table[Bucket(k) + 1] :
        /\ entries[i] = Entry(k)
        /\ \A j \in table[Bucket(k)] + 1 .. i - 1 : entries[j] < Entry(k)

\* Only a bucket that is not empty is read; when it reaches beyond the end of the
\* file the read fails.
IsRead(table, k) == table[Bucket(k)] < table[Bucket(k) + 1]

CannotRead(table, entries, k) == IsRead(table, k) /\ table[Bucket(k) + 1] > Len(entries)
=============================================================================
