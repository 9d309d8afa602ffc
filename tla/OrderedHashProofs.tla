------------------------- MODULE OrderedHashProofs --------------------------
(***************************************************************************)
(* For all keys and hashes, entries, load factors and sizes: after any     *)
(* sequence of operations but the insertion at a position and the erasure  *)
(* of a range, every key of a map is found and no other is, the buckets    *)
(* are in robin hood order, and an insertion meets an empty bucket.  (The  *)
(* two that are left out break the first of these.)  The condition is that *)
(* no load factor reaches 100 per cent (BelowFull), which the code does not *)
(* see to: with a larger one than that a table fills up.                   *)
(*                                                                         *)
(* The invariant says of each table that its taken buckets are, each once, *)
(* those of its values, in robin hood order, that it has an empty bucket   *)
(* unless it has two at most, and that its threshold is less than the      *)
(* number of its buckets.  The order alone makes a probe right: between    *)
(* an entry and its ideal bucket there is no empty one and none that is    *)
(* nearer to its own (Chain).  The walk of an insertion and the backward   *)
(* shift of an erasure keep order and contents, round by round; the        *)
(* threshold makes the table grow before the last bucket is taken.         *)
(***************************************************************************)
EXTENDS OrderedHash, Recursion, FiniteSetTheorems, SequenceTheorems, TLAPS

\* Every load factor that is asked for leaves a part of the buckets empty.
BelowFull == MaxLoadFactors \subseteq 1 .. 99

-----------------------------------------------------------------------------
(* The ring of buckets                                                     *)

\* The remainder is what its definition says.
LEMMA ModIs ==
  ASSUME NEW n \in Nat \ {0}, NEW q \in Int, NEW r \in 0 .. n - 1
  PROVE  (n * q + r) % n = r
OBVIOUS

\* A bucket d ahead of bucket i in a ring of n, ...
Ahead(n, i, d) == IF i + d < n THEN i + d ELSE i + d - n

\* ... the one that is d behind it, ...
Behind(n, i, d) == IF i >= d THEN i - d ELSE n + i - d

\* ... and how far i is ahead of a.
Gap(n, a, i) == IF i >= a THEN i - a ELSE n + i - a

\* hash & m_hash_mask, then d buckets on.
LEMMA ProbedIs ==
  ASSUME NEW n \in Nat \ {0}, NEW h \in Nat
  PROVE  /\ h % n \in 0 .. n - 1
         /\ \A d \in 0 .. n : (h + d) % n = Ahead(n, h % n, d)
<1> DEFINE q == h \div n
           r == h % n
<1>1. q \in Int /\ r \in 0 .. n - 1 /\ h = n * q + r
  OBVIOUS
<1> HIDE DEF q, r
<1> SUFFICES ASSUME NEW d \in 0 .. n PROVE (h + d) % n = Ahead(n, r, d)
  BY <1>1 DEF r
<1>2. CASE r + d < n
  <2>1. h + d = n * q + (r + d) /\ r + d \in 0 .. n - 1
    BY <1>1, <1>2
  <2>2. (h + d) % n = r + d
    BY <1>1, <2>1, ModIs
  <2> QED BY <1>1, <1>2, <2>2 DEF Ahead
<1>3. CASE ~ (r + d < n)
  <2> DEFINE s == r + d - n
             p == q + 1
  <2>1. s \in 0 .. n - 1 /\ p \in Int
    BY <1>1, <1>3
  <2>2. h + d = n * p + s
    <3>1. n * p = n * q + n
      BY <1>1
    <3> QED BY <1>1, <3>1
  <2> HIDE DEF s, p
  <2>3. (h + d) % n = s
    BY <2>1, <2>2, ModIs
  <2> QED BY <1>1, <1>3, <2>3 DEF Ahead, s
<1> QED BY <1>2, <1>3

\* The same between two buckets.
LEMMA RingIs ==
  ASSUME NEW n \in Nat \ {0}, NEW i \in 0 .. n - 1
  PROVE  /\ \A d \in 0 .. n : (i + d) % n = Ahead(n, i, d) /\ Ahead(n, i, d) \in 0 .. n - 1
         /\ \A j \in 0 .. n - 1 : (j - i) % n = Gap(n, i, j) /\ Gap(n, i, j) \in 0 .. n - 1
         /\ (i - 1) % n = Behind(n, i, 1)
         /\ (i + 1) % n = Ahead(n, i, 1)
         /\ \A d \in 0 .. n : Behind(n, i, d) \in 0 .. n - 1
<1>1. ASSUME NEW d \in 0 .. n
      PROVE  /\ (i + d) % n = Ahead(n, i, d) /\ Ahead(n, i, d) \in 0 .. n - 1
             /\ Behind(n, i, d) \in 0 .. n - 1
  BY DEF Ahead, Behind
<1>2. ASSUME NEW j \in 0 .. n - 1
      PROVE  (j - i) % n = Gap(n, i, j) /\ Gap(n, i, j) \in 0 .. n - 1
  BY DEF Gap
<1>3. (i - 1) % n = Behind(n, i, 1)
  BY DEF Behind
<1>4. (i + 1) % n = Ahead(n, i, 1)
  BY DEF Ahead
<1> QED BY <1>1, <1>2, <1>3, <1>4

\* Going round the ring.
LEMMA Around ==
  ASSUME NEW n \in Nat \ {0}, NEW a \in 0 .. n - 1, NEW i \in 0 .. n - 1
  PROVE  /\ Ahead(n, a, Gap(n, a, i)) = i
         /\ \A d \in 0 .. n - 1 : Gap(n, a, Ahead(n, a, d)) = d
         /\ \A d \in 0 .. Gap(n, a, i) : Behind(n, i, d) = Ahead(n, a, Gap(n, a, i) - d)
         /\ Gap(n, a, i) < n - 1 => Gap(n, a, Ahead(n, i, 1)) = Gap(n, a, i) + 1
         /\ Behind(n, Ahead(n, i, 1), 1) = i /\ Ahead(n, Behind(n, i, 1), 1) = i
         /\ Gap(n, a, i) > 0 => Gap(n, a, Behind(n, i, 1)) = Gap(n, a, i) - 1
         /\ \A d \in 0 .. n - 1 : Behind(n, Behind(n, i, d), 1) = Behind(n, i, d + 1)
         /\ \A d \in 0 .. n - 1 : Ahead(n, Ahead(n, i, d), 1) = Ahead(n, i, d + 1)
<1>1. Ahead(n, a, Gap(n, a, i)) = i
  BY DEF Ahead, Gap
<1>2. ASSUME NEW d \in 0 .. n - 1 PROVE Gap(n, a, Ahead(n, a, d)) = d
  BY DEF Ahead, Gap
<1>3. ASSUME NEW d \in 0 .. Gap(n, a, i)
      PROVE  Behind(n, i, d) = Ahead(n, a, Gap(n, a, i) - d)
  <2>1. CASE i >= a
    BY <2>1 DEF Ahead, Behind, Gap
  <2>2. CASE i < a
    BY <2>2 DEF Ahead, Behind, Gap
  <2> QED BY <2>1, <2>2
<1>4. Gap(n, a, i) < n - 1 => Gap(n, a, Ahead(n, i, 1)) = Gap(n, a, i) + 1
  BY DEF Ahead, Gap
<1>5. Behind(n, Ahead(n, i, 1), 1) = i /\ Ahead(n, Behind(n, i, 1), 1) = i
  BY DEF Ahead, Behind
<1>6. Gap(n, a, i) > 0 => Gap(n, a, Behind(n, i, 1)) = Gap(n, a, i) - 1
  BY DEF Behind, Gap
<1>7. ASSUME NEW d \in 0 .. n - 1
      PROVE  /\ Behind(n, Behind(n, i, d), 1) = Behind(n, i, d + 1)
             /\ Ahead(n, Ahead(n, i, d), 1) = Ahead(n, i, d + 1)
  BY <1>7 DEF Ahead, Behind
<1> QED BY <1>1, <1>2, <1>3, <1>4, <1>5, <1>6, <1>7

\* The least element of a set of natural numbers.
LEMMA MinIs ==
  ASSUME NEW S, S \subseteq Nat, S # {}
  PROVE  Min(S) \in S /\ \A x \in S : Min(S) <= x
<1>1. PICK x \in S : \A y \in S : x <= y
  BY LeastElement
<1> QED BY <1>1 DEF Min

\* The greater of two numbers.
LEMMA MaxIs ==
  ASSUME NEW m \in Int, NEW n \in Int
  PROVE  Max({m, n}) = IF m >= n THEN m ELSE n
<1>1. CASE m >= n
  <2>1. \A x \in {m, n} : (\A y \in {m, n} : x >= y) <=> x = m
    BY <1>1
  <2> QED BY <1>1, <2>1 DEF Max
<1>2. CASE ~ (m >= n)
  <2>1. \A x \in {m, n} : (\A y \in {m, n} : x >= y) <=> x = n
    BY <1>2
  <2> QED BY <1>2, <2>1 DEF Max
<1> QED BY <1>1, <1>2

-----------------------------------------------------------------------------
(* Arrays of buckets                                                       *)

\* What a bucket may hold: the index of a value, or none, and a hash.
Bucket == [index : Nat \cup {EMPTY}, hash : Nat]

\* The arrays of n buckets, counted from 0 as in the code.
Array(n) == [0 .. n - 1 -> Bucket]

\* How far a bucket's entry would be from its ideal in bucket i.
Distance(n, e, i) == Gap(n, e.hash % n, i)

\* RobinHoodOrder for one array.
Robin(n, b) ==
  \A i \in 0 .. n - 1 :
    b[i].index # EMPTY /\ Distance(n, b[i], i) > 0 =>
      /\ b[Behind(n, i, 1)].index # EMPTY
      /\ Distance(n, b[Behind(n, i, 1)], Behind(n, i, 1)) >= Distance(n, b[i], i) - 1

\* No two buckets lead to one value.
OneEach(n, b) ==
  \A i, j \in 0 .. n - 1 : b[i].index # EMPTY /\ b[i].index = b[j].index => i = j

\* What the buckets hold, wherever they do.
Contents(n, b) == {b[i] : i \in {j \in 0 .. n - 1 : b[j].index # EMPTY}}

\* The number of buckets.
LEMMA CountIs ==
  ASSUME NEW n \in Nat, NEW b \in Array(n)
  PROVE  /\ BucketCount(b) = n /\ DOMAIN b = 0 .. n - 1
         /\ b = <<>> <=> n = 0
<1>1. DOMAIN b = 0 .. n - 1
  BY DEF Array
<1>2. BucketCount(b) = n
  BY <1>1, FS_Interval DEF BucketCount
<1>3. DOMAIN <<>> = {}
  OBVIOUS
<1>4. CASE n = 0
  <2>1. b = [i \in {} |-> b[i]] /\ <<>> = [i \in {} |-> <<>>[i]]
    BY <1>4 DEF Array
  <2> QED BY <1>1, <1>2, <1>4, <2>1
<1>5. CASE n # 0
  <2>1. 0 \in DOMAIN b
    BY <1>1, <1>5
  <2> QED BY <1>1, <1>2, <1>3, <1>5, <2>1
<1> QED BY <1>4, <1>5

\* What the code computes of an array, in terms of the ring.
LEMMA RingOf ==
  ASSUME NEW n \in Nat \ {0}, NEW b \in Array(n), NEW i \in 0 .. n - 1
  PROVE  /\ b[i] \in Bucket /\ b[i].hash \in Nat /\ b[i].index \in Nat \cup {EMPTY}
         /\ DistanceFromIdeal(b, i) = Distance(n, b[i], i)
         /\ NextBucket(b, i) = Ahead(n, i, 1)
         /\ \A h \in Nat : /\ BucketForHash(b, h) = h % n /\ h % n \in 0 .. n - 1
                           /\ \A d \in 0 .. n : Probed(b, h, d) = Ahead(n, h % n, d)
<1>1. BucketCount(b) = n
  BY CountIs
<1>2. b[i] \in Bucket /\ b[i].hash \in Nat /\ b[i].index \in Nat \cup {EMPTY}
  BY DEF Array, Bucket
<1>3. DistanceFromIdeal(b, i) = Distance(n, b[i], i)
  BY <1>1 DEF DistanceFromIdeal, Distance, Gap, BucketForHash
<1>4. NextBucket(b, i) = Ahead(n, i, 1)
  BY <1>1, RingIs DEF NextBucket
<1>5. ASSUME NEW h \in Nat
      PROVE  /\ BucketForHash(b, h) = h % n /\ h % n \in 0 .. n - 1
             /\ \A d \in 0 .. n : Probed(b, h, d) = Ahead(n, h % n, d)
  <2>1. h % n \in 0 .. n - 1 /\ \A d \in 0 .. n : (h + d) % n = Ahead(n, h % n, d)
    BY ProbedIs
  <2> QED BY <1>1, <2>1 DEF BucketForHash, Probed
<1> QED BY <1>2, <1>3, <1>4, <1>5

\* Distances are less than the number of buckets.
LEMMA DistanceIn ==
  ASSUME NEW n \in Nat \ {0}, NEW e \in Bucket, NEW i \in 0 .. n - 1
  PROVE  Distance(n, e, i) \in 0 .. n - 1 /\ e.hash % n \in 0 .. n - 1
<1>1. e.hash \in Nat
  BY DEF Bucket
<1>2. e.hash % n \in 0 .. n - 1
  BY <1>1, ProbedIs
<1> QED BY <1>2, RingIs DEF Distance

\* Behind an entry that is away from its ideal, all the way back to it, the
\* buckets are taken, by entries hardly nearer to theirs.
LEMMA Chain ==
  ASSUME NEW n \in Nat \ {0}, NEW b \in Array(n), Robin(n, b),
         NEW i \in 0 .. n - 1, b[i].index # EMPTY
  PROVE  \A d \in 0 .. Distance(n, b[i], i) :
           LET j == Behind(n, i, d) IN
             j \in 0 .. n - 1 /\ b[j].index # EMPTY
             /\ Distance(n, b[j], j) >= Distance(n, b[i], i) - d
<1> DEFINE D == Distance(n, b[i], i)
           J(d) == Behind(n, i, d)
           T == {d \in 0 .. D : /\ J(d) \in 0 .. n - 1 /\ b[J(d)].index # EMPTY
                                /\ Distance(n, b[J(d)], J(d)) >= D - d}
<1>1. D \in 0 .. n - 1
  BY DistanceIn, RingOf
<1> HIDE DEF D
<1>2. 0 \in T
  <2>1. J(0) = i
    BY DEF Behind
  <2> QED BY <1>1, <2>1 DEF D
<1>3. ASSUME NEW d \in 1 .. D, d - 1 \in T PROVE d \in T
  <2> DEFINE j == J(d - 1)
  <2>1. j \in 0 .. n - 1 /\ b[j].index # EMPTY /\ Distance(n, b[j], j) >= D - (d - 1)
    BY <1>3
  <2>2. J(d) = Behind(n, j, 1) /\ J(d) \in 0 .. n - 1
    BY <1>1 DEF Behind
  <2>3. Distance(n, b[j], j) \in Int
    BY <2>1, DistanceIn, RingOf
  <2>4. Distance(n, b[J(d)], J(d)) \in Int
    BY <2>2, DistanceIn, RingOf
  <2> HIDE DEF j, J
  <2>5. b[J(d)].index # EMPTY /\ Distance(n, b[J(d)], J(d)) >= Distance(n, b[j], j) - 1
    BY <1>1, <2>1, <2>2, <2>3 DEF Robin
  <2> QED BY <1>1, <2>1, <2>2, <2>3, <2>4, <2>5
<1>4. 0 .. D \subseteq T
  <2> HIDE DEF T
  <2> QED BY <1>1, <1>2, <1>3, LoopInduction
<1> QED BY <1>4 DEF D

-----------------------------------------------------------------------------
(* Looking a key up                                                        *)

\* No key is held twice.
Distinct(values) ==
  \A v, w \in 1 .. Len(values) : values[v].key = values[w].key => v = w

\* What the buckets of these values hold.
File(values, v) == [index |-> v - 1, hash |-> Hash[values[v].key]]
Files(values) == {File(values, v) : v \in 1 .. Len(values)}

\* Array and values agree, and the array is in order.
Filed(n, b, values) ==
  /\ b \in Array(n) /\ values \in Seq(Entries) /\ Distinct(values)
  /\ Robin(n, b) /\ OneEach(n, b)
  /\ Contents(n, b) = Files(values)

\* The keys of values and their hashes.
LEMMA KeysOf ==
  ASSUME NEW values \in Seq(Entries)
  PROVE  \A v \in 1 .. Len(values) : values[v] \in Entries /\ values[v].key \in Keys
                                     /\ Hash[values[v].key] \in Nat
BY EntriesAssumption, HashAssumption

\* A bucket that is taken leads to its value, and each value has one.
LEMMA FiledAt ==
  ASSUME NEW n \in Nat, NEW b, NEW values, Filed(n, b, values)
  PROVE  /\ \A i \in 0 .. n - 1 : b[i].index # EMPTY =>
              /\ b[i].index + 1 \in 1 .. Len(values)
              /\ b[i].hash = Hash[values[b[i].index + 1].key]
         /\ \A v \in 1 .. Len(values) : \E i \in 0 .. n - 1 :
              b[i].index # EMPTY /\ b[i].index + 1 = v
              /\ b[i].hash = Hash[values[v].key]
<1>1. Contents(n, b) = Files(values) /\ Len(values) \in Nat
  BY DEF Filed
<1>2. ASSUME NEW i \in 0 .. n - 1, b[i].index # EMPTY
      PROVE  /\ b[i].index + 1 \in 1 .. Len(values)
             /\ b[i].hash = Hash[values[b[i].index + 1].key]
  <2>1. b[i] \in Files(values)
    BY <1>1, <1>2 DEF Contents
  <2>2. PICK v \in 1 .. Len(values) : b[i] = File(values, v)
    BY <2>1 DEF Files
  <2>3. b[i].index + 1 = v /\ b[i].hash = Hash[values[v].key]
    BY <2>2 DEF File
  <2> QED BY <2>3
<1>3. ASSUME NEW v \in 1 .. Len(values)
      PROVE  \E i \in 0 .. n - 1 : b[i].index # EMPTY /\ b[i].index + 1 = v
                                   /\ b[i].hash = Hash[values[v].key]
  <2>1. File(values, v) \in Contents(n, b)
    BY <1>1 DEF Files
  <2>2. PICK i \in 0 .. n - 1 : b[i].index # EMPTY /\ b[i] = File(values, v)
    BY <2>1 DEF Contents
  <2> QED BY <1>1, <2>2 DEF File
<1> QED BY <1>2, <1>3

\* The distances at which a probe for a key stops.
Stops(t, n, k) ==
  {d \in 0 .. n : LET i == Ahead(n, Hash[k] % n, d) IN
                    \/ t.buckets[i].index = EMPTY
                    \/ HoldsKey(t, i, k)
                    \/ d > Distance(n, t.buckets[i], i)}

\* A probe stops, and where it does the key is met or not held.
LEMMA ProbeStops ==
  ASSUME NEW n \in Nat \ {0}, NEW t, t.buckets \in Array(n), NEW k \in Keys
  PROVE  LET d == Min(Stops(t, n, k))
             i == Ahead(n, Hash[k] % n, d)
         IN  /\ d \in Stops(t, n, k) /\ d \in 0 .. n /\ i \in 0 .. n - 1
             /\ \A e \in Stops(t, n, k) : d <= e
             /\ FindKey(t, k) = IF t.buckets[i].index # EMPTY /\ HoldsKey(t, i, k)
                                THEN i ELSE NoBucket
             /\ InsertDistance(t, k) = d
             /\ MetAt(t, k, d) <=> /\ t.buckets[i].index # EMPTY /\ HoldsKey(t, i, k)
                                   /\ d <= Distance(n, t.buckets[i], i)
<1> DEFINE b == t.buckets
           a == Hash[k] % n
           At(d) == Ahead(n, a, d)
           S == Stops(t, n, k)
           d == Min(S)
<1>1. Hash[k] \in Nat /\ a \in 0 .. n - 1
  BY HashAssumption, ProbedIs
<1>2. /\ BucketCount(b) = n /\ b # <<>>
      /\ \A e \in 0 .. n : Probed(b, Hash[k], e) = At(e) /\ At(e) \in 0 .. n - 1
  <2>1. BucketCount(b) = n /\ b # <<>>
    BY CountIs
  <2>2. \A e \in 0 .. n : Probed(b, Hash[k], e) = At(e)
    <3>1. 0 \in 0 .. n - 1
      OBVIOUS
    <3> QED BY <1>1, <3>1, RingOf
  <2>3. \A e \in 0 .. n : At(e) \in 0 .. n - 1
    BY <1>1, RingIs
  <2> QED BY <2>1, <2>2, <2>3
<1> HIDE DEF a
<1>3. \A i \in 0 .. n - 1 : /\ DistanceFromIdeal(b, i) = Distance(n, b[i], i)
                            /\ Distance(n, b[i], i) \in 0 .. n - 1
  BY RingOf, DistanceIn
<1>4. S = {e \in 0 .. n : LET i == Probed(b, Hash[k], e) IN
                            \/ IsEmpty(b, i) \/ HoldsKey(t, i, k) \/ e > DistanceFromIdeal(b, i)}
  <2>1. S = {e \in 0 .. n : \/ b[At(e)].index = EMPTY
                            \/ HoldsKey(t, At(e), k)
                            \/ e > Distance(n, b[At(e)], At(e))}
    BY DEF Stops, a
  <2>2. \A e \in 0 .. n : /\ IsEmpty(b, Probed(b, Hash[k], e)) <=> b[At(e)].index = EMPTY
                          /\ HoldsKey(t, Probed(b, Hash[k], e), k) <=> HoldsKey(t, At(e), k)
                          /\ DistanceFromIdeal(b, Probed(b, Hash[k], e)) = Distance(n, b[At(e)], At(e))
    BY <1>2, <1>3 DEF IsEmpty
  <2> HIDE DEF S, b
  <2> QED BY <2>1, <2>2
<1>5. S = {e \in 0 .. n : LET i == Probed(b, Hash[k], e) IN
                            \/ IsEmpty(b, i) \/ e > DistanceFromIdeal(b, i) \/ HoldsKey(t, i, k)}
  BY <1>4
<1>6. n \in S
  <2>1. At(n) \in 0 .. n - 1
    BY <1>2
  <2>2. n > Distance(n, b[At(n)], At(n))
    BY <1>3, <2>1
  <2> QED BY <2>2 DEF Stops, a
<1>7. S \subseteq 0 .. n
  BY DEF Stops
<1> HIDE DEF S
<1>8. d \in S /\ \A e \in S : d <= e
  <2>1. S \subseteq Nat /\ S # {}
    BY <1>6, <1>7
  <2> QED BY <2>1, MinIs
<1> HIDE DEF d
<1>9. d \in 0 .. n
  BY <1>7, <1>8
<1> DEFINE i == At(d)
<1>10. i \in 0 .. n - 1 /\ Probed(b, Hash[k], d) = i
  BY <1>2, <1>9
<1>11. FindKey(t, k) = IF b[i].index # EMPTY /\ HoldsKey(t, i, k) THEN i ELSE NoBucket
  BY <1>2, <1>4, <1>10 DEF FindKey, IsEmpty, d
<1>12. InsertDistance(t, k) = d
  BY <1>2, <1>5 DEF InsertDistance, d
<1>13. MetAt(t, k, d) <=> b[i].index # EMPTY /\ HoldsKey(t, i, k) /\ d <= Distance(n, b[i], i)
  BY <1>2, <1>3, <1>10 DEF MetAt, IsEmpty
<1> QED BY <1>8, <1>9, <1>10, <1>11, <1>12, <1>13 DEF d, S, a

\* A key that is held is met, in the bucket of its value.
LEMMA HeldIsMet ==
  ASSUME NEW n \in Nat \ {0}, NEW t, Filed(n, t.buckets, t.values), NEW k \in Keys,
         NEW v \in 1 .. Len(t.values), t.values[v].key = k
  PROVE  /\ FindKey(t, k) \in 0 .. n - 1 /\ t.buckets[FindKey(t, k)].index = v - 1
         /\ MetAt(t, k, InsertDistance(t, k))
<1> DEFINE b == t.buckets
           a == Hash[k] % n
           At(d) == Ahead(n, a, d)
           D == Min(Stops(t, n, k))
<1>1. /\ b \in Array(n) /\ Robin(n, b) /\ OneEach(n, b) /\ Distinct(t.values)
      /\ Len(t.values) \in Nat
  BY DEF Filed
<1>2. Hash[k] \in Nat /\ a \in 0 .. n - 1
  BY HashAssumption, ProbedIs
<1>3. PICK i \in 0 .. n - 1 : b[i].index # EMPTY /\ b[i].index + 1 = v /\ b[i].hash = Hash[k]
  BY FiledAt
<1>4. b[i].index = v - 1 /\ b[i] \in Bucket
  <2>1. b[i] \in Bucket /\ b[i].index \in Nat \cup {EMPTY}
    BY <1>1, RingOf
  <2> QED BY <1>3, <2>1 DEF EMPTY
<1> DEFINE c == Distance(n, b[i], i)
<1>5. c = Gap(n, a, i) /\ c \in 0 .. n - 1
  BY <1>3, <1>4, DistanceIn DEF Distance
<1>6. HoldsKey(t, i, k)
  BY <1>3 DEF HoldsKey
<1> HIDE DEF a, c
<1>7. At(c) = i
  <2>1. Ahead(n, a, Gap(n, a, i)) = i
    BY <1>2, Around
  <2> QED BY <1>5, <2>1
<1>8. c \in Stops(t, n, k)
  BY <1>3, <1>5, <1>6, <1>7 DEF Stops, a
<1>9. ASSUME NEW d \in 0 .. c - 1 PROVE d \notin Stops(t, n, k)
  <2> DEFINE j == At(d)
  <2>1. j = Behind(n, i, c - d) /\ c - d \in 0 .. c
    <3>1. c - d \in 0 .. c /\ c - (c - d) = d
      BY <1>5
    <3>2. \A e \in 0 .. Gap(n, a, i) : Behind(n, i, e) = Ahead(n, a, Gap(n, a, i) - e)
      BY <1>2, Around
    <3>3. Behind(n, i, c - d) = Ahead(n, a, c - (c - d))
      BY <1>5, <3>1, <3>2
    <3> QED BY <3>1, <3>3
  <2>2. j \in 0 .. n - 1 /\ b[j].index # EMPTY /\ Distance(n, b[j], j) >= c - (c - d)
    BY <1>1, <1>3, <2>1, Chain DEF c
  <2>3. Distance(n, b[j], j) \in 0 .. n - 1
    BY <1>1, <2>2, RingOf, DistanceIn
  <2>4. ~ (d > Distance(n, b[j], j))
    BY <1>5, <2>2, <2>3
  <2>5. ~ HoldsKey(t, j, k)
    <3>1. SUFFICES ASSUME HoldsKey(t, j, k) PROVE FALSE
      OBVIOUS
    <3>2. b[j].index + 1 \in 1 .. Len(t.values) /\ t.values[b[j].index + 1].key = k
      BY <2>2, <3>1, FiledAt DEF HoldsKey
    <3>3. b[j].index + 1 = v
      BY <1>1, <3>2 DEF Distinct
    <3>4. b[j].index \in Nat \cup {EMPTY}
      BY <1>1, <2>2, RingOf
    <3>5. b[i].index = b[j].index
      BY <1>4, <3>3, <3>4 DEF EMPTY
    <3>6. i = j
      BY <1>1, <1>3, <2>2, <3>5 DEF OneEach
    <3>7. Gap(n, a, Ahead(n, a, d)) = d
      <4>1. d \in 0 .. n - 1
        BY <1>5
      <4> QED BY <1>2, <4>1 DEF Gap, Ahead
    <3> QED BY <1>5, <3>6, <3>7
  <2> HIDE DEF j
  <2> QED BY <2>2, <2>4, <2>5 DEF Stops, j, a
<1>10. D = c
  <2>1. D \in Stops(t, n, k) /\ D \in 0 .. n /\ \A e \in Stops(t, n, k) : D <= e
    BY <1>1, ProbeStops
  <2> HIDE DEF D
  <2>2. D <= c /\ ~ (D \in 0 .. c - 1)
    BY <1>8, <1>9, <2>1
  <2> QED BY <1>5, <2>1, <2>2
<1>11. FindKey(t, k) = i
  BY <1>1, <1>3, <1>6, <1>7, <1>10, ProbeStops DEF a
<1>12. MetAt(t, k, InsertDistance(t, k))
  <2>1. c <= Distance(n, b[i], i)
    BY <1>5 DEF c
  <2> QED BY <1>1, <1>3, <1>6, <1>7, <1>10, <2>1, ProbeStops DEF a
<1> QED BY <1>4, <1>11, <1>12

\* A key that is not held is not found, and the probe stops where it may go.
LEMMA UnheldIsNotMet ==
  ASSUME NEW n \in Nat \ {0}, NEW t, Filed(n, t.buckets, t.values), NEW k \in Keys,
         \A v \in 1 .. Len(t.values) : t.values[v].key # k
  PROVE  LET b == t.buckets
             d == InsertDistance(t, k)
             At(e) == Ahead(n, Hash[k] % n, e)
         IN  /\ FindKey(t, k) = NoBucket
             /\ ~ MetAt(t, k, d)
             /\ d \in 0 .. n
             /\ b[At(d)].index = EMPTY \/ d > Distance(n, b[At(d)], At(d))
             /\ \A e \in 0 .. d - 1 : /\ b[At(e)].index # EMPTY
                                      /\ e <= Distance(n, b[At(e)], At(e))
<1> DEFINE b == t.buckets
           d == Min(Stops(t, n, k))
           At(e) == Ahead(n, Hash[k] % n, e)
<1>1. b \in Array(n)
  BY DEF Filed
<1>2. /\ d \in Stops(t, n, k) /\ d \in 0 .. n /\ At(d) \in 0 .. n - 1
      /\ \A e \in Stops(t, n, k) : d <= e
      /\ FindKey(t, k) = IF b[At(d)].index # EMPTY /\ HoldsKey(t, At(d), k) THEN At(d) ELSE NoBucket
      /\ InsertDistance(t, k) = d
      /\ MetAt(t, k, d) <=> /\ b[At(d)].index # EMPTY /\ HoldsKey(t, At(d), k)
                            /\ d <= Distance(n, b[At(d)], At(d))
  BY <1>1, ProbeStops
<1> HIDE DEF d
<1>3. ASSUME NEW i \in 0 .. n - 1, b[i].index # EMPTY PROVE ~ HoldsKey(t, i, k)
  BY <1>3, FiledAt DEF HoldsKey
<1>4. b[At(d)].index = EMPTY \/ d > Distance(n, b[At(d)], At(d))
  BY <1>2, <1>3 DEF Stops
<1>5. ASSUME NEW e \in 0 .. d - 1
      PROVE  b[At(e)].index # EMPTY /\ e <= Distance(n, b[At(e)], At(e))
  <2>1. e \notin Stops(t, n, k) /\ e \in 0 .. n
    BY <1>2
  <2>2. Hash[k] \in Nat /\ Hash[k] % n \in 0 .. n - 1
    BY HashAssumption, ProbedIs
  <2>3. At(e) \in 0 .. n - 1
    BY <2>1, <2>2, RingIs
  <2>4. Distance(n, b[At(e)], At(e)) \in Int
    <3> HIDE DEF At
    <3>1. b[At(e)] \in Bucket
      BY <1>1, <2>3, RingOf
    <3> QED BY <2>3, <3>1, DistanceIn
  <2> QED BY <2>1, <2>4 DEF Stops
<1> QED BY <1>2, <1>3, <1>4, <1>5

-----------------------------------------------------------------------------
(* The walk that puts an entry in                                          *)

\* The bucket behind i leaves room for an entry at distance d in bucket i.
Follows(n, b, i, d) ==
  d > 0 => /\ b[Behind(n, i, 1)].index # EMPTY
           /\ Distance(n, b[Behind(n, i, 1)], Behind(n, i, 1)) >= d - 1

\* No bucket leads to this index.
Unused(n, b, index) == \A j \in 0 .. n - 1 : b[j].index # index

\* An entry put in a bucket that is empty, or taken by a richer one, keeps
\* the order.
LEMMA PutRobin ==
  ASSUME NEW n \in Nat \ {0}, NEW b \in Array(n), Robin(n, b),
         NEW i \in 0 .. n - 1, NEW e \in Bucket, e.index # EMPTY,
         Follows(n, b, i, Distance(n, e, i)),
         b[i].index = EMPTY \/ Distance(n, b[i], i) <= Distance(n, e, i)
  PROVE  [b EXCEPT ![i] = e] \in Array(n) /\ Robin(n, [b EXCEPT ![i] = e])
<1> DEFINE c == [b EXCEPT ![i] = e]
<1>1. c \in Array(n) /\ c[i] = e /\ \A j \in 0 .. n - 1 : j # i => c[j] = b[j]
  BY DEF Array
<1> HIDE DEF c
<1>2. ASSUME NEW j \in 0 .. n - 1, c[j].index # EMPTY, Distance(n, c[j], j) > 0
      PROVE  /\ c[Behind(n, j, 1)].index # EMPTY
             /\ Distance(n, c[Behind(n, j, 1)], Behind(n, j, 1)) >= Distance(n, c[j], j) - 1
  <2> DEFINE p == Behind(n, j, 1)
  <2>1. p \in 0 .. n - 1 /\ (n > 1 => p # j)
    BY DEF Behind
  <2>2. n > 1
    <3>1. Distance(n, c[j], j) \in 0 .. n - 1
      BY <1>1, RingOf, DistanceIn
    <3> QED BY <1>2, <3>1
  <2>3. Distance(n, e, i) \in 0 .. n - 1 /\ Distance(n, b[p], p) \in 0 .. n - 1
        /\ Distance(n, b[j], j) \in 0 .. n - 1
    BY <2>1, RingOf, DistanceIn
  <2> HIDE DEF p
  <2>4. CASE j = i
    <3>1. c[p] = b[p] /\ c[j] = e
      BY <1>1, <2>1, <2>2, <2>4
    <3> QED BY <1>2, <2>4, <3>1 DEF Follows, p
  <2>5. CASE j # i /\ p = i
    <3>1. c[p] = e /\ c[j] = b[j]
      BY <1>1, <2>5
    <3>2. b[p].index # EMPTY /\ Distance(n, b[p], p) >= Distance(n, b[j], j) - 1
      BY <1>2, <3>1 DEF Robin, p
    <3>3. Distance(n, e, p) >= Distance(n, b[j], j) - 1
      BY <2>3, <2>5, <3>2
    <3> QED BY <3>1, <3>3 DEF p
  <2>6. CASE j # i /\ p # i
    <3>1. c[p] = b[p] /\ c[j] = b[j]
      BY <1>1, <2>1, <2>6
    <3> QED BY <1>2, <3>1 DEF Robin, p
  <2> QED BY <2>4, <2>5, <2>6
<1> QED BY <1>1, <1>2 DEF Robin, c

\* What the array then holds.
LEMMA PutContents ==
  ASSUME NEW n \in Nat \ {0}, NEW b \in Array(n), OneEach(n, b),
         NEW i \in 0 .. n - 1, NEW e \in Bucket, e.index # EMPTY, Unused(n, b, e.index)
  PROVE  LET c == [b EXCEPT ![i] = e] IN
         /\ OneEach(n, c)
         /\ b[i].index = EMPTY => Contents(n, c) = Contents(n, b) \cup {e}
         /\ b[i].index # EMPTY => /\ Contents(n, c) \cup {b[i]} = Contents(n, b) \cup {e}
                                  /\ Unused(n, c, b[i].index)
<1> DEFINE c == [b EXCEPT ![i] = e]
<1>1. c \in Array(n) /\ c[i] = e /\ \A j \in 0 .. n - 1 : j # i => c[j] = b[j]
  BY DEF Array
<1> HIDE DEF c
<1>2. OneEach(n, c)
  BY <1>1 DEF OneEach, Unused
<1>3. ASSUME b[i].index = EMPTY PROVE Contents(n, c) = Contents(n, b) \cup {e}
  <2>1. ASSUME NEW x \in Contents(n, c) PROVE x \in Contents(n, b) \cup {e}
    <3>1. PICK j \in 0 .. n - 1 : c[j].index # EMPTY /\ x = c[j]
      BY <2>1 DEF Contents
    <3> QED BY <1>1, <3>1 DEF Contents
  <2>2. ASSUME NEW x \in Contents(n, b) PROVE x \in Contents(n, c)
    <3>1. PICK j \in 0 .. n - 1 : b[j].index # EMPTY /\ x = b[j]
      BY <2>2 DEF Contents
    <3>2. j # i
      BY <1>3, <3>1
    <3> QED BY <1>1, <3>1, <3>2 DEF Contents
  <2>3. e \in Contents(n, c)
    BY <1>1 DEF Contents
  <2> QED BY <2>1, <2>2, <2>3
<1>4. ASSUME b[i].index # EMPTY
      PROVE  /\ Contents(n, c) \cup {b[i]} = Contents(n, b) \cup {e}
             /\ Unused(n, c, b[i].index)
  <2>1. ASSUME NEW x \in Contents(n, c) PROVE x \in Contents(n, b) \cup {e}
    <3>1. PICK j \in 0 .. n - 1 : c[j].index # EMPTY /\ x = c[j]
      BY <2>1 DEF Contents
    <3> QED BY <1>1, <3>1 DEF Contents
  <2>2. ASSUME NEW x \in Contents(n, b) PROVE x \in Contents(n, c) \cup {b[i]}
    <3>1. PICK j \in 0 .. n - 1 : b[j].index # EMPTY /\ x = b[j]
      BY <2>2 DEF Contents
    <3> QED BY <1>1, <3>1 DEF Contents
  <2>3. e \in Contents(n, c) /\ b[i] \in Contents(n, b)
    BY <1>1, <1>4 DEF Contents
  <2>4. Unused(n, c, b[i].index)
    BY <1>1, <1>4 DEF Unused, OneEach
  <2> QED BY <2>1, <2>2, <2>3, <2>4
<1> QED BY <1>2, <1>3, <1>4 DEF c

\* The states of a walk in n buckets.
Walks(n) == [buckets : Array(n), at : 0 .. n - 1, distance : Nat, entry : Bucket,
             probes : Nat, placed : BOOLEAN]

\* After r rounds of a walk from bucket i of b with entry e: either e is in, or
\* an entry that is not in is carried past buckets that are all taken.
Walking(n, b, i, e, r, w) ==
  /\ w \in Walks(n)
  /\ Robin(n, w.buckets) /\ OneEach(n, w.buckets)
  /\ w.placed => Contents(n, w.buckets) = Contents(n, b) \cup {e}
  /\ ~ w.placed =>
       /\ w.entry.index # EMPTY
       /\ Unused(n, w.buckets, w.entry.index)
       /\ Contents(n, w.buckets) \cup {w.entry} = Contents(n, b) \cup {e}
       /\ w.at = Ahead(n, i, r)
       /\ \A x \in 0 .. r - 1 : w.buckets[Ahead(n, i, x)].index # EMPTY
       /\ \A j \in 0 .. n - 1 : w.buckets[j].index = EMPTY <=> b[j].index = EMPTY
       /\ w.distance = Distance(n, w.entry, w.at)
       /\ Follows(n, w.buckets, w.at, w.distance)

\* A round leaves such a state.
LEMMA WalkTypes ==
  ASSUME NEW n \in Nat \ {0}, NEW w \in Walks(n)
  PROVE  Carried(w) \in Walks(n)
<1> DEFINE own == DistanceFromIdeal(w.buckets, w.at)
           poorer == w.distance > own
           next == 1 + (IF poorer THEN own ELSE w.distance)
<1>1. /\ w.buckets \in Array(n) /\ w.at \in 0 .. n - 1 /\ w.distance \in Nat
      /\ w.entry \in Bucket /\ w.probes \in Nat /\ w.placed \in BOOLEAN
  BY DEF Walks
<1>2. own \in 0 .. n - 1 /\ w.buckets[w.at] \in Bucket
  BY <1>1, RingOf, DistanceIn
<1>3. [w.buckets EXCEPT ![w.at] = w.entry] \in Array(n)
  BY <1>1 DEF Array
<1>4. NextBucket(w.buckets, w.at) \in 0 .. n - 1
  <2>1. NextBucket(w.buckets, w.at) = Ahead(n, w.at, 1)
    BY <1>1, RingOf
  <2> QED BY <1>1, <2>1 DEF Ahead
<1> HIDE DEF own
<1>5. next \in Nat
  BY <1>1, <1>2
<1>6. CASE w.placed
  BY <1>6 DEF Carried
<1>7. CASE ~ w.placed /\ IsEmpty(w.buckets, w.at)
  <2>1. Carried(w) = [w EXCEPT !.buckets[w.at] = w.entry, !.placed = TRUE]
    BY <1>7 DEF Carried
  <2> QED BY <1>3, <2>1 DEF Walks
<1>8. CASE ~ w.placed /\ ~ IsEmpty(w.buckets, w.at)
  <2>1. Carried(w) =
          [buckets |-> IF poorer THEN [w.buckets EXCEPT ![w.at] = w.entry] ELSE w.buckets,
           at |-> NextBucket(w.buckets, w.at), distance |-> next,
           entry |-> IF poorer THEN w.buckets[w.at] ELSE w.entry,
           probes |-> Max({w.probes, next}), placed |-> FALSE]
    BY <1>8 DEF Carried, own
  <2>2. Max({w.probes, next}) \in Nat
    <3> HIDE DEF next
    <3> QED BY <1>1, <1>5, MaxIs
  <2> HIDE DEF next, poorer
  <2> QED BY <1>1, <1>2, <1>3, <1>4, <1>5, <2>1, <2>2 DEF Walks
<1> QED BY <1>6, <1>7, <1>8

\* Where there is an empty bucket no taken one is as far as can be.
LEMMA NeverRound ==
  ASSUME NEW n \in Nat \ {0}, NEW b \in Array(n), Robin(n, b),
         NEW i \in 0 .. n - 1, b[i].index # EMPTY,
         NEW j \in 0 .. n - 1, b[j].index = EMPTY
  PROVE  Distance(n, b[i], i) < n - 1
<1>1. Distance(n, b[i], i) \in 0 .. n - 1
  BY RingOf, DistanceIn
<1> SUFFICES ASSUME Distance(n, b[i], i) = n - 1 PROVE FALSE
  BY <1>1
<1>2. Gap(n, j, i) \in 0 .. n - 1 /\ Behind(n, i, Gap(n, j, i)) = j
  BY DEF Gap, Behind
<1>3. b[Behind(n, i, Gap(n, j, i))].index # EMPTY
  BY <1>2, Chain
<1> QED BY <1>2, <1>3

\* The round keeps the walk.
LEMMA WalkStep ==
  ASSUME NEW n \in Nat \ {0}, NEW b \in Array(n), NEW i \in 0 .. n - 1, NEW e \in Bucket,
         \E j \in 0 .. n - 1 : b[j].index = EMPTY,
         NEW r \in 0 .. n - 1, NEW w, Walking(n, b, i, e, r, w)
  PROVE  Walking(n, b, i, e, r + 1, Carried(w))
<1> DEFINE c == w.buckets
           at == w.at
           own == Distance(n, c[at], at)
           v == Carried(w)
<1> SUFFICES Walking(n, b, i, e, r + 1, v)
  OBVIOUS
<1>1. w \in Walks(n) /\ v \in Walks(n)
  BY WalkTypes DEF Walking
<1>2. /\ c \in Array(n) /\ at \in 0 .. n - 1 /\ w.distance \in Nat
      /\ w.entry \in Bucket /\ w.probes \in Nat /\ w.placed \in BOOLEAN
      /\ Robin(n, c) /\ OneEach(n, c)
  BY <1>1 DEF Walks, Walking
<1>3. /\ c[at] \in Bucket /\ DistanceFromIdeal(c, at) = own /\ own \in 0 .. n - 1
      /\ NextBucket(c, at) = Ahead(n, at, 1)
  BY <1>2, RingOf, DistanceIn
<1>4. CASE w.placed
  <2>1. v = w
    BY <1>4 DEF Carried
  <2> QED BY <1>4, <2>1 DEF Walking
<1>5. ASSUME ~ w.placed
      PROVE  /\ w.entry.index # EMPTY
             /\ Unused(n, c, w.entry.index)
             /\ Contents(n, c) \cup {w.entry} = Contents(n, b) \cup {e}
             /\ at = Ahead(n, i, r)
             /\ \A x \in 0 .. r - 1 : c[Ahead(n, i, x)].index # EMPTY
             /\ \A j \in 0 .. n - 1 : c[j].index = EMPTY <=> b[j].index = EMPTY
             /\ w.distance = Distance(n, w.entry, at)
             /\ Follows(n, c, at, w.distance)
  BY <1>5 DEF Walking
<1>6. CASE ~ w.placed /\ c[at].index = EMPTY
  <2>1. v = [w EXCEPT !.buckets[w.at] = w.entry, !.placed = TRUE]
    BY <1>6 DEF Carried, IsEmpty
  <2>2. v.placed /\ v.buckets = [c EXCEPT ![at] = w.entry]
    BY <1>1, <2>1 DEF Walks
  <2>3. Robin(n, v.buckets)
    BY <1>2, <1>5, <1>6, <2>2, PutRobin
  <2>4. OneEach(n, v.buckets) /\ Contents(n, v.buckets) = Contents(n, c) \cup {w.entry}
    BY <1>2, <1>5, <1>6, <2>2, PutContents
  <2> HIDE DEF v
  <2> QED BY <1>1, <1>5, <1>6, <2>2, <2>3, <2>4 DEF Walking
<1>7. CASE ~ w.placed /\ c[at].index # EMPTY
  <2> DEFINE poorer == w.distance > own
             next == 1 + (IF poorer THEN own ELSE w.distance)
  <2>1. v = [buckets |-> IF poorer THEN [c EXCEPT ![at] = w.entry] ELSE c,
             at |-> NextBucket(c, at), distance |-> next,
             entry |-> IF poorer THEN c[at] ELSE w.entry,
             probes |-> Max({w.probes, next}), placed |-> FALSE]
    BY <1>3, <1>7 DEF Carried, IsEmpty
  <2>2. ~ v.placed /\ v.at = Ahead(n, at, 1) /\ v.distance = next
    BY <1>3, <2>1
  <2>3. v.at = Ahead(n, i, r + 1) /\ v.at \in 0 .. n - 1 /\ Behind(n, v.at, 1) = at
    BY <1>2, <1>5, <1>7, <2>2 DEF Ahead, Behind
  <2>4. PICK hole \in 0 .. n - 1 : c[hole].index = EMPTY
    BY <1>5, <1>7
  <2>5. own < n - 1
    BY <1>2, <1>7, <2>4, NeverRound
  <2>6. ASSUME NEW f \in Bucket, NEW d \in 0 .. n - 2, d = Distance(n, f, at)
        PROVE  Distance(n, f, v.at) = d + 1
    <3>1. f.hash % n \in 0 .. n - 1
      BY DistanceIn
    <3> QED BY <1>2, <2>2, <2>6, <3>1 DEF Distance, Gap, Ahead
  <2>7. CASE poorer
    <3>1. v.buckets = [c EXCEPT ![at] = w.entry] /\ v.entry = c[at] /\ v.distance = own + 1
      BY <1>3, <2>1, <2>2, <2>7
    <3>2. v.buckets[at] = w.entry /\ \A j \in 0 .. n - 1 : j # at => v.buckets[j] = c[j]
      BY <1>2, <3>1 DEF Array
    <3>3. Robin(n, v.buckets)
      BY <1>2, <1>3, <1>5, <1>7, <2>7, <3>1, PutRobin
    <3>4. /\ OneEach(n, v.buckets)
          /\ Contents(n, v.buckets) \cup {v.entry} = Contents(n, c) \cup {w.entry}
          /\ Unused(n, v.buckets, v.entry.index)
      BY <1>2, <1>5, <1>7, <3>1, PutContents
    <3>5. v.distance = Distance(n, v.entry, v.at)
      BY <1>3, <2>5, <2>6, <3>1
    <3>6. Follows(n, v.buckets, v.at, v.distance)
      BY <1>2, <1>3, <1>5, <1>7, <2>3, <2>7, <3>1, <3>2 DEF Follows
    <3>7. \A j \in 0 .. n - 1 : v.buckets[j].index = EMPTY <=> b[j].index = EMPTY
      BY <1>5, <1>7, <3>2
    <3>8. \A x \in 0 .. r : v.buckets[Ahead(n, i, x)].index # EMPTY
      <4>1. \A x \in 0 .. r : Ahead(n, i, x) \in 0 .. n - 1
        BY DEF Ahead
      <4>2. \A x \in 0 .. r : x = r \/ x \in 0 .. r - 1
        OBVIOUS
      <4> HIDE DEF v, c, at
      <4> QED BY <1>5, <1>7, <3>2, <4>1, <4>2
    <3>9. v.entry.index # EMPTY
      BY <1>7, <3>1
    <3> HIDE DEF v
    <3> QED BY <1>1, <1>5, <1>7, <2>2, <2>3, <3>3, <3>4, <3>5, <3>6, <3>7, <3>8, <3>9 DEF Walking
  <2>8. CASE ~ poorer
    <3>1. v.buckets = c /\ v.entry = w.entry /\ v.distance = w.distance + 1
      BY <1>2, <2>1, <2>2, <2>8
    <3>2. w.distance \in 0 .. n - 2
      BY <1>2, <1>3, <2>5, <2>8
    <3>3. v.distance = Distance(n, v.entry, v.at)
      BY <1>2, <1>5, <1>7, <2>6, <3>1, <3>2
    <3>4. Follows(n, v.buckets, v.at, v.distance)
      BY <1>2, <1>3, <1>7, <2>3, <2>8, <3>1 DEF Follows
    <3>5. \A x \in 0 .. r : v.buckets[Ahead(n, i, x)].index # EMPTY
      <4>1. \A x \in 0 .. r : x = r \/ x \in 0 .. r - 1
        OBVIOUS
      <4> HIDE DEF v, c, at
      <4> QED BY <1>5, <1>7, <3>1, <4>1
    <3> HIDE DEF v
    <3> QED BY <1>1, <1>2, <1>5, <1>7, <2>2, <2>3, <3>1, <3>3, <3>4, <3>5 DEF Walking
  <2> QED BY <2>7, <2>8
<1> QED BY <1>2, <1>4, <1>6, <1>7

\* The walk puts the entry in and keeps the order.
LEMMA PlacedIs ==
  ASSUME NEW n \in Nat \ {0}, NEW b \in Array(n), Robin(n, b), OneEach(n, b),
         NEW i \in 0 .. n - 1, NEW e \in Bucket, e.index # EMPTY, Unused(n, b, e.index),
         Follows(n, b, i, Distance(n, e, i)),
         \E j \in 0 .. n - 1 : b[j].index = EMPTY
  PROVE  LET c == Placed(b, i, Distance(n, e, i), e).buckets IN
         /\ c \in Array(n) /\ Robin(n, c) /\ OneEach(n, c)
         /\ Contents(n, c) = Contents(n, b) \cup {e}
<1> DEFINE d == Distance(n, e, i)
           start == [buckets |-> b, at |-> i, distance |-> d, entry |-> e,
                     probes |-> 0, placed |-> FALSE]
           round == [x \in Walks(n) \X (1 .. n) |-> Carried(x[1])]
<1>1. d \in 0 .. n - 1
  BY DistanceIn
<1>2. start \in Walks(n)
  BY <1>1 DEF Walks
<1>3. Rounds(round, n, Walks(n))
  <2>1. ASSUME NEW x \in Walks(n) \X (1 .. n) PROVE Carried(x[1]) \in Walks(n)
    BY WalkTypes
  <2> QED BY <2>1 DEF Rounds
<1> HIDE DEF d
<1>4. PICK f : RunOf(f, start, round, n, Walks(n))
  <2> HIDE DEF round, start
  <2> QED BY <1>2, <1>3, LoopRuns
<1>5. f = [r \in 0 .. n |-> IF r = 0 THEN start ELSE Carried(f[r - 1])]
  <2>1. f \in [0 .. n -> Walks(n)]
    BY <1>4 DEF RunOf
  <2>2. ASSUME NEW r \in 0 .. n PROVE f[r] = IF r = 0 THEN start ELSE Carried(f[r - 1])
    <3>1. CASE r = 0
      BY <1>4, <3>1 DEF RunOf
    <3>2. CASE r # 0
      <4>1. <<f[r - 1], r>> \in Walks(n) \X (1 .. n)
        BY <2>1, <3>2
      <4>2. round[<<f[r - 1], r>>] = Carried(f[r - 1])
        BY <4>1
      <4> QED BY <1>4, <3>2, <4>2 DEF RunOf
    <3> QED BY <3>1, <3>2
  <2> QED BY <2>1, <2>2
<1> DEFINE walk == CHOOSE g : g = [r \in 0 .. n |-> IF r = 0 THEN start ELSE Carried(g[r - 1])]
<1>6. walk = [r \in 0 .. n |-> IF r = 0 THEN start ELSE Carried(walk[r - 1])]
  <2> HIDE DEF start
  <2> QED BY <1>5
<1>7. Placed(b, i, d, e) = walk[n]
  BY CountIs DEF Placed
<1> HIDE DEF walk
<1> DEFINE T == {r \in 0 .. n : Walking(n, b, i, e, r, walk[r])}
<1>8. 0 \in T
  <2>1. walk[0] = start
    <3> HIDE DEF start
    <3> QED BY <1>6
  <2>2. i = Ahead(n, i, 0)
    BY DEF Ahead
  <2>3. Walking(n, b, i, e, 0, start)
    BY <1>2, <2>2 DEF Walking, d
  <2> QED BY <2>1, <2>3
<1>9. ASSUME NEW r \in 1 .. n, r - 1 \in T PROVE r \in T
  <2>1. walk[r] = Carried(walk[r - 1])
    <3> HIDE DEF start
    <3> QED BY <1>6
  <2>2. Walking(n, b, i, e, (r - 1) + 1, Carried(walk[r - 1]))
    <3>1. r - 1 \in 0 .. n - 1 /\ Walking(n, b, i, e, r - 1, walk[r - 1])
      BY <1>9
    <3> QED BY <3>1, WalkStep
  <2>3. (r - 1) + 1 = r
    OBVIOUS
  <2> QED BY <2>1, <2>2, <2>3
<1>10. Walking(n, b, i, e, n, walk[n])
  <2>1. 0 .. n \subseteq T
    <3> HIDE DEF T
    <3> QED BY <1>8, <1>9, LoopInduction
  <2> QED BY <2>1
<1>11. walk[n].placed
  <2> SUFFICES ASSUME ~ walk[n].placed PROVE FALSE
    OBVIOUS
  <2> DEFINE c == walk[n].buckets
  <2>1. PICK j \in 0 .. n - 1 : b[j].index = EMPTY
    OBVIOUS
  <2>2. c[j].index = EMPTY /\ \A x \in 0 .. n - 1 : c[Ahead(n, i, x)].index # EMPTY
    BY <1>10, <2>1 DEF Walking
  <2>3. Gap(n, i, j) \in 0 .. n - 1 /\ Ahead(n, i, Gap(n, i, j)) = j
    BY DEF Gap, Ahead
  <2> QED BY <2>2, <2>3
<1> QED BY <1>7, <1>10, <1>11 DEF Walking, Walks, d

\* An entry that may start its walk in bucket i, ...
Fits(n, b, i, e) ==
  /\ b \in Array(n) /\ Robin(n, b) /\ OneEach(n, b)
  /\ i \in 0 .. n - 1 /\ e \in Bucket /\ e.index # EMPTY /\ Unused(n, b, e.index)
  /\ Follows(n, b, i, Distance(n, e, i))
  /\ \E j \in 0 .. n - 1 : b[j].index = EMPTY

\* ... and the array that has it too.
PutIn(n, b, e, c) ==
  /\ c \in Array(n) /\ Robin(n, c) /\ OneEach(n, c)
  /\ Contents(n, c) = Contents(n, b) \cup {e}

\* The same in these words.
LEMMA PlacedPutsIn ==
  ASSUME NEW n \in Nat \ {0}, NEW b, NEW i, NEW e, Fits(n, b, i, e)
  PROVE  PutIn(n, b, e, Placed(b, i, Distance(n, e, i), e).buckets)
<1>1. /\ b \in Array(n) /\ Robin(n, b) /\ OneEach(n, b)
      /\ i \in 0 .. n - 1 /\ e \in Bucket /\ e.index # EMPTY /\ Unused(n, b, e.index)
      /\ Follows(n, b, i, Distance(n, e, i))
      /\ \E j \in 0 .. n - 1 : b[j].index = EMPTY
  BY DEF Fits
<1> DEFINE c == Placed(b, i, Distance(n, e, i), e).buckets
<1>2. /\ c \in Array(n) /\ Robin(n, c) /\ OneEach(n, c)
      /\ Contents(n, c) = Contents(n, b) \cup {e}
  BY <1>1, PlacedIs
<1> HIDE DEF c
<1>3. PutIn(n, b, e, c)
  BY <1>2 DEF PutIn
<1> QED BY <1>3 DEF c

-----------------------------------------------------------------------------
(* Closing the gap of an erased entry                                      *)

\* How many buckets from the hole on the run of entries goes that move back.
RunEnd(n, b, hole) ==
  Min({d \in 1 .. n : LET i == Ahead(n, hole, d) IN
                        b[i].index = EMPTY \/ Distance(n, b[i], i) = 0})

\* What each bucket has after the shift.
LEMMA ShiftIs ==
  ASSUME NEW n \in Nat \ {0}, NEW b \in Array(n), NEW hole \in 0 .. n - 1,
         b[hole].index = EMPTY
  PROVE  LET c == BackwardShift(b, hole)
             run == RunEnd(n, b, hole)
         IN  /\ run \in 1 .. n
             /\ c \in Array(n)
             /\ \A i \in 0 .. n - 1 :
                  LET x == Gap(n, hole, i) IN
                  /\ x < run - 1 => c[i] = b[Ahead(n, i, 1)]
                  /\ x = run - 1 => c[i] = b[hole]
                  /\ x > run - 1 => c[i] = b[i]
                  /\ x \in 1 .. run - 1 => b[i].index # EMPTY /\ Distance(n, b[i], i) > 0
                  /\ x = run => b[i].index = EMPTY \/ Distance(n, b[i], i) = 0
<1> DEFINE At(d) == Ahead(n, hole, d)
           S == {d \in 1 .. n : b[At(d)].index = EMPTY \/ Distance(n, b[At(d)], At(d)) = 0}
           run == Min(S)
<1>1. BucketCount(b) = n /\ DOMAIN b = 0 .. n - 1
  BY CountIs
<1>2. \A d \in 0 .. n : At(d) \in 0 .. n - 1 /\ (hole + d) % n = At(d)
  BY RingIs
<1>3. \A i \in 0 .. n - 1 : DistanceFromIdeal(b, i) = Distance(n, b[i], i)
  BY RingOf
<1>4. S = {d \in 1 .. n : \/ IsEmpty(b, (hole + d) % n)
                          \/ DistanceFromIdeal(b, (hole + d) % n) = 0}
  <2>1. \A d \in 1 .. n : /\ IsEmpty(b, (hole + d) % n) <=> b[At(d)].index = EMPTY
                          /\ DistanceFromIdeal(b, (hole + d) % n) = Distance(n, b[At(d)], At(d))
    BY <1>2, <1>3 DEF IsEmpty
  <2> HIDE DEF At
  <2> QED BY <2>1
<1>5. run \in S /\ \A d \in S : run <= d
  <2>1. At(n) = hole
    BY DEF Ahead
  <2>2. n \in S
    BY <2>1
  <2>3. S \subseteq Nat
    OBVIOUS
  <2> HIDE DEF S
  <2> QED BY <2>2, <2>3, MinIs
<1>6. run = RunEnd(n, b, hole)
  BY DEF RunEnd
<1>7. BackwardShift(b, hole) =
        [i \in 0 .. n - 1 |->
           LET d == (i - hole) % n IN
           IF d < run - 1 THEN b[(hole + (d + 1)) % n]
           ELSE IF d = run - 1 THEN b[hole] ELSE b[i]]
  <2> HIDE DEF S
  <2> QED BY <1>1, <1>4 DEF BackwardShift
<1>8. run \in 1 .. n
  BY <1>5
<1> HIDE DEF run
<1>9. ASSUME NEW i \in 0 .. n - 1
      PROVE  LET x == Gap(n, hole, i) IN
             BackwardShift(b, hole)[i] = IF x < run - 1 THEN b[Ahead(n, i, 1)]
                                         ELSE IF x = run - 1 THEN b[hole] ELSE b[i]
  <2> DEFINE x == Gap(n, hole, i)
  <2>1. (i - hole) % n = x /\ x \in 0 .. n - 1
    BY RingIs
  <2>2. x < run - 1 => (hole + (x + 1)) % n = Ahead(n, i, 1)
    <3> SUFFICES ASSUME x < run - 1 PROVE At(x + 1) = Ahead(n, i, 1) /\ x + 1 \in 0 .. n
      BY <1>2
    <3> QED BY <1>8, <2>1 DEF Ahead, Gap
  <2>3. BackwardShift(b, hole)[i] =
          LET d == (i - hole) % n IN
           IF d < run - 1 THEN b[(hole + (d + 1)) % n]
           ELSE IF d = run - 1 THEN b[hole] ELSE b[i]
    BY <1>7
  <2> HIDE DEF x
  <2>4. QED BY <2>1, <2>2, <2>3 DEF x
<1>10. ASSUME NEW i \in 0 .. n - 1
       PROVE  /\ b[i] \in Bucket /\ b[hole] \in Bucket /\ b[Ahead(n, i, 1)] \in Bucket
  <2>1. Ahead(n, i, 1) \in 0 .. n - 1
    BY DEF Ahead
  <2> QED BY <2>1 DEF Array
<1>11. BackwardShift(b, hole) \in Array(n)
  <2>1. \A i \in 0 .. n - 1 : BackwardShift(b, hole)[i] \in Bucket
    BY <1>9, <1>10
  <2>2. DOMAIN BackwardShift(b, hole) = 0 .. n - 1
    BY <1>7
  <2>3. BackwardShift(b, hole) = [i \in 0 .. n - 1 |-> BackwardShift(b, hole)[i]]
    BY <1>7
  <2> QED BY <2>1, <2>3 DEF Array
<1>12. ASSUME NEW i \in 0 .. n - 1
       PROVE  LET x == Gap(n, hole, i) IN
              /\ x \in 1 .. run - 1 => b[i].index # EMPTY /\ Distance(n, b[i], i) > 0
              /\ x = run => b[i].index = EMPTY \/ Distance(n, b[i], i) = 0
  <2> DEFINE x == Gap(n, hole, i)
  <2>1. x \in 0 .. n - 1 /\ At(x) = i
    BY DEF Gap, Ahead
  <2>2. Distance(n, b[i], i) \in 0 .. n - 1
    BY RingOf, DistanceIn
  <2> HIDE DEF x
  <2>3. x \in 1 .. run - 1 => x \notin S /\ x \in 1 .. n
    BY <1>5, <1>8, <2>1
  <2>4. x = run => x \in S
    BY <1>5
  <2>5. x \in 1 .. run - 1 => b[i].index # EMPTY /\ Distance(n, b[i], i) > 0
    BY <2>1, <2>2, <2>3
  <2>6. x = run => b[i].index = EMPTY \/ Distance(n, b[i], i) = 0
    BY <2>1, <2>4
  <2> QED BY <2>5, <2>6 DEF x
<1>13. \A i \in 0 .. n - 1 :
                  LET x == Gap(n, hole, i) IN
                  /\ x < run - 1 => BackwardShift(b, hole)[i] = b[Ahead(n, i, 1)]
                  /\ x = run - 1 => BackwardShift(b, hole)[i] = b[hole]
                  /\ x > run - 1 => BackwardShift(b, hole)[i] = b[i]
  <2> SUFFICES ASSUME NEW i \in 0 .. n - 1
               PROVE  LET x == Gap(n, hole, i) IN
                  /\ x < run - 1 => BackwardShift(b, hole)[i] = b[Ahead(n, i, 1)]
                  /\ x = run - 1 => BackwardShift(b, hole)[i] = b[hole]
                  /\ x > run - 1 => BackwardShift(b, hole)[i] = b[i]
    OBVIOUS
  <2>1. Gap(n, hole, i) \in 0 .. n - 1
    BY DEF Gap
  <2> QED BY <1>8, <1>9, <2>1
<1> QED BY <1>6, <1>8, <1>11, <1>12, <1>13

\* The shift keeps the order and what is held.
LEMMA ShiftKeeps ==
  ASSUME NEW n \in Nat \ {0}, NEW b \in Array(n), NEW hole \in 0 .. n - 1,
         b[hole].index = EMPTY, OneEach(n, b),
         NEW g \in Bucket, Robin(n, [b EXCEPT ![hole] = g]),
         n <= 2 \/ \E j \in 0 .. n - 1 : j # hole /\ b[j].index = EMPTY
  PROVE  LET c == BackwardShift(b, hole) IN
         /\ c \in Array(n) /\ Robin(n, c) /\ OneEach(n, c)
         /\ Contents(n, c) = Contents(n, b)
<1> DEFINE c == BackwardShift(b, hole)
           run == RunEnd(n, b, hole)
           X(i) == Gap(n, hole, i)
           e == [b EXCEPT ![hole] = g]
<1>1. run \in 1 .. n /\ c \in Array(n)
  BY ShiftIs
<1>2. ASSUME NEW i \in 0 .. n - 1
      PROVE  /\ X(i) < run - 1 => c[i] = b[Ahead(n, i, 1)]
             /\ X(i) = run - 1 => c[i] = b[hole]
             /\ X(i) > run - 1 => c[i] = b[i]
             /\ X(i) \in 1 .. run - 1 => b[i].index # EMPTY /\ Distance(n, b[i], i) > 0
             /\ X(i) = run => b[i].index = EMPTY \/ Distance(n, b[i], i) = 0
  BY ShiftIs
<1> HIDE DEF c, run
<1>3. ASSUME NEW i \in 0 .. n - 1
      PROVE  /\ X(i) \in 0 .. n - 1 /\ (X(i) = 0 <=> i = hole)
             /\ Ahead(n, i, 1) \in 0 .. n - 1 /\ Behind(n, i, 1) \in 0 .. n - 1
             /\ Ahead(n, Behind(n, i, 1), 1) = i /\ Behind(n, Ahead(n, i, 1), 1) = i
             /\ X(i) < n - 1 => X(Ahead(n, i, 1)) = X(i) + 1
             /\ X(i) > 0 => X(Behind(n, i, 1)) = X(i) - 1
             /\ X(i) = 0 => X(Behind(n, i, 1)) = n - 1
  BY DEF Gap, Ahead, Behind
<1>4. ASSUME NEW i \in 0 .. n - 1, NEW j \in 0 .. n - 1, X(i) = X(j) PROVE i = j
  BY <1>4 DEF Gap
<1> HIDE DEF X
<1>5. ASSUME NEW f \in Bucket, NEW i \in 0 .. n - 1
      PROVE  /\ Distance(n, f, i) \in 0 .. n - 1
             /\ Distance(n, f, i) > 0 => Distance(n, f, Behind(n, i, 1)) = Distance(n, f, i) - 1
  <2>1. f.hash % n \in 0 .. n - 1
    BY DistanceIn
  <2> QED BY <2>1 DEF Distance, Gap, Behind
<1>6. \A i \in 0 .. n - 1 : b[i] \in Bucket /\ e[i] \in Bucket /\ (i # hole => e[i] = b[i])
                            /\ e[hole] = g
  BY DEF Array
<1>7. ASSUME NEW i \in 0 .. n - 1, e[i].index # EMPTY, Distance(n, e[i], i) > 0
      PROVE  LET p == Behind(n, i, 1) IN
             e[p].index # EMPTY /\ Distance(n, e[p], p) >= Distance(n, e[i], i) - 1
  BY <1>7 DEF Robin
<1> HIDE DEF e
<1>8. Robin(n, c)
  <2> SUFFICES ASSUME NEW i \in 0 .. n - 1, c[i].index # EMPTY, Distance(n, c[i], i) > 0
               PROVE  LET p == Behind(n, i, 1) IN
                      c[p].index # EMPTY /\ Distance(n, c[p], p) >= Distance(n, c[i], i) - 1
    BY DEF Robin
  <2> DEFINE p == Behind(n, i, 1)
  <2>1. p \in 0 .. n - 1 /\ X(i) \in 0 .. n - 1 /\ X(p) \in 0 .. n - 1
    BY <1>3
  <2> HIDE DEF p
  <2>2. CASE X(i) < run - 1
    <3> DEFINE j == Ahead(n, i, 1)
    <3>1. j \in 0 .. n - 1 /\ Behind(n, j, 1) = i /\ X(j) = X(i) + 1 /\ j # hole
      BY <1>1, <1>3, <2>1, <2>2
    <3>2. c[i] = b[j] /\ e[j] = b[j] /\ b[j].index # EMPTY /\ Distance(n, b[j], j) > 0
      BY <1>1, <1>2, <1>6, <2>1, <2>2, <3>1
    <3> HIDE DEF j
    <3>3. Distance(n, c[i], i) = Distance(n, b[j], j) - 1 /\ Distance(n, b[j], j) \in 0 .. n - 1
      BY <1>5, <1>6, <3>1, <3>2
    <3>4. e[i].index # EMPTY /\ Distance(n, e[i], i) >= Distance(n, c[i], i)
      BY <1>7, <3>1, <3>2, <3>3
    <3>5. Distance(n, e[i], i) \in 0 .. n - 1
      BY <1>5, <1>6
    <3>6. CASE X(i) > 0
      <4>1. X(p) = X(i) - 1 /\ Ahead(n, p, 1) = i /\ i # hole
        BY <1>3, <3>6 DEF p
      <4>2. c[p] = b[i] /\ e[i] = b[i]
        BY <1>1, <1>2, <1>6, <2>1, <2>2, <4>1
      <4>3. Distance(n, b[i], p) = Distance(n, b[i], i) - 1
        BY <1>5, <1>6, <3>3, <3>4, <3>5, <4>2 DEF p
      <4> QED BY <3>3, <3>4, <3>5, <4>2, <4>3 DEF p
    <3>7. CASE X(i) = 0
      <4>1. i = hole /\ X(p) = n - 1 /\ e[i] = g
        BY <1>3, <1>6, <3>7 DEF p
      <4>2. e[p].index # EMPTY /\ Distance(n, e[p], p) >= Distance(n, e[i], i) - 1
        BY <1>7, <3>3, <3>4, <3>5 DEF p
      <4>3. Distance(n, e[p], p) \in 0 .. n - 1
        BY <1>5, <1>6, <2>1
      <4>4. n > 2 /\ p # hole
        BY <1>3, <2>1, <3>3, <4>1
      <4>5. run # n
        <5> SUFFICES ASSUME run = n PROVE FALSE
          OBVIOUS
        <5>1. PICK h \in 0 .. n - 1 : h # hole /\ b[h].index = EMPTY
          BY <4>4
        <5>2. X(h) \in 1 .. n - 1
          BY <1>3, <5>1
        <5> QED BY <1>2, <5>1, <5>2
      <4>6. c[p] = b[p] /\ e[p] = b[p]
        BY <1>1, <1>2, <1>6, <2>1, <4>1, <4>4, <4>5
      <4> QED BY <3>3, <3>4, <3>5, <4>2, <4>3, <4>6 DEF p
    <3> QED BY <2>1, <3>6, <3>7
  <2>3. CASE X(i) = run - 1
    BY <1>2, <2>3
  <2>4. CASE X(i) > run - 1
    <3>1. i # hole /\ c[i] = b[i] /\ e[i] = b[i] /\ X(p) = X(i) - 1
      BY <1>1, <1>2, <1>3, <1>6, <2>1, <2>4 DEF p
    <3>2. e[p].index # EMPTY /\ Distance(n, e[p], p) >= Distance(n, c[i], i) - 1
      BY <1>7, <3>1 DEF p
    <3>3. X(p) > run - 1
      <4>1. X(i) # run
        BY <1>2, <3>1
      <4> QED BY <1>1, <2>1, <2>4, <3>1, <4>1
    <3>4. c[p] = b[p] /\ e[p] = b[p]
      BY <1>1, <1>2, <1>3, <1>6, <2>1, <3>3
    <3> QED BY <3>2, <3>4 DEF p
  <2> QED BY <1>1, <2>1, <2>2, <2>3, <2>4
<1> DEFINE From(i) == IF X(i) < run - 1 THEN Ahead(n, i, 1) ELSE i
<1>9. ASSUME NEW i \in 0 .. n - 1, c[i].index # EMPTY
      PROVE  /\ From(i) \in 0 .. n - 1 /\ c[i] = b[From(i)] /\ X(i) # run - 1
             /\ X(From(i)) = IF X(i) < run - 1 THEN X(i) + 1 ELSE X(i)
  BY <1>1, <1>2, <1>3, <1>9
<1>10. OneEach(n, c)
  <2> SUFFICES ASSUME NEW i \in 0 .. n - 1, NEW j \in 0 .. n - 1,
                      c[i].index # EMPTY, c[i].index = c[j].index
               PROVE  i = j
    BY DEF OneEach
  <2>1. From(i) = From(j)
    <3>1. From(i) \in 0 .. n - 1 /\ From(j) \in 0 .. n - 1 /\ c[i] = b[From(i)] /\ c[j] = b[From(j)]
      BY <1>9
    <3> HIDE DEF From
    <3> QED BY <3>1 DEF OneEach
  <2>2. X(From(i)) = X(From(j))
    <3> HIDE DEF From
    <3> QED BY <2>1
  <2>3. X(i) = X(j)
    <3>1. /\ X(i) # run - 1 /\ X(From(i)) = IF X(i) < run - 1 THEN X(i) + 1 ELSE X(i)
          /\ X(j) # run - 1 /\ X(From(j)) = IF X(j) < run - 1 THEN X(j) + 1 ELSE X(j)
      BY <1>9
    <3>2. X(i) \in 0 .. n - 1 /\ X(j) \in 0 .. n - 1
      BY <1>3
    <3> HIDE DEF From
    <3>3. CASE X(i) < run - 1 /\ X(j) < run - 1
      <4>1. X(i) + 1 = X(j) + 1
        BY <2>2, <3>1, <3>3
      <4> QED BY <3>2, <4>1
    <3>4. CASE X(i) < run - 1 /\ ~ (X(j) < run - 1)
      <4>1. X(i) + 1 = X(j)
        BY <2>2, <3>1, <3>4
      <4> QED BY <1>1, <3>1, <3>2, <3>4, <4>1
    <3>5. CASE ~ (X(i) < run - 1) /\ X(j) < run - 1
      <4>1. X(i) = X(j) + 1
        BY <2>2, <3>1, <3>5
      <4> QED BY <1>1, <3>1, <3>2, <3>5, <4>1
    <3>6. CASE ~ (X(i) < run - 1) /\ ~ (X(j) < run - 1)
      BY <2>2, <3>1, <3>6
    <3> QED BY <3>3, <3>4, <3>5, <3>6
  <2> QED BY <1>4, <2>3
<1>11. Contents(n, c) \subseteq Contents(n, b)
  <2> SUFFICES ASSUME NEW i \in 0 .. n - 1, c[i].index # EMPTY PROVE c[i] \in Contents(n, b)
    BY DEF Contents
  <2>1. From(i) \in 0 .. n - 1 /\ c[i] = b[From(i)]
    BY <1>9
  <2> HIDE DEF From
  <2> QED BY <2>1 DEF Contents
<1>12. Contents(n, b) \subseteq Contents(n, c)
  <2> SUFFICES ASSUME NEW j \in 0 .. n - 1, b[j].index # EMPTY PROVE b[j] \in Contents(n, c)
    BY DEF Contents
  <2>1. X(j) \in 1 .. n - 1
    BY <1>3
  <2>2. PICK i \in 0 .. n - 1 : c[i] = b[j]
    <3>1. CASE X(j) <= run - 1
      <4> DEFINE i == Behind(n, j, 1)
      <4>1. i \in 0 .. n - 1 /\ Ahead(n, i, 1) = j /\ X(i) = X(j) - 1
        BY <1>3, <2>1
      <4>2. X(i) < run - 1
        BY <1>1, <2>1, <3>1, <4>1
      <4> HIDE DEF i
      <4> QED BY <1>2, <4>1, <4>2
    <3>2. CASE ~ (X(j) <= run - 1)
      <4>1. X(j) > run - 1
        BY <1>1, <2>1, <3>2
      <4> QED BY <1>2, <4>1
    <3> QED BY <3>1, <3>2
  <2> QED BY <2>2 DEF Contents
<1> QED BY <1>1, <1>8, <1>10, <1>11, <1>12 DEF c

-----------------------------------------------------------------------------
(* As many buckets are taken as there are values                           *)

\* A bucket is taken for every value, so that one is empty when there are
\* more buckets than values.
LEMMA TakenIs ==
  ASSUME NEW n \in Nat, NEW b, NEW values, Filed(n, b, values)
  PROVE  LET taken == {i \in 0 .. n - 1 : b[i].index # EMPTY} IN
         /\ Cardinality(taken) = Len(values)
         /\ Len(values) <= n
         /\ Len(values) < n => \E i \in 0 .. n - 1 : b[i].index = EMPTY
<1> DEFINE taken == {i \in 0 .. n - 1 : b[i].index # EMPTY}
           V == 1 .. Len(values)
           f == [i \in taken |-> b[i].index + 1]
<1>1. OneEach(n, b) /\ Len(values) \in Nat /\ b \in Array(n)
  BY DEF Filed
<1>2. \A i \in taken : b[i].index + 1 \in V /\ b[i].index \in Int
  <2>1. \A i \in taken : b[i].index + 1 \in V
    BY FiledAt
  <2>2. \A i \in taken : b[i].index \in Int
    BY <1>1 DEF Array, Bucket, EMPTY
  <2> QED BY <2>1, <2>2
<1>3. f \in Injection(taken, V)
  <2>1. f \in [taken -> V]
    BY <1>2
  <2>2. ASSUME NEW i \in taken, NEW j \in taken, f[i] = f[j] PROVE i = j
    <3>1. b[i].index = b[j].index
      BY <1>2, <2>2
    <3> QED BY <1>1, <3>1 DEF OneEach
  <2> HIDE DEF f
  <2> QED BY <2>1, <2>2 DEF Injection, IsInjective
<1>4. f \in Surjection(taken, V)
  <2>1. f \in [taken -> V]
    BY <1>2
  <2>2. \A v \in V : \E i \in taken : f[i] = v
    BY FiledAt
  <2> HIDE DEF f
  <2> QED BY <2>1, <2>2 DEF Surjection
<1>5. IsFiniteSet(V) /\ Cardinality(V) = Len(values)
  <2> DEFINE m == Len(values)
  <2>1. m \in Nat
    BY <1>1
  <2> HIDE DEF m
  <2>2. IsFiniteSet(1 .. m) /\ Cardinality(1 .. m) = m
    BY <2>1, FS_Interval
  <2> QED BY <2>2 DEF m
<1>6. IsFiniteSet(0 .. n - 1) /\ Cardinality(0 .. n - 1) = n
  BY FS_Interval
<1> HIDE DEF f
<1>7. Cardinality(taken) = Cardinality(V)
  BY <1>3, <1>4, <1>5, FS_Injection
<1>8. Cardinality(taken) <= n /\ (Cardinality(taken) = n => taken = 0 .. n - 1)
  BY <1>6, FS_Subset
<1>9. ASSUME Len(values) < n PROVE \E i \in 0 .. n - 1 : b[i].index = EMPTY
  <2> SUFFICES ASSUME taken = 0 .. n - 1 PROVE FALSE
    OBVIOUS
  <2>1. Cardinality(taken) = n
    BY <1>6
  <2> HIDE DEF taken
  <2> QED BY <1>1, <1>5, <1>7, <1>9, <2>1
<1> QED BY <1>5, <1>7, <1>8, <1>9

\* The order depends on where the hashes are, not on the values they lead to.
LEMMA SameOrder ==
  ASSUME NEW n \in Nat, NEW b, NEW c, Robin(n, b),
         \A i \in 0 .. n - 1 : c[i].hash = b[i].hash /\ (c[i].index = EMPTY <=> b[i].index = EMPTY)
  PROVE  Robin(n, c)
<1> SUFFICES ASSUME NEW i \in 0 .. n - 1, c[i].index # EMPTY, Distance(n, c[i], i) > 0
             PROVE  LET p == Behind(n, i, 1) IN
                    c[p].index # EMPTY /\ Distance(n, c[p], p) >= Distance(n, c[i], i) - 1
  BY DEF Robin
<1> DEFINE p == Behind(n, i, 1)
<1>1. p \in 0 .. n - 1
  BY DEF Behind
<1> HIDE DEF p
<1>2. Distance(n, c[i], i) = Distance(n, b[i], i) /\ Distance(n, c[p], p) = Distance(n, b[p], p)
  BY <1>1 DEF Distance
<1>3. b[i].index # EMPTY /\ Distance(n, b[i], i) > 0
  BY <1>2
<1> QED BY <1>1, <1>2, <1>3 DEF Robin, p

-----------------------------------------------------------------------------
(* Erasing a value                                                         *)

\* A sequence without its element p.
LEMMA RemovedIs ==
  ASSUME NEW S, NEW s \in Seq(S), NEW p \in 1 .. Len(s)
  PROVE  /\ RemoveAt(s, p) \in Seq(S) /\ Len(RemoveAt(s, p)) = Len(s) - 1
         /\ \A v \in 1 .. Len(s) - 1 : RemoveAt(s, p)[v] = IF v < p THEN s[v] ELSE s[v + 1]
<1> DEFINE l == SubSeq(s, 1, p - 1)
           r == SubSeq(s, p + 1, Len(s))
<1>1. \A v \in 1 .. Len(s) : s[v] \in S
  BY ElementOfSeq
<1>2. /\ l \in Seq(S) /\ Len(l) = p - 1 /\ \A v \in 1 .. p - 1 : l[v] = s[v]
  <2>1. \A v \in 1 .. p - 1 : s[v] \in S
    BY <1>1
  <2> HIDE DEF l
  <2>2. l \in Seq(S) /\ Len(l) = (IF 1 <= p - 1 THEN (p - 1) - 1 + 1 ELSE 0)
        /\ \A v \in 1 .. (p - 1) - 1 + 1 : l[v] = s[1 + v - 1]
    BY <2>1, SubSeqProperties DEF l
  <2>3. Len(l) = p - 1
    BY <2>2
  <2> QED BY <2>2, <2>3
<1>3. /\ r \in Seq(S) /\ Len(r) = Len(s) - p /\ \A v \in 1 .. Len(s) - p : r[v] = s[p + v]
  <2>1. \A v \in p + 1 .. Len(s) : s[v] \in S
    BY <1>1
  <2> HIDE DEF r
  <2>2. r \in Seq(S) /\ Len(r) = (IF p + 1 <= Len(s) THEN Len(s) - (p + 1) + 1 ELSE 0)
        /\ \A v \in 1 .. Len(s) - (p + 1) + 1 : r[v] = s[(p + 1) + v - 1]
    BY <2>1, SubSeqProperties DEF r
  <2>3. Len(r) = Len(s) - p
    BY <2>2
  <2>4. ASSUME NEW v \in 1 .. Len(s) - p PROVE r[v] = s[p + v]
    <3>1. (p + 1) + v - 1 = p + v
      OBVIOUS
    <3>2. r[v] = s[(p + 1) + v - 1]
      BY <2>2
    <3> QED BY <3>1, <3>2
  <2> QED BY <2>2, <2>3, <2>4
<1>4. RemoveAt(s, p) = l \o r
  BY DEF RemoveAt
<1> HIDE DEF l, r
<1>5. /\ l \o r \in Seq(S) /\ Len(l \o r) = Len(s) - 1
      /\ \A v \in 1 .. Len(s) - 1 : (l \o r)[v] = IF v <= p - 1 THEN l[v] ELSE r[v - (p - 1)]
  <2> DEFINE t == l \o r
  <2>1. /\ t \in Seq(S) /\ Len(t) = Len(l) + Len(r)
        /\ \A v \in 1 .. Len(l) + Len(r) : t[v] = IF v <= Len(l) THEN l[v] ELSE r[v - Len(l)]
    BY <1>2, <1>3, ConcatProperties
  <2> HIDE DEF t
  <2>2. Len(l) + Len(r) = Len(s) - 1
    BY <1>2, <1>3
  <2>3. QED BY <1>2, <2>1, <2>2 DEF t
<1>6. ASSUME NEW v \in 1 .. Len(s) - 1 PROVE (l \o r)[v] = IF v < p THEN s[v] ELSE s[v + 1]
  <2>1. CASE v < p
    BY <1>2, <1>5, <2>1
  <2>2. CASE ~ (v < p)
    <3>1. v - (p - 1) \in 1 .. Len(s) - p /\ p + (v - (p - 1)) = v + 1
      BY <2>2
    <3>2. (l \o r)[v] = r[v - (p - 1)]
      BY <1>5, <2>2
    <3> QED BY <1>3, <2>2, <3>1, <3>2
  <2> QED BY <2>1, <2>2
<1> QED BY <1>4, <1>5, <1>6

\* The buckets when the values from this index up to the next r have moved down.
Lowered(n, b, from, r) ==
  [i \in 0 .. n - 1 |-> IF b[i].index \in from + 1 .. from + r
                        THEN [b[i] EXCEPT !.index = @ - 1] ELSE b[i]]

\* Each bucket of Lowered, and that it is an array still.
LEMMA LoweredIs ==
  ASSUME NEW n \in Nat, NEW b \in Array(n), NEW from \in Nat, NEW r \in Nat
  PROVE  /\ Lowered(n, b, from, r) \in Array(n)
         /\ \A i \in 0 .. n - 1 :
              /\ Lowered(n, b, from, r)[i].hash = b[i].hash
              /\ b[i].index \in from + 1 .. from + r => Lowered(n, b, from, r)[i].index = b[i].index - 1
              /\ b[i].index \notin from + 1 .. from + r => Lowered(n, b, from, r)[i].index = b[i].index
<1> DEFINE c == Lowered(n, b, from, r)
<1>1. ASSUME NEW i \in 0 .. n - 1
      PROVE  /\ c[i] \in Bucket
             /\ c[i].hash = b[i].hash
             /\ b[i].index \in from + 1 .. from + r => c[i].index = b[i].index - 1
             /\ b[i].index \notin from + 1 .. from + r => c[i].index = b[i].index
  <2>1. b[i] \in Bucket
    BY DEF Array
  <2>2. c[i] = IF b[i].index \in from + 1 .. from + r
               THEN [b[i] EXCEPT !.index = @ - 1] ELSE b[i]
    BY DEF Lowered
  <2> HIDE DEF c
  <2>3. CASE b[i].index \in from + 1 .. from + r
    <3>1. c[i] = [b[i] EXCEPT !.index = b[i].index - 1]
      BY <2>2, <2>3
    <3>2. b[i].index - 1 \in Nat
      BY <2>3
    <3> QED BY <2>1, <2>3, <3>1, <3>2 DEF Bucket
  <2>4. CASE b[i].index \notin from + 1 .. from + r
    BY <2>1, <2>2, <2>4
  <2> QED BY <2>3, <2>4
<1>2. c = [i \in 0 .. n - 1 |-> c[i]]
  BY DEF Lowered
<1> HIDE DEF c
<1>3. c \in Array(n)
  BY <1>1, <1>2 DEF Array
<1> QED BY <1>1, <1>3 DEF c

\* Renumbering after a value is gone lowers the indices behind it.
LEMMA ShiftedDown ==
  ASSUME NEW n \in Nat \ {0}, NEW b, NEW values, Filed(n, b, values),
         NEW from \in Nat, from < Len(values)
  PROVE  ShiftIndexes(b, RemoveAt(values, from + 1), from, -1)
           = Lowered(n, b, from, Len(values) - 1 - from)
<1> DEFINE gone == RemoveAt(values, from + 1)
           m == Len(values) - 1 - from
           low(r) == Lowered(n, b, from, r)
           next(f, r) == IF r = 0 THEN b ELSE Renumbered(f[r - 1], gone, from + r - 1, -1)
<1>1. b \in Array(n) /\ values \in Seq(Entries) /\ OneEach(n, b) /\ Len(values) \in Nat
  BY DEF Filed
<1>2. /\ Len(gone) = Len(values) - 1
      /\ \A v \in 1 .. Len(values) - 1 : gone[v] = IF v < from + 1 THEN values[v] ELSE values[v + 1]
  <2>1. from + 1 \in 1 .. Len(values)
    BY <1>1
  <2> QED BY <1>1, <2>1, RemovedIs
<1>3. m \in Nat /\ Len(gone) - from = m
  BY <1>1, <1>2
<1> HIDE DEF gone, m
<1>4. low(0) = b
  <2>1. \A i \in 0 .. n - 1 : b[i].index \notin from + 1 .. from + 0
    OBVIOUS
  <2>2. b = [i \in 0 .. n - 1 |-> b[i]]
    BY <1>1 DEF Array
  <2> QED BY <2>1, <2>2 DEF Lowered
<1>5. ASSUME NEW q \in Nat, q < m
      PROVE  Renumbered(low(q), gone, from + q, -1) = low(q + 1)
  <2> DEFINE iv == from + q
             c == low(q)
             h == Hash[gone[iv + 1].key]
  <2>1. /\ iv \in Nat /\ iv - (-1) = iv + 1
        /\ iv + 1 \in 1 .. Len(values) - 1
        /\ iv + 2 \in 1 .. Len(values) /\ ~ (iv + 1 < from + 1)
        /\ (iv + 1) + 1 = iv + 2
    <3>1. q < Len(values) - 1 - from
      BY <1>1, <1>2, <1>3, <1>5
    <3> QED BY <1>1, <3>1
  <2>2. gone[iv + 1] = values[iv + 2]
    BY <1>2, <2>1
  <2>3. PICK j \in 0 .. n - 1 : b[j].index # EMPTY /\ b[j].index + 1 = iv + 2
                                /\ b[j].hash = Hash[values[iv + 2].key]
    BY <2>1, FiledAt
  <2>4. h = b[j].hash
    BY <2>2, <2>3
  <2> HIDE DEF h
  <2>5. h \in Nat /\ h % n \in 0 .. n - 1 /\ b[j].index = iv + 1
    <3>1. b[j].hash \in Nat /\ b[j].index \in Nat \cup {EMPTY}
      BY <1>1, RingOf
    <3>2. b[j].index = iv + 1
      <4> DEFINE x == b[j].index
      <4>1. x \in Int /\ x + 1 = iv + 2 /\ iv \in Int
        BY <2>1, <2>3, <3>1 DEF EMPTY
      <4> HIDE DEF x, iv
      <4>2. x = iv + 1
        BY <4>1
      <4> QED BY <4>2 DEF x
    <3>3. h \in Nat
      BY <2>4, <3>1
    <3>4. h % n \in 0 .. n - 1
      BY <3>3, ProbedIs
    <3> QED BY <3>2, <3>3, <3>4
  <2>6. /\ c \in Array(n)
        /\ \A i \in 0 .. n - 1 :
             /\ c[i].hash = b[i].hash
             /\ b[i].index \in from + 1 .. from + q => c[i].index = b[i].index - 1
             /\ b[i].index \notin from + 1 .. from + q => c[i].index = b[i].index
    <3>1. b \in Array(n)
      BY <1>1
    <3>2. c \in Array(n)
      BY <3>1, LoweredIs
    <3>3. \A i \in 0 .. n - 1 : c[i].hash = b[i].hash
      BY <3>1, LoweredIs
    <3>4. ASSUME NEW i \in 0 .. n - 1
          PROVE  /\ b[i].index \in from + 1 .. from + q => c[i].index = b[i].index - 1
                 /\ b[i].index \notin from + 1 .. from + q => c[i].index = b[i].index
      <4>1. c[i] = IF b[i].index \in from + 1 .. from + q
                   THEN [b[i] EXCEPT !.index = @ - 1] ELSE b[i]
        BY DEF Lowered
      <4>2. b[i] \in Bucket
        BY <3>1 DEF Array
      <4> HIDE DEF c
      <4> QED BY <4>1, <4>2 DEF Bucket
    <3> QED BY <3>2, <3>3, <3>4
  <2> HIDE DEF c
  <2>7. \A i \in 0 .. n - 1 : c[i].index = iv + 1 <=> i = j
    <3> SUFFICES ASSUME NEW i \in 0 .. n - 1 PROVE c[i].index = iv + 1 <=> i = j
      OBVIOUS
    <3>1. b[i].index \in Nat \cup {EMPTY}
      BY <1>1, RingOf
    <3>2. c[i].index = iv + 1 <=> b[i].index = iv + 1
      BY <2>6, <3>1 DEF EMPTY
    <3>3. b[i].index = iv + 1 => i = j
      BY <1>1, <2>3, <2>5 DEF OneEach
    <3> QED BY <2>5, <3>2, <3>3
  <2>8. BucketCount(c) = n /\ \A d \in 0 .. n : Probed(c, h, d) = Ahead(n, h % n, d)
    <3>1. BucketCount(c) = n
      BY <2>6, CountIs
    <3>2. 0 \in 0 .. n - 1
      OBVIOUS
    <3> QED BY <2>5, <2>6, <3>1, <3>2, RingOf
  <2> DEFINE S == {d \in 0 .. n - 1 : c[Probed(c, h, d)].index = iv - (-1)}
             g == Gap(n, h % n, j)
  <2>9. g \in 0 .. n - 1 /\ Ahead(n, h % n, g) = j
    BY <2>5 DEF Gap, Ahead
  <2>10. S # {} /\ S \subseteq Nat
    <3>1. g \in S
      BY <2>1, <2>7, <2>8, <2>9
    <3> QED BY <3>1
  <2>11. Min(S) \in S
    <3> HIDE DEF S
    <3> QED BY <2>10, MinIs
  <2>12. Probed(c, h, Min(S)) = j
    <3>1. Min(S) \in 0 .. n - 1 /\ c[Probed(c, h, Min(S))].index = iv + 1
      BY <2>1, <2>11
    <3> HIDE DEF S
    <3>2. Probed(c, h, Min(S)) = Ahead(n, h % n, Min(S))
      BY <2>8, <3>1
    <3>3. Ahead(n, h % n, Min(S)) \in 0 .. n - 1
      <4> DEFINE r == h % n
                 d == Min(S)
      <4>1. r \in 0 .. n - 1 /\ d \in 0 .. n
        BY <2>5, <3>1
      <4> HIDE DEF r, d
      <4>2. \A x \in 0 .. n : Ahead(n, r, x) \in 0 .. n - 1
        BY <4>1, RingIs
      <4> QED BY <4>1, <4>2 DEF r, d
    <3> QED BY <2>7, <3>1, <3>2, <3>3
  <2>13. Renumbered(c, gone, iv, -1) = [c EXCEPT ![j].index = iv]
    <3> DEFINE R == {d \in 0 .. BucketCount(c) - 1 : c[Probed(c, h, d)].index = iv - (-1)}
    <3>1. Renumbered(c, gone, iv, -1) = [c EXCEPT ![Probed(c, h, Min(R))].index = iv]
      BY DEF Renumbered, h
    <3>2. R = S
      BY <2>8
    <3> HIDE DEF R, S
    <3> QED BY <2>12, <3>1, <3>2
  <2>14. [c EXCEPT ![j].index = iv] = low(q + 1)
    <3>1. low(q + 1) = [i \in 0 .. n - 1 |-> IF b[i].index \in from + 1 .. from + (q + 1)
                                         THEN [b[i] EXCEPT !.index = @ - 1] ELSE b[i]]
      BY DEF Lowered
    <3>2. c = [i \in 0 .. n - 1 |-> IF b[i].index \in from + 1 .. from + q
                                    THEN [b[i] EXCEPT !.index = @ - 1] ELSE b[i]]
      BY DEF Lowered, c
    <3> DEFINE e == [c EXCEPT ![j].index = iv]
    <3>3. e = [i \in 0 .. n - 1 |-> IF i = j THEN [c[i] EXCEPT !.index = iv] ELSE c[i]]
      BY <2>6 DEF Array
    <3>4. ASSUME NEW i \in 0 .. n - 1
          PROVE  (IF i = j THEN [c[i] EXCEPT !.index = iv] ELSE c[i])
                   = IF b[i].index \in from + 1 .. from + (q + 1)
                     THEN [b[i] EXCEPT !.index = @ - 1] ELSE b[i]
      <4>1. b[i].index \in Nat \cup {EMPTY}
        BY <1>1, RingOf
      <4>2. CASE i = j
        <5>1. c[i] = b[i]
          BY <2>5, <3>2, <4>2
        <5>2. b[i].index \in from + 1 .. from + (q + 1) /\ b[i].index - 1 = iv
          BY <2>5, <4>2
        <5> QED BY <4>2, <5>1, <5>2
      <4>3. CASE i # j
        <5>1. b[i].index # iv + 1
          BY <1>1, <2>3, <2>5, <4>3 DEF OneEach
        <5>2. b[i].index \in from + 1 .. from + (q + 1) <=> b[i].index \in from + 1 .. from + q
          BY <4>1, <5>1 DEF EMPTY
        <5> QED BY <3>2, <4>3, <5>2
      <4> QED BY <4>2, <4>3
    <3> HIDE DEF e
    <3> QED BY <3>1, <3>3, <3>4 DEF e
  <2> QED BY <2>13, <2>14 DEF c
<1> DEFINE shifted == CHOOSE f : f = [r \in 0 .. m |-> next(f, r)]
           F == [r \in 0 .. m |-> low(r)]
<1>6. F = [r \in 0 .. m |-> next(F, r)]
  <2>1. ASSUME NEW r \in 0 .. m PROVE low(r) = next(F, r)
    <3>1. CASE r = 0
      BY <1>4, <3>1
    <3>2. CASE r # 0
      <4>1. /\ r - 1 \in 0 .. m /\ r - 1 \in Nat /\ r - 1 < m /\ (r - 1) + 1 = r
            /\ from + (r - 1) = from + r - 1
        BY <1>3, <3>2
      <4>2. F[r - 1] = low(r - 1)
        BY <4>1
      <4> HIDE DEF low, F
      <4>3. Renumbered(low(r - 1), gone, from + (r - 1), -1) = low((r - 1) + 1)
        BY <1>5, <4>1
      <4> QED BY <3>2, <4>1, <4>2, <4>3
    <3> QED BY <3>1, <3>2
  <2> HIDE DEF low
  <2> QED BY <2>1
<1> HIDE DEF low, F
<1>7. shifted = [r \in 0 .. m |-> next(shifted, r)]
  <2> HIDE DEF next
  <2> QED BY <1>6
<1>8. ShiftIndexes(b, gone, from, -1) = shifted[m]
  BY <1>3 DEF ShiftIndexes
<1> HIDE DEF shifted
<1> DEFINE T == {r \in 0 .. m : shifted[r] = low(r)}
<1>9. 0 \in T
  BY <1>3, <1>4, <1>7
<1>10. ASSUME NEW r \in 1 .. m, r - 1 \in T PROVE r \in T
  <2>1. shifted[r] = Renumbered(shifted[r - 1], gone, from + r - 1, -1)
    BY <1>3, <1>7
  <2>2. r - 1 \in Nat /\ r - 1 < m /\ (r - 1) + 1 = r /\ from + (r - 1) = from + r - 1
    BY <1>3
  <2>3. Renumbered(low(r - 1), gone, from + (r - 1), -1) = low((r - 1) + 1)
    BY <1>5, <2>2
  <2> QED BY <1>10, <2>1, <2>2, <2>3
<1>11. 0 .. m \subseteq T
  <2> HIDE DEF T
  <2> QED BY <1>3, <1>9, <1>10, LoopInduction
<1>12. shifted[m] = low(m)
  BY <1>3, <1>11
<1> QED BY <1>8, <1>12 DEF gone, m, low

\* The tables with n buckets.
Tables(n) == [buckets : Array(n), values : Seq(Entries), threshold : Nat,
              maxLoad : 1 .. 99, grow : BOOLEAN]

\* A table with n buckets that finds what it holds, and has room or asks for it:
\* only one with one or two buckets may be full, and the threshold is less than
\* the number of buckets.
Sound(n, t) ==
  /\ t \in Tables(n)
  /\ Filed(n, t.buckets, t.values)
  /\ Len(t.values) < n \/ n <= 2
  /\ t.threshold < n \/ t.threshold = 0

\* A sound table in parts.
LEMMA SoundIs ==
  ASSUME NEW n \in Nat, NEW t, Sound(n, t)
  PROVE  /\ t \in Tables(n) /\ t.buckets \in Array(n) /\ t.values \in Seq(Entries)
         /\ Len(t.values) \in Nat /\ Len(t.values) <= n
         /\ t.threshold \in Nat /\ t.maxLoad \in 1 .. 99 /\ t.grow \in BOOLEAN
         /\ BucketCount(t.buckets) = n /\ DOMAIN t.buckets = 0 .. n - 1
         /\ t.buckets = <<>> <=> n = 0
<1>1. t \in Tables(n) /\ Filed(n, t.buckets, t.values)
  BY DEF Sound
<1>2. /\ t.buckets \in Array(n) /\ t.values \in Seq(Entries)
      /\ t.threshold \in Nat /\ t.maxLoad \in 1 .. 99 /\ t.grow \in BOOLEAN
  BY <1>1 DEF Tables
<1>3. Len(t.values) \in Nat
  BY <1>2
<1> QED BY <1>1, <1>2, <1>3, TakenIs, CountIs

\* Erasing a bucket leaves the others' values found.
LEMMA ErasedKeeps ==
  ASSUME NEW n \in Nat \ {0}, NEW t, Sound(n, t),
         NEW i \in 0 .. n - 1, t.buckets[i].index # EMPTY
  PROVE  Sound(n, ErasedBucket(t, i))
<1> DEFINE b == t.buckets
           index == b[i].index
           p == index + 1
           old == t.values
           values == RemoveAt(old, p)
           shifted == IF index = Len(values) THEN b ELSE ShiftIndexes(b, values, index, -1)
           m == Len(old) - 1 - index
           hole == [shifted EXCEPT ![i] = Vacant]
           c == BackwardShift(hole, i)
           u == ErasedBucket(t, i)
<1>1. /\ t \in Tables(n) /\ b \in Array(n) /\ old \in Seq(Entries) /\ Len(old) \in Nat
      /\ Filed(n, b, old) /\ Distinct(old) /\ Robin(n, b) /\ OneEach(n, b)
      /\ Contents(n, b) = Files(old)
      /\ Len(old) < n \/ n <= 2
      /\ t.threshold < n \/ t.threshold = 0
  BY SoundIs DEF Sound, Filed
<1>2. /\ index \in Nat /\ p \in 1 .. Len(old) /\ index < Len(old)
      /\ b[i] \in Bucket
  <2>1. index \in Nat \cup {EMPTY} /\ b[i] \in Bucket
    BY <1>1, RingOf
  <2>2. index + 1 \in 1 .. Len(old)
    BY <1>1, FiledAt
  <2> QED BY <1>1, <2>1, <2>2 DEF EMPTY
<1> HIDE DEF b, old
<1>3. /\ values \in Seq(Entries) /\ Len(values) = Len(old) - 1
      /\ \A v \in 1 .. Len(old) - 1 : values[v] = IF v < p THEN old[v] ELSE old[v + 1]
  BY <1>1, <1>2, RemovedIs
<1>4. u = [t EXCEPT !.values = values, !.buckets = c]
  BY DEF ErasedBucket, b, old
<1> HIDE DEF values, u
<1>5. m \in Nat
  BY <1>1, <1>2
<1>6. shifted = Lowered(n, b, index, m)
  <2>1. CASE index = Len(values)
    <3>1. m = 0
      BY <1>1, <1>2, <1>3, <2>1
    <3>2. b = [j \in 0 .. n - 1 |-> b[j]]
      BY <1>1 DEF Array
    <3>3. \A j \in 0 .. n - 1 : b[j].index \notin index + 1 .. index + 0
      BY <1>2
    <3> HIDE DEF index, m
    <3> QED BY <2>1, <3>1, <3>2, <3>3 DEF Lowered
  <2>2. CASE index # Len(values)
    <3>1. ShiftIndexes(b, values, index, -1) = Lowered(n, b, index, m)
      BY <1>1, <1>2, ShiftedDown DEF values
    <3> QED BY <2>2, <3>1
  <2> QED BY <2>1, <2>2
<1> HIDE DEF shifted
<1>7. shifted \in Array(n) /\ \A j \in 0 .. n - 1 : shifted[j].hash = b[j].hash
  <2> HIDE DEF index, m
  <2>1. index \in Nat /\ m \in Nat /\ b \in Array(n)
    BY <1>1, <1>2, <1>5
  <2>2. Lowered(n, b, index, m) \in Array(n)
    BY <2>1, LoweredIs
  <2>3. \A j \in 0 .. n - 1 : Lowered(n, b, index, m)[j].hash = b[j].hash
    BY <2>1, LoweredIs
  <2> QED BY <1>6, <2>2, <2>3
<1>8. ASSUME NEW j \in 0 .. n - 1
      PROVE  /\ b[j].index \in Nat \cup {EMPTY}
             /\ b[j].index = EMPTY => shifted[j].index = EMPTY
             /\ b[j].index # EMPTY =>
                  /\ b[j].index + 1 \in 1 .. Len(old)
                  /\ b[j].hash = Hash[old[b[j].index + 1].key]
                  /\ shifted[j].index = IF b[j].index > index THEN b[j].index - 1 ELSE b[j].index
             /\ b[j].index = index <=> j = i
  <2>1. shifted[j] = IF b[j].index \in index + 1 .. index + m
                     THEN [b[j] EXCEPT !.index = @ - 1] ELSE b[j]
    <3> HIDE DEF index, m
    <3> QED BY <1>6 DEF Lowered
  <2>2. b[j] \in Bucket /\ b[j].index \in Nat \cup {EMPTY}
    BY <1>1, RingOf
  <2>3. b[j].index # EMPTY => b[j].index + 1 \in 1 .. Len(old)
                              /\ b[j].hash = Hash[old[b[j].index + 1].key]
    BY <1>1, FiledAt
  <2>4. b[j].index = index <=> j = i
    BY <1>1, <1>2 DEF OneEach, EMPTY
  <2>5. b[j].index \in index + 1 .. index + m =>
          shifted[j].index = b[j].index - 1 /\ b[j].index > index
    BY <1>2, <2>1, <2>2 DEF Bucket
  <2>6. b[j].index \notin index + 1 .. index + m => shifted[j].index = b[j].index
    BY <2>1
  <2>7. b[j].index # EMPTY /\ b[j].index > index => b[j].index \in index + 1 .. index + m
    BY <1>1, <1>2, <2>2, <2>3
  <2>8. EMPTY \notin index + 1 .. index + m
    BY <1>2 DEF EMPTY
  <2> HIDE DEF index, m
  <2> QED BY <2>2, <2>3, <2>4, <2>5, <2>6, <2>7, <2>8
<1>9. ASSUME NEW j \in 0 .. n - 1 PROVE shifted[j].index = EMPTY <=> b[j].index = EMPTY
  <2> DEFINE x == b[j].index
             y == shifted[j].index
  <2>1. /\ x \in Nat \cup {EMPTY} /\ (x = EMPTY => y = EMPTY)
        /\ (x # EMPTY => y = IF x > index THEN x - 1 ELSE x)
    BY <1>8
  <2>2. index \in Nat
    BY <1>2
  <2> HIDE DEF x, y, index
  <2>3. ASSUME x # EMPTY PROVE y # EMPTY
    <3>1. x \in Nat /\ y = IF x > index THEN x - 1 ELSE x
      BY <2>1, <2>3
    <3>2. y \in Nat
      BY <2>2, <3>1
    <3> QED BY <3>2 DEF EMPTY
  <2>4. y = EMPTY <=> x = EMPTY
    BY <2>1, <2>3
  <2> QED BY <2>4 DEF x, y
<1>10. Robin(n, shifted)
  <2>1. \A j \in 0 .. n - 1 : shifted[j].hash = b[j].hash
                              /\ (shifted[j].index = EMPTY <=> b[j].index = EMPTY)
    BY <1>7, <1>9
  <2> QED BY <1>1, <2>1, SameOrder
<1>11. /\ hole \in Array(n) /\ hole[i] = Vacant /\ hole[i].index = EMPTY
       /\ \A j \in 0 .. n - 1 : j # i => hole[j] = shifted[j]
  <2>1. Vacant \in Bucket
    BY DEF Vacant, Bucket
  <2> QED BY <1>7, <2>1 DEF Array, Vacant
<1>12. [hole EXCEPT ![i] = shifted[i]] = shifted
  BY <1>7 DEF Array
<1> HIDE DEF hole
<1>13. OneEach(n, hole)
  <2> SUFFICES ASSUME NEW j \in 0 .. n - 1, NEW k \in 0 .. n - 1,
                      hole[j].index # EMPTY, hole[j].index = hole[k].index
               PROVE  j = k
    BY DEF OneEach
  <2>1. j # i /\ k # i /\ hole[j] = shifted[j] /\ hole[k] = shifted[k]
    BY <1>11
  <2>2. b[j].index # EMPTY /\ b[k].index # EMPTY /\ b[j].index # index /\ b[k].index # index
    BY <1>8, <1>9, <2>1
  <2>3. b[j].index \in Nat /\ b[k].index \in Nat
    BY <1>8, <2>2
  <2>4. /\ hole[j].index = IF b[j].index > index THEN b[j].index - 1 ELSE b[j].index
        /\ hole[k].index = IF b[k].index > index THEN b[k].index - 1 ELSE b[k].index
    BY <1>8, <2>1, <2>2
  <2>5. b[j].index = b[k].index
    <3>1. index \in Nat
      BY <1>2
    <3> HIDE DEF index
    <3>2. CASE b[j].index > index /\ b[k].index > index
      <4>1. b[j].index - 1 = b[k].index - 1
        BY <2>4, <3>2
      <4> QED BY <2>3, <4>1
    <3>3. CASE b[j].index > index /\ ~ (b[k].index > index)
      <4>1. b[j].index - 1 = b[k].index
        BY <2>4, <3>3
      <4> QED BY <2>2, <2>3, <3>1, <3>3, <4>1
    <3>4. CASE ~ (b[j].index > index) /\ b[k].index > index
      <4>1. b[j].index = b[k].index - 1
        BY <2>4, <3>4
      <4> QED BY <2>2, <2>3, <3>1, <3>4, <4>1
    <3>5. CASE ~ (b[j].index > index) /\ ~ (b[k].index > index)
      BY <2>4, <3>5
    <3> QED BY <3>2, <3>3, <3>4, <3>5
  <2> QED BY <1>1, <2>2, <2>5 DEF OneEach
<1>14. n <= 2 \/ \E j \in 0 .. n - 1 : j # i /\ hole[j].index = EMPTY
  <2> SUFFICES ASSUME ~ (n <= 2) PROVE \E j \in 0 .. n - 1 : j # i /\ hole[j].index = EMPTY
    OBVIOUS
  <2>1. PICK j \in 0 .. n - 1 : b[j].index = EMPTY
    BY <1>1, TakenIs
  <2>2. j # i
    BY <2>1 DEF b
  <2> QED BY <1>9, <1>11, <2>1, <2>2
<1>15. /\ c \in Array(n) /\ Robin(n, c) /\ OneEach(n, c)
       /\ Contents(n, c) = Contents(n, hole)
  <2>1. shifted[i] \in Bucket
    BY <1>7 DEF Array
  <2> QED BY <1>10, <1>11, <1>12, <1>13, <1>14, <2>1, ShiftKeeps
<1> HIDE DEF c
<1>16. Distinct(values)
  <2> SUFFICES ASSUME NEW v \in 1 .. Len(values), NEW w \in 1 .. Len(values),
                      values[v].key = values[w].key
               PROVE  v = w
    BY DEF Distinct
  <2> DEFINE V(x) == IF x < p THEN x ELSE x + 1
  <2>1. /\ V(v) \in 1 .. Len(old) /\ V(w) \in 1 .. Len(old)
        /\ values[v] = old[V(v)] /\ values[w] = old[V(w)]
    BY <1>1, <1>2, <1>3
  <2>2. V(v) = V(w)
    <3> HIDE DEF V
    <3> QED BY <1>1, <2>1 DEF Distinct
  <2> QED BY <1>1, <1>2, <1>3, <2>2
<1>17. Contents(n, hole) \subseteq Files(values)
  <2> SUFFICES ASSUME NEW j \in 0 .. n - 1, hole[j].index # EMPTY PROVE hole[j] \in Files(values)
    BY DEF Contents
  <2>1. j # i /\ hole[j] = shifted[j] /\ b[j].index # EMPTY
    BY <1>9, <1>11
  <2> DEFINE v == hole[j].index + 1
  <2>2. /\ b[j].index \in Nat /\ b[j].index # index /\ b[j].index + 1 \in 1 .. Len(old)
        /\ hole[j].index = IF b[j].index > index THEN b[j].index - 1 ELSE b[j].index
        /\ hole[j].hash = Hash[old[b[j].index + 1].key]
    BY <1>7, <1>8, <2>1
  <2>3. v \in 1 .. Len(values) /\ values[v] = old[b[j].index + 1] /\ v - 1 = hole[j].index
    <3> DEFINE x == b[j].index
    <3>1. /\ index \in Nat /\ index < Len(old) /\ x \in Nat /\ x # index
          /\ x + 1 \in 1 .. Len(old) /\ p = index + 1
          /\ hole[j].index = IF x > index THEN x - 1 ELSE x
      BY <1>2, <2>2
    <3> HIDE DEF index, p, x, v
    <3>2. CASE x > index
      <4>1. v = x /\ v - 1 = hole[j].index
        BY <3>1, <3>2 DEF v
      <4>2. v \in 1 .. Len(old) - 1 /\ ~ (v < p)
        BY <1>1, <3>1, <3>2, <4>1
      <4> QED BY <1>3, <4>1, <4>2 DEF x
    <3>3. CASE ~ (x > index)
      <4>1. v = x + 1 /\ v - 1 = hole[j].index
        BY <3>1, <3>3 DEF v
      <4>2. v \in 1 .. Len(old) - 1 /\ v < p
        BY <1>1, <3>1, <3>3, <4>1
      <4> QED BY <1>3, <4>1, <4>2 DEF x
    <3> QED BY <3>2, <3>3
  <2>4. hole[j] \in Bucket
    BY <1>11 DEF Array
  <2>5. hole[j] = [index |-> v - 1, hash |-> Hash[values[v].key]]
    <3> HIDE DEF v
    <3> QED BY <2>2, <2>3, <2>4 DEF Bucket
  <2> HIDE DEF v
  <2> QED BY <2>3, <2>5 DEF Files, File
<1>18. Files(values) \subseteq Contents(n, hole)
  <2> SUFFICES ASSUME NEW v \in 1 .. Len(values) PROVE File(values, v) \in Contents(n, hole)
    BY DEF Files
  <2> DEFINE o == IF v < p THEN v ELSE v + 1
  <2>1. o \in 1 .. Len(old) /\ values[v] = old[o] /\ o # p /\ o \in Nat
    BY <1>1, <1>2, <1>3
  <2>2. v = IF o > p THEN o - 1 ELSE o
    BY <1>1, <1>2, <1>3
  <2> HIDE DEF o
  <2>3. PICK j \in 0 .. n - 1 : b[j].index # EMPTY /\ b[j].index + 1 = o
                                /\ b[j].hash = Hash[old[o].key]
    BY <1>1, <2>1, FiledAt
  <2>4. b[j].index \in Nat /\ b[j].index = o - 1
    BY <1>8, <2>1, <2>3
  <2>5. j # i /\ hole[j] = shifted[j] /\ hole[j].index # EMPTY
    BY <1>2, <1>8, <1>9, <1>11, <2>1, <2>3, <2>4
  <2>6. hole[j].index = v - 1
    <3>1. hole[j].index = IF b[j].index > index THEN b[j].index - 1 ELSE b[j].index
      BY <1>8, <2>3, <2>5
    <3> HIDE DEF index
    <3> QED BY <1>2, <2>1, <2>2, <2>4, <3>1
  <2>7. hole[j].hash = Hash[values[v].key] /\ hole[j] \in Bucket
    BY <1>7, <1>11, <2>1, <2>3, <2>5 DEF Array
  <2>8. hole[j] = File(values, v)
    BY <2>6, <2>7 DEF Bucket, File
  <2> QED BY <2>5, <2>8 DEF Contents
<1>19. Filed(n, c, values)
  BY <1>3, <1>15, <1>16, <1>17, <1>18 DEF Filed
<1>20. u \in Tables(n) /\ u.buckets = c /\ u.values = values /\ u.threshold = t.threshold
  BY <1>1, <1>3, <1>4, <1>15 DEF Tables
<1>21. Len(values) < n \/ n <= 2
  BY <1>1, <1>3
<1>22. Sound(n, u)
  BY <1>1, <1>19, <1>20, <1>21 DEF Sound
<1> QED BY <1>22 DEF u

-----------------------------------------------------------------------------
(* Rehashing                                                               *)

\* The sizes of intervals.
LEMMA IntervalIs ==
  ASSUME NEW n \in Nat
  PROVE  /\ IsFiniteSet(0 .. n - 1) /\ Cardinality(0 .. n - 1) = n
         /\ IsFiniteSet(1 .. n) /\ Cardinality(1 .. n) = n
<1>1. IsFiniteSet(0 .. n - 1) /\ Cardinality(0 .. n - 1) = n
  BY FS_Interval
<1>2. IsFiniteSet(1 .. n) /\ Cardinality(1 .. n) = n
  BY FS_Interval
<1> QED BY <1>1, <1>2

\* More buckets than values: one is empty.
LEMMA EmptyBucket ==
  ASSUME NEW n \in Nat, NEW c \in Array(n), OneEach(n, c),
         NEW values \in Seq(Entries), Contents(n, c) \subseteq Files(values),
         Len(values) < n
  PROVE  \E i \in 0 .. n - 1 : c[i].index = EMPTY
<1> SUFFICES ASSUME \A i \in 0 .. n - 1 : c[i].index # EMPTY PROVE FALSE
  OBVIOUS
<1> DEFINE m == Len(values)
           f == [i \in 0 .. n - 1 |-> c[i].index + 1]
<1>1. m \in Nat
  OBVIOUS
<1>2. ASSUME NEW i \in 0 .. n - 1 PROVE c[i].index \in Nat /\ c[i].index + 1 \in 1 .. m
  <2>1. PICK v \in 1 .. m : c[i] = [index |-> v - 1, hash |-> Hash[values[v].key]]
    BY DEF Contents, Files, File
  <2>2. c[i].index = v - 1
    BY <2>1
  <2> QED BY <1>1, <2>2
<1> HIDE DEF m
<1>5. f \in [0 .. n - 1 -> 1 .. m]
  BY <1>2
<1> HIDE DEF f
<1>3. IsFiniteSet(0 .. n - 1) /\ Cardinality(0 .. n - 1) = n
  BY IntervalIs
<1>4. IsFiniteSet(1 .. m) /\ Cardinality(1 .. m) = m
  BY <1>1, IntervalIs
<1>6. m < n
  BY DEF m
<1>7. PICK i \in 0 .. n - 1, j \in 0 .. n - 1 : i # j /\ f[i] = f[j]
  BY <1>1, <1>3, <1>4, <1>5, <1>6, FS_PigeonHole
<1>8. c[i].index = c[j].index
  BY <1>2, <1>7 DEF f
<1> QED BY <1>7, <1>8 DEF OneEach

\* An array of empty buckets.
LEMMA VacantIs ==
  ASSUME NEW n \in Nat
  PROVE  /\ VacantBuckets(n) \in Array(n)
         /\ Robin(n, VacantBuckets(n)) /\ OneEach(n, VacantBuckets(n))
         /\ Contents(n, VacantBuckets(n)) = {}
         /\ \A i \in 0 .. n - 1 : VacantBuckets(n)[i].index = EMPTY
<1>1. Vacant \in Bucket /\ Vacant.index = EMPTY
  BY DEF Vacant, Bucket
<1>2. \A i \in 0 .. n - 1 : VacantBuckets(n)[i] = Vacant
  BY DEF VacantBuckets
<1>3. VacantBuckets(n) \in Array(n)
  BY <1>1 DEF VacantBuckets, Array
<1> QED BY <1>1, <1>2, <1>3 DEF Robin, OneEach, Contents

\* The power of two is at least the number asked for.
LEMMA RoundedUp ==
  ASSUME NEW n \in Nat
  PROVE  RoundUpToPowerOfTwo(n) \in Nat \ {0} /\ RoundUpToPowerOfTwo(n) >= n
<1> DEFINE round == [x \in Nat \X (1 .. n) |-> 2 * x[1]]
           power == CHOOSE f : f = [i \in 0 .. n |-> IF i = 0 THEN 1 ELSE 2 * f[i - 1]]
<1>1. power = [i \in 0 .. n |-> IF i = 0 THEN 1 ELSE 2 * power[i - 1]]
  <2>1. Rounds(round, n, Nat)
    BY DEF Rounds
  <2>2. PICK f : RunOf(f, 1, round, n, Nat)
    <3> HIDE DEF round
    <3> QED BY <2>1, LoopRuns
  <2>3. f \in [0 .. n -> Nat]
    BY <2>2 DEF RunOf
  <2>4. ASSUME NEW i \in 0 .. n PROVE f[i] = IF i = 0 THEN 1 ELSE 2 * f[i - 1]
    <3>1. CASE i = 0
      BY <2>2, <3>1 DEF RunOf
    <3>2. CASE i # 0
      <4>1. <<f[i - 1], i>> \in Nat \X (1 .. n)
        BY <2>3, <3>2
      <4>2. round[<<f[i - 1], i>>] = 2 * f[i - 1]
        BY <4>1
      <4> QED BY <2>2, <3>2, <4>2 DEF RunOf
    <3> QED BY <3>1, <3>2
  <2>5. f = [i \in 0 .. n |-> IF i = 0 THEN 1 ELSE 2 * f[i - 1]]
    BY <2>3, <2>4
  <2> QED BY <2>5
<1> HIDE DEF power
<1> DEFINE T == {i \in 0 .. n : power[i] \in Nat /\ power[i] > i}
<1>2. 0 \in T
  BY <1>1
<1>3. ASSUME NEW i \in 1 .. n, i - 1 \in T PROVE i \in T
  <2>1. power[i] = 2 * power[i - 1]
    BY <1>1
  <2>2. power[i - 1] \in Nat /\ power[i - 1] > i - 1
    BY <1>3
  <2> QED BY <2>1, <2>2
<1>4. 0 .. n \subseteq T
  <2> HIDE DEF T
  <2> QED BY <1>2, <1>3, LoopInduction
<1> DEFINE P == {p \in {power[i] : i \in 0 .. n} : p >= n}
<1>5. P \subseteq Nat \ {0}
  BY <1>4
<1>6. power[n] \in P
  BY <1>4
<1>7. RoundUpToPowerOfTwo(n) = Min(P)
  BY DEF RoundUpToPowerOfTwo, power
<1>8. Min(P) \in P
  <2> HIDE DEF P
  <2>1. P \subseteq Nat /\ P # {}
    BY <1>5, <1>6
  <2> QED BY <2>1, MinIs
<1> QED BY <1>5, <1>7, <1>8

\* An entry of the old array put in the new one.
LEMMA Reinserts ==
  ASSUME NEW n \in Nat \ {0}, NEW c \in Array(n), Robin(n, c), OneEach(n, c),
         NEW e \in Bucket, e.index # EMPTY, Unused(n, c, e.index),
         \E j \in 0 .. n - 1 : c[j].index = EMPTY
  PROVE  /\ Reinserted(c, e) \in Array(n)
         /\ Robin(n, Reinserted(c, e)) /\ OneEach(n, Reinserted(c, e))
         /\ Contents(n, Reinserted(c, e)) = Contents(n, c) \cup {e}
<1> DEFINE i == e.hash % n
<1>1. e.hash \in Nat
  BY DEF Bucket
<1>2. i \in 0 .. n - 1 /\ BucketForHash(c, e.hash) = i
  <2>1. 0 \in 0 .. n - 1
    OBVIOUS
  <2> QED BY <1>1, <2>1, RingOf
<1>3. Distance(n, e, i) = 0
  BY <1>2 DEF Distance, Gap
<1>4. Follows(n, c, i, Distance(n, e, i))
  BY <1>3 DEF Follows
<1>5. Reinserted(c, e) = Placed(c, i, Distance(n, e, i), e).buckets
  BY <1>2, <1>3 DEF Reinserted
<1> HIDE DEF i
<1>6. Fits(n, c, i, e)
  BY <1>2, <1>4 DEF Fits
<1>7. PutIn(n, c, e, Reinserted(c, e))
  BY <1>5, <1>6, PlacedPutsIn
<1> QED BY <1>7 DEF PutIn

\* The entries of the first r buckets.
ContentsUpTo(b, r) == {b[i] : i \in {j \in 0 .. r - 1 : b[j].index # EMPTY}}

\* The arrays that rehash_impl() goes through.
RehashRun(n, b, m) ==
  CHOOSE f : f = [r \in 0 .. n |->
                    IF r = 0 THEN VacantBuckets(m) ELSE Reinserted(f[r - 1], b[r - 1])]

\* All the entries of an array put in a new one with room for them.
LEMMA ReinsertedAll ==
  ASSUME NEW n \in Nat, NEW b, NEW values, Filed(n, b, values),
         NEW m \in Nat, Len(values) < m \/ Len(values) = 0
  PROVE  Filed(m, RehashRun(n, b, m)[n], values)
<1> DEFINE S == Array(m)
           round == [x \in S \X (1 .. n) |->
                       IF Reinserted(x[1], b[x[2] - 1]) \in S THEN Reinserted(x[1], b[x[2] - 1])
                       ELSE x[1]]
           start == VacantBuckets(m)
           fresh == RehashRun(n, b, m)
           Inv(r, c) == /\ c \in S /\ Robin(m, c) /\ OneEach(m, c)
                        /\ Contents(m, c) = ContentsUpTo(b, r)
<1>1. /\ b \in Array(n) /\ OneEach(n, b) /\ values \in Seq(Entries) /\ Len(values) \in Nat
      /\ Distinct(values) /\ Contents(n, b) = Files(values)
  BY DEF Filed
<1>2. Inv(0, start)
  BY VacantIs DEF ContentsUpTo
<1>3. ASSUME NEW r \in 1 .. n, NEW c, Inv(r - 1, c) PROVE Inv(r, Reinserted(c, b[r - 1]))
  <2> DEFINE e == b[r - 1]
  <2>1. e \in Bucket /\ r - 1 \in 0 .. n - 1
    BY <1>1 DEF Array
  <2>2. CASE e.index = EMPTY
    <3>1. Reinserted(c, e) = c
      BY <2>2 DEF Reinserted
    <3>2. \A j \in Int : j \in 0 .. r - 1 <=> j \in 0 .. (r - 1) - 1 \/ j = r - 1
      BY <2>1
    <3>3. ContentsUpTo(b, r) = ContentsUpTo(b, r - 1)
      BY <2>1, <2>2, <3>2 DEF ContentsUpTo
    <3> QED BY <1>3, <3>1, <3>3
  <2>3. CASE e.index # EMPTY
    <3>1. ContentsUpTo(b, r - 1) \subseteq Files(values)
      BY <1>1, <2>1 DEF ContentsUpTo, Contents
    <3>2. Len(values) < m
      <4>1. e \in Files(values)
        BY <1>1, <2>1, <2>3 DEF Contents
      <4>2. PICK v \in 1 .. Len(values) : TRUE
        BY <4>1 DEF Files
      <4> QED BY <1>1, <4>2
    <3>3. \E j \in 0 .. m - 1 : c[j].index = EMPTY
      BY <1>1, <1>3, <3>1, <3>2, EmptyBucket
    <3>4. Unused(m, c, e.index)
      <4> SUFFICES ASSUME NEW j \in 0 .. m - 1, c[j].index = e.index PROVE FALSE
        BY DEF Unused
      <4>1. c[j] \in ContentsUpTo(b, r - 1)
        BY <1>3, <2>3 DEF Contents
      <4>2. PICK k \in 0 .. (r - 1) - 1 : b[k].index # EMPTY /\ c[j] = b[k]
        BY <4>1 DEF ContentsUpTo
      <4>3. k \in 0 .. n - 1 /\ k # r - 1
        BY <2>1
      <4> QED BY <1>1, <2>1, <4>2, <4>3 DEF OneEach
    <3>5. m \in Nat \ {0}
      BY <1>1, <3>2
    <3>6. /\ Reinserted(c, e) \in S /\ Robin(m, Reinserted(c, e)) /\ OneEach(m, Reinserted(c, e))
          /\ Contents(m, Reinserted(c, e)) = Contents(m, c) \cup {e}
      <4> HIDE DEF e
      <4> QED BY <1>3, <2>1, <2>3, <3>3, <3>4, <3>5, Reinserts
    <3>7. ContentsUpTo(b, r) = ContentsUpTo(b, r - 1) \cup {e}
      <4>1. \A j : j \in 0 .. r - 1 <=> j \in 0 .. (r - 1) - 1 \/ j = r - 1
        BY <2>1
      <4> QED BY <2>3, <4>1 DEF ContentsUpTo
    <3> QED BY <1>3, <3>6, <3>7
  <2> QED BY <2>2, <2>3
<1> HIDE DEF Inv
<1>4. \A r, c : Inv(r, c) => c \in S
  BY DEF Inv
<1>5. start \in S
  BY <1>2, <1>4
<1>6. Rounds(round, n, S)
  BY DEF Rounds
<1> HIDE DEF S, start
<1>7. PICK f : RunOf(f, start, round, n, S)
  <2> HIDE DEF round
  <2> QED BY <1>5, <1>6, LoopRuns
<1>8. f \in [0 .. n -> S] /\ f[0] = start
  <2> HIDE DEF round
  <2>1. f \in [0 .. n -> S]
    BY <1>7 DEF RunOf
  <2>2. \A i \in 0 .. n : f[i] = IF i = 0 THEN start ELSE round[<<f[i - 1], i>>]
    BY <1>7 DEF RunOf
  <2>3. 0 \in 0 .. n
    OBVIOUS
  <2>4. f[0] = start
    BY <2>2, <2>3
  <2> QED BY <2>1, <2>4
<1>9. ASSUME NEW r \in 1 .. n
      PROVE  f[r] = IF Reinserted(f[r - 1], b[r - 1]) \in S THEN Reinserted(f[r - 1], b[r - 1])
                    ELSE f[r - 1]
  <2>1. <<f[r - 1], r>> \in S \X (1 .. n)
    BY <1>8
  <2>2. f[r] = round[<<f[r - 1], r>>]
    <3> HIDE DEF round
    <3> QED BY <1>7 DEF RunOf
  <2> QED BY <2>1, <2>2
<1> DEFINE T == {r \in 0 .. n : Inv(r, f[r]) /\ (r # 0 => f[r] = Reinserted(f[r - 1], b[r - 1]))}
<1>10. 0 .. n \subseteq T
  <2>1. 0 \in T
    BY <1>2, <1>8
  <2>2. ASSUME NEW r \in 1 .. n, r - 1 \in T PROVE r \in T
    <3>1. Inv(r, Reinserted(f[r - 1], b[r - 1]))
      BY <1>3, <2>2
    <3> QED BY <1>4, <1>9, <3>1
  <2> HIDE DEF T
  <2> QED BY <2>1, <2>2, LoopInduction
<1>11. f = [r \in 0 .. n |-> IF r = 0 THEN start ELSE Reinserted(f[r - 1], b[r - 1])]
  <2>1. ASSUME NEW r \in 0 .. n PROVE f[r] = IF r = 0 THEN start ELSE Reinserted(f[r - 1], b[r - 1])
    BY <1>8, <1>10
  <2> QED BY <1>8, <2>1
<1>12. fresh = [r \in 0 .. n |-> IF r = 0 THEN start ELSE Reinserted(fresh[r - 1], b[r - 1])]
  BY <1>11 DEF start, RehashRun
<1> HIDE DEF fresh
<1> DEFINE U == {r \in 0 .. n : fresh[r] = f[r]}
<1>13. 0 .. n \subseteq U
  <2>1. 0 \in U
    BY <1>8, <1>12
  <2>2. ASSUME NEW r \in 1 .. n, r - 1 \in U PROVE r \in U
    <3>1. fresh[r] = Reinserted(fresh[r - 1], b[r - 1])
      BY <1>12
    <3>2. f[r] = Reinserted(f[r - 1], b[r - 1])
      BY <1>10
    <3> QED BY <2>2, <3>1, <3>2
  <2> HIDE DEF U
  <2> QED BY <2>1, <2>2, LoopInduction
<1>14. Inv(n, fresh[n])
  BY <1>10, <1>13
<1>15. ContentsUpTo(b, n) = Contents(n, b)
  BY DEF ContentsUpTo, Contents
<1> QED BY <1>1, <1>14, <1>15 DEF Inv, Filed, S, fresh

\* The threshold is below the number of buckets.
LEMMA ThresholdIs ==
  ASSUME NEW n \in Nat, NEW ml \in 1 .. 99
  PROVE  Threshold(n, ml) \in Nat /\ (Threshold(n, ml) < n \/ Threshold(n, ml) = 0)
<1> DEFINE x == n * ml
<1>1. x \in Nat /\ x <= 99 * n
  <2>1. (99 - ml) * n >= 0
    OBVIOUS
  <2>2. (99 - ml) * n = 99 * n - x
    OBVIOUS
  <2>3. x \in Nat
    OBVIOUS
  <2> QED BY <2>1, <2>2, <2>3
<1> HIDE DEF x
<1>2. x \div 100 \in Nat /\ (x \div 100 < n \/ x \div 100 = 0)
  BY <1>1
<1> QED BY <1>2 DEF Threshold, x

\* More buckets are asked for than there are values to hold.
LEMMA NeededIs ==
  ASSUME NEW t, t.maxLoad \in 1 .. 99, NEW size \in Nat
  PROVE  NeededFor(t, size) \in Nat /\ (size > 0 => NeededFor(t, size) > size)
<1> DEFINE ml == t.maxLoad
           x == size * 100 + ml - 1
           q == x \div ml
<1>1. ml \in 1 .. 99
  OBVIOUS
<1> HIDE DEF ml
<1>2. x \in Nat
  BY <1>1
<1> HIDE DEF x
<1>3. q \in Int /\ x % ml \in 0 .. ml - 1 /\ x = ml * q + (x % ml)
  BY <1>1, <1>2
<1> HIDE DEF q
<1>4. x < ml * q + ml
  BY <1>1, <1>2, <1>3
<1>5. q >= 0
  <2> SUFFICES ASSUME q <= -1 PROVE FALSE
    BY <1>3
  <2>1. ml * (-1 - q) >= 0
    BY <1>1, <1>3
  <2>2. ml * (-1 - q) = - ml - ml * q
    BY <1>1, <1>3
  <2>3. ml * q \in Int
    BY <1>1, <1>3
  <2> QED BY <1>1, <1>2, <1>4, <2>1, <2>2, <2>3
<1>6. ASSUME size > 0 PROVE q > size
  <2> SUFFICES ASSUME q <= size PROVE FALSE
    BY <1>3
  <2>1. ml * (size - q) >= 0
    BY <1>1, <1>3
  <2>2. ml * (size - q) = ml * size - ml * q
    BY <1>1, <1>3
  <2>3. (99 - ml) * size >= 0
    BY <1>1
  <2>4. (99 - ml) * size = 99 * size - ml * size
    BY <1>1
  <2>5. ml * q \in Int /\ ml * size \in Int
    BY <1>1, <1>3
  <2> QED BY <1>1, <1>2, <1>4, <1>6, <2>1, <2>2, <2>3, <2>4, <2>5 DEF x
<1>7. NeededFor(t, size) = q
  BY DEF NeededFor, CeilDiv, q, x, ml
<1> QED BY <1>3, <1>5, <1>6, <1>7

\* A table rehashed to more buckets than values holds what it held.
LEMMA RehashedToKeeps ==
  ASSUME NEW n \in Nat, NEW t, Sound(n, t),
         NEW count \in Nat, Len(t.values) < count \/ Len(t.values) = 0
  PROVE  LET m == IF count > 0 THEN RoundUpToPowerOfTwo(count) ELSE 0
             u == RehashedTo(t, count)
         IN  /\ m \in Nat /\ m >= count /\ Sound(m, u)
             /\ u.values = t.values /\ (n # m => u.grow = FALSE)
<1> DEFINE m == IF count > 0 THEN RoundUpToPowerOfTwo(count) ELSE 0
           u == RehashedTo(t, count)
           fresh == RehashRun(n, t.buckets, m)
<1>1. m \in Nat /\ m >= count
  BY RoundedUp
<1>2. /\ t \in Tables(n) /\ t.buckets \in Array(n) /\ t.values \in Seq(Entries)
      /\ Len(t.values) \in Nat /\ t.maxLoad \in 1 .. 99
      /\ BucketCount(t.buckets) = n
      /\ Filed(n, t.buckets, t.values)
  BY SoundIs DEF Sound
<1>3. u = IF n = m THEN t
          ELSE WithMaxLoad([t EXCEPT !.buckets = fresh[n], !.grow = FALSE], t.maxLoad)
  BY <1>2 DEF RehashedTo, RehashRun
<1> HIDE DEF m, u
<1>4. CASE n = m
  BY <1>1, <1>3, <1>4 DEF m, u
<1>5. CASE n # m
  <2>1. Len(t.values) < m \/ Len(t.values) = 0
    BY <1>1, <1>2
  <2>2. Filed(m, fresh[n], t.values)
    BY <1>1, <1>2, <2>1, ReinsertedAll
  <2> HIDE DEF fresh
  <2>3. fresh[n] \in Array(m)
    BY <2>2 DEF Filed
  <2>4. BucketCount(fresh[n]) = m
    BY <1>1, <2>3, CountIs
  <2> DEFINE v == [t EXCEPT !.buckets = fresh[n], !.grow = FALSE]
  <2>5. v \in Tables(m) /\ v.buckets = fresh[n] /\ v.values = t.values /\ v.grow = FALSE
    BY <1>2, <2>3 DEF Tables
  <2>6. u = [v EXCEPT !.maxLoad = t.maxLoad, !.threshold = Threshold(m, t.maxLoad)]
    <3>1. u = WithMaxLoad(v, t.maxLoad)
      BY <1>3, <1>5
    <3> HIDE DEF v
    <3> QED BY <2>4, <2>5, <3>1 DEF WithMaxLoad
  <2> HIDE DEF v
  <2> DEFINE th == Threshold(m, t.maxLoad)
  <2>7. th \in Nat /\ (th < m \/ th = 0)
    BY <1>1, <1>2, ThresholdIs
  <2> HIDE DEF th
  <2>8. /\ u \in Tables(m) /\ u.buckets = fresh[n] /\ u.values = t.values /\ u.grow = FALSE
        /\ u.threshold = th
    BY <1>2, <2>5, <2>6, <2>7 DEF Tables, th
  <2>9. Len(t.values) < m \/ m <= 2
    BY <1>1, <1>2, <2>1
  <2>10. Sound(m, u)
    BY <2>2, <2>7, <2>8, <2>9 DEF Sound
  <2> QED BY <1>1, <2>8, <2>10 DEF m, u
<1> QED BY <1>4, <1>5

\* rehash() and reserve().
LEMMA RehashedKeeps ==
  ASSUME NEW n \in Nat, NEW t, Sound(n, t), NEW count \in Nat
  PROVE  /\ \E m \in Nat : Sound(m, Rehashed(t, count)) /\ Rehashed(t, count).values = t.values
         /\ \E m \in Nat : Sound(m, Reserved(t, count)) /\ Reserved(t, count).values = t.values
<1>1. t.maxLoad \in 1 .. 99 /\ Len(t.values) \in Nat
  BY SoundIs
<1>2. ASSUME NEW c \in Nat
      PROVE  \E m \in Nat : Sound(m, Rehashed(t, c)) /\ Rehashed(t, c).values = t.values
  <2> DEFINE x == NeededFor(t, Len(t.values))
             y == Max({c, x})
  <2>1. x \in Nat /\ (Len(t.values) > 0 => x > Len(t.values))
    BY <1>1, NeededIs
  <2> HIDE DEF x
  <2>2. y \in Nat /\ y >= x
    BY <2>1, MaxIs
  <2>3. Len(t.values) < y \/ Len(t.values) = 0
    BY <1>1, <2>1, <2>2
  <2>4. Rehashed(t, c) = RehashedTo(t, y)
    BY DEF Rehashed, x
  <2> HIDE DEF y
  <2> DEFINE m == IF y > 0 THEN RoundUpToPowerOfTwo(y) ELSE 0
  <2>5. m \in Nat /\ Sound(m, RehashedTo(t, y)) /\ RehashedTo(t, y).values = t.values
    BY <2>2, <2>3, RehashedToKeeps
  <2> HIDE DEF m
  <2> QED BY <2>4, <2>5
<1>3. NeededFor(t, count) \in Nat
  BY <1>1, NeededIs
<1> QED BY <1>2, <1>3 DEF Reserved

\* A table that grows has more than twice as much room as it needs.
LEMMA GrownKeeps ==
  ASSUME NEW n \in Nat, NEW t, Sound(n, t)
  PROVE  LET u == GrownOnHighLoad(t) IN
         /\ u.values = t.values
         /\ ~ MustGrow(t) => u = t /\ Len(t.values) + 1 < n
         /\ MustGrow(t) => \E m \in Nat \ {0} : /\ Sound(m, u) /\ Len(t.values) < m
                                                /\ Len(t.values) + 1 < m \/ m <= 2
<1> DEFINE u == GrownOnHighLoad(t)
           len == Len(t.values)
<1>1. /\ t \in Tables(n) /\ Len(t.values) \in Nat /\ Len(t.values) <= n
      /\ t.threshold \in Nat /\ t.grow \in BOOLEAN
      /\ BucketCount(t.buckets) = n
      /\ (t.threshold < n \/ t.threshold = 0)
  BY SoundIs DEF Sound
<1>2. CASE ~ MustGrow(t)
  <2>1. u = t
    BY <1>2 DEF GrownOnHighLoad
  <2>2. Len(t.values) < t.threshold
    BY <1>1, <1>2 DEF MustGrow
  <2> QED BY <1>1, <1>2, <2>1, <2>2
<1>3. CASE MustGrow(t)
  <2> DEFINE count == Max({1, 2 * n})
             m == RoundUpToPowerOfTwo(count)
             v == RehashedTo(t, count)
  <2>1. count \in Nat /\ count >= 1 /\ count >= 2 * n
    BY MaxIs
  <2>2. u = [v EXCEPT !.grow = FALSE]
    BY <1>1, <1>3 DEF GrownOnHighLoad
  <2> HIDE DEF count
  <2>3. Len(t.values) < count
    BY <1>1, <2>1
  <2>4. m \in Nat \ {0} /\ m >= count /\ Sound(m, v) /\ v.values = t.values
    <3> DEFINE k == IF count > 0 THEN RoundUpToPowerOfTwo(count) ELSE 0
    <3>1. k \in Nat /\ k >= count /\ Sound(k, v) /\ v.values = t.values
      BY <2>1, <2>3, RehashedToKeeps
    <3>2. k = m
      BY <2>1
    <3> HIDE DEF k, m, v
    <3> QED BY <2>1, <3>1, <3>2
  <2> HIDE DEF m, v
  <2>5. v \in Tables(m) /\ v.grow \in BOOLEAN
    BY <2>4, SoundIs
  <2>6. /\ u \in Tables(m) /\ u.buckets = v.buckets /\ u.values = v.values
        /\ u.threshold = v.threshold
    BY <2>2, <2>5 DEF Tables
  <2> HIDE DEF u
  <2>7. Sound(m, u)
    BY <2>4, <2>6 DEF Sound
  <2>8. Len(t.values) < m /\ (Len(t.values) + 1 < m \/ m <= 2)
    BY <1>1, <2>1, <2>4
  <2> QED BY <1>3, <2>4, <2>6, <2>7, <2>8 DEF u
<1> QED BY <1>2, <1>3

-----------------------------------------------------------------------------
(* Inserting                                                               *)

\* The key is held.
Holds(values, k) == \E v \in 1 .. Len(values) : values[v].key = k

\* The entry of a new value.
LEMMA FilesAppended ==
  ASSUME NEW values \in Seq(Entries), NEW e \in Entries
  PROVE  LET new == Append(values, e)
             entry == [index |-> Len(values), hash |-> Hash[e.key]]
         IN  /\ new \in Seq(Entries) /\ Len(new) = Len(values) + 1 /\ Len(values) \in Nat
             /\ \A v \in 1 .. Len(values) : new[v] = values[v]
             /\ new[Len(values) + 1] = e
             /\ Files(new) = Files(values) \cup {entry}
             /\ Distinct(values) /\ ~ Holds(values, e.key) => Distinct(new)
<1> DEFINE new == Append(values, e)
           entry == [index |-> Len(values), hash |-> Hash[e.key]]
           n == Len(values)
<1>1. /\ new \in Seq(Entries) /\ Len(new) = n + 1 /\ n \in Nat
      /\ \A v \in 1 .. n : new[v] = values[v]
      /\ new[n + 1] = e
  BY AppendProperties
<1> HIDE DEF new
<1>2. Files(new) = Files(values) \cup {entry}
  <2>1. \A v \in 1 .. n : File(new, v) = File(values, v)
    BY <1>1 DEF File
  <2>2. File(new, n + 1) = entry
    <3>1. (n + 1) - 1 = n
      BY <1>1
    <3> QED BY <1>1, <3>1 DEF File
  <2>3. \A v \in 1 .. n + 1 : v \in 1 .. n \/ v = n + 1
    BY <1>1
  <2>4. n + 1 \in 1 .. n + 1 /\ \A v \in 1 .. n : v \in 1 .. n + 1
    BY <1>1
  <2> HIDE DEF n, entry
  <2>5. Files(new) = {File(new, v) : v \in 1 .. n + 1} /\ Files(values) = {File(values, v) : v \in 1 .. n}
    BY <1>1 DEF Files, n
  <2> QED BY <2>1, <2>2, <2>3, <2>4, <2>5
<1>3. ASSUME Distinct(values), ~ Holds(values, e.key) PROVE Distinct(new)
  <2> SUFFICES ASSUME NEW v \in 1 .. Len(new), NEW w \in 1 .. Len(new),
                      new[v].key = new[w].key
               PROVE  v = w
    BY DEF Distinct
  <2>1. CASE v \in 1 .. n /\ w \in 1 .. n
    BY <1>1, <1>3, <2>1 DEF Distinct
  <2>2. CASE v \in 1 .. n /\ w = n + 1
    BY <1>1, <1>3, <2>2 DEF Holds
  <2>3. CASE v = n + 1 /\ w \in 1 .. n
    BY <1>1, <1>3, <2>3 DEF Holds
  <2>4. CASE v = n + 1 /\ w = n + 1
    BY <2>4
  <2> QED BY <1>1, <2>1, <2>2, <2>3, <2>4
<1> QED BY <1>1, <1>2, <1>3 DEF new

\* insert_index() for a new value at the end.
LEMMA WithIndexKeeps ==
  ASSUME NEW n \in Nat \ {0}, NEW t, Sound(n, t), NEW e \in Entries,
         ~ Holds(t.values, e.key), NEW d \in 0 .. n - 1,
         Follows(n, t.buckets, Ahead(n, Hash[e.key] % n, d), d),
         Len(t.values) < n, Len(t.values) + 1 < n \/ n <= 2
  PROVE  LET u == WithIndex([t EXCEPT !.values = Append(t.values, e)], e.key, d, Len(t.values))
         IN  Sound(n, u) /\ u.values = Append(t.values, e)
<1> DEFINE b == t.buckets
           old == t.values
           new == Append(old, e)
           s == [t EXCEPT !.values = new]
           a == Hash[e.key] % n
           i == Ahead(n, a, d)
           entry == [index |-> Len(old), hash |-> Hash[e.key]]
           walk == Placed(b, Probed(b, Hash[e.key], d), d, entry)
           u == WithIndex(s, e.key, d, Len(old))
<1>1. /\ t \in Tables(n) /\ Filed(n, b, old) /\ b \in Array(n) /\ old \in Seq(Entries)
      /\ Robin(n, b) /\ OneEach(n, b) /\ Distinct(old) /\ Contents(n, b) = Files(old)
      /\ (t.threshold < n \/ t.threshold = 0)
  BY DEF Sound, Filed
<1>2. e.key \in Keys /\ Hash[e.key] \in Nat /\ a \in 0 .. n - 1
  BY EntriesAssumption, HashAssumption, ProbedIs
<1>3. /\ new \in Seq(Entries) /\ Len(new) = Len(old) + 1 /\ Len(old) \in Nat
      /\ Files(new) = Files(old) \cup {entry} /\ Distinct(new)
  BY <1>1, FilesAppended
<1>4. entry \in Bucket /\ entry.index # EMPTY
  BY <1>2, <1>3 DEF Bucket, EMPTY
<1>5. i \in 0 .. n - 1 /\ Probed(b, Hash[e.key], d) = i /\ Distance(n, entry, i) = d
  <2>1. 0 \in 0 .. n - 1 /\ d \in 0 .. n
    OBVIOUS
  <2>2. Probed(b, Hash[e.key], d) = i
    BY <1>1, <1>2, <2>1, RingOf
  <2>3. Distance(n, entry, i) = Gap(n, a, i)
    BY DEF Distance
  <2> HIDE DEF a
  <2>4. i \in 0 .. n - 1 /\ Gap(n, a, i) = d
    BY <1>2 DEF Ahead, Gap
  <2> QED BY <2>2, <2>3, <2>4
<1>6. Unused(n, b, entry.index)
  <2> SUFFICES ASSUME NEW j \in 0 .. n - 1, b[j].index = Len(old) PROVE FALSE
    BY DEF Unused
  <2>1. b[j].index + 1 \in 1 .. Len(old)
    BY <1>1, <1>3, <1>4, FiledAt
  <2> QED BY <1>3, <2>1
<1>7. \E j \in 0 .. n - 1 : b[j].index = EMPTY
  BY <1>1, TakenIs
<1> DEFINE c == walk.buckets
<1>8. /\ c \in Array(n) /\ Robin(n, c) /\ OneEach(n, c)
      /\ Contents(n, c) = Contents(n, b) \cup {entry}
  <2>1. Follows(n, b, i, Distance(n, entry, i))
    BY <1>5
  <2>2. walk = Placed(b, i, Distance(n, entry, i), entry)
    BY <1>5
  <2>3. b \in Array(n) /\ Robin(n, b) /\ OneEach(n, b)
    BY <1>1
  <2> HIDE DEF i, entry, walk, b, c
  <2>4. Fits(n, b, i, entry)
    <3>1. entry \in Bucket /\ entry.index # EMPTY /\ Unused(n, b, entry.index)
      BY <1>4, <1>6
    <3>2. i \in 0 .. n - 1
      BY <1>5
    <3> QED BY <1>7, <2>1, <2>3, <3>1, <3>2 DEF Fits
  <2>5. PutIn(n, b, entry, walk.buckets)
    BY <2>2, <2>4, PlacedPutsIn
  <2> QED BY <2>5 DEF PutIn, c
<1>9. Filed(n, c, new)
  BY <1>1, <1>3, <1>8 DEF Filed
<1>10. s \in Tables(n) /\ s.buckets = b /\ s.values = new /\ s.threshold = t.threshold
  BY <1>1, <1>3 DEF Tables
<1> DEFINE grow == \/ s.grow
                   \/ /\ walk.probes > NProbes
                      /\ 100 * Len(s.values) >= MinLoadFactorToGrow * BucketCount(s.buckets)
<1>11. u = [s EXCEPT !.buckets = c, !.grow = grow]
  <2> HIDE DEF s
  <2> QED BY <1>10 DEF WithIndex
<1>12. grow \in BOOLEAN
  OBVIOUS
<1> HIDE DEF grow, c, s, new
<1>13. u \in Tables(n) /\ u.buckets = c /\ u.values = new /\ u.threshold = t.threshold
  BY <1>8, <1>10, <1>11, <1>12 DEF Tables
<1>14. Len(new) < n \/ n <= 2
  BY <1>3
<1>15. Sound(n, u)
  BY <1>1, <1>9, <1>13, <1>14 DEF Sound
<1> QED BY <1>13, <1>15 DEF s, new

\* insert_impl() keeps a table sound, and adds a value only for a new key.
LEMMA InsertedKeeps ==
  ASSUME NEW n \in Nat, NEW t, Sound(n, t), NEW e \in Entries
  PROVE  LET u == Inserted(t, e) IN
         /\ \E m \in Nat \ {0} : Sound(m, u)
         /\ u.values = IF Holds(t.values, e.key) THEN t.values ELSE Append(t.values, e)
<1> DEFINE u == Inserted(t, e)
           b == t.buckets
           old == t.values
           len == Len(t.values)
           k == e.key
           d == InsertDistance(t, k)
           g == GrownOnHighLoad(t)
           s == [g EXCEPT !.values = SubSeq(@, 1, len) \o <<e>> \o SubSeq(@, len + 1, len)]
<1>1. /\ t \in Tables(n) /\ Filed(n, b, old) /\ b \in Array(n) /\ old \in Seq(Entries)
      /\ len \in Nat /\ len <= n /\ (b = <<>> <=> n = 0) /\ t.threshold \in Nat
      /\ (t.threshold < n \/ t.threshold = 0)
  BY SoundIs DEF Sound
<1>2. k \in Keys /\ Hash[k] \in Nat
  BY EntriesAssumption, HashAssumption
<1>3. u = IF MetAt(t, k, d) THEN t
          ELSE WithIndex(s, k, IF MustGrow(t) THEN 0 ELSE d, len)
  BY DEF Inserted, InsertedAt
<1>4. CASE Holds(old, k)
  <2>1. n # 0
    BY <1>1, <1>4 DEF Holds
  <2>2. PICK v \in 1 .. len : old[v].key = k
    BY <1>4 DEF Holds
  <2>3. MetAt(t, k, d)
    BY <1>1, <1>2, <2>1, <2>2, HeldIsMet
  <2> HIDE DEF u, d
  <2> QED BY <1>3, <1>4, <2>1, <2>3 DEF u
<1>5. CASE ~ Holds(old, k)
  <2>1. ~ MetAt(t, k, d)
    <3>1. CASE n = 0
      BY <1>1, <3>1 DEF MetAt
    <3>2. CASE n # 0
      BY <1>1, <1>2, <1>5, <3>2, UnheldIsNotMet DEF Holds
    <3> QED BY <3>1, <3>2
  <2>2. /\ g.values = old
        /\ ~ MustGrow(t) => g = t /\ len + 1 < n
        /\ MustGrow(t) => \E m \in Nat \ {0} : Sound(m, g) /\ len < m /\ (len + 1 < m \/ m <= 2)
    BY GrownKeeps
  <2> HIDE DEF g
  <2>3. SubSeq(old, 1, len) \o <<e>> \o SubSeq(old, len + 1, len) = Append(old, e)
    <3>1. SubSeq(old, 1, len) = old
      BY <1>1, SubSeqFull
    <3>2. SubSeq(old, len + 1, len) = <<>>
      BY <1>1, SubSeqEmpty
    <3>3. Append(old, e) = old \o <<e>> /\ Append(old, e) \in Seq(Entries)
      BY <1>1, AppendIsConcat, AppendProperties
    <3>4. Append(old, e) \o <<>> = Append(old, e)
      BY <3>3, ConcatEmptySeq
    <3> QED BY <3>1, <3>2, <3>3, <3>4
  <2>4. s = [g EXCEPT !.values = Append(g.values, e)]
    BY <2>2, <2>3
  <2>5. CASE MustGrow(t)
    <3>1. PICK m \in Nat \ {0} : Sound(m, g) /\ len < m /\ (len + 1 < m \/ m <= 2)
      BY <2>2, <2>5
    <3>2. Follows(m, g.buckets, Ahead(m, Hash[k] % m, 0), 0)
      BY DEF Follows
    <3>3. u = WithIndex([g EXCEPT !.values = Append(g.values, e)], k, 0, Len(g.values))
      BY <1>3, <2>1, <2>2, <2>4, <2>5
    <3>4. 0 \in 0 .. m - 1
      OBVIOUS
    <3> HIDE DEF u
    <3>5. Sound(m, u) /\ u.values = Append(g.values, e)
      BY <1>5, <2>2, <3>1, <3>2, <3>3, <3>4, WithIndexKeeps
    <3> QED BY <1>5, <2>2, <3>5 DEF u
  <2>6. CASE ~ MustGrow(t)
    <3>1. g = t /\ len + 1 < n /\ n \in Nat \ {0}
      BY <1>1, <2>2, <2>6
    <3> DEFINE At(x) == Ahead(n, Hash[k] % n, x)
    <3>2. /\ d \in 0 .. n
          /\ \A x \in 0 .. d - 1 : b[At(x)].index # EMPTY /\ x <= Distance(n, b[At(x)], At(x))
      BY <1>1, <1>2, <1>5, <3>1, UnheldIsNotMet DEF Holds
    <3>3. Hash[k] % n \in 0 .. n - 1
      BY <1>2, <3>1, ProbedIs
    <3>4. d \in 0 .. n - 1
      <4>1. PICK j \in 0 .. n - 1 : b[j].index = EMPTY
        <5>1. Filed(n, b, old) /\ Len(old) < n
          BY <1>1, <3>1
        <5> HIDE DEF b, old
        <5> QED BY <5>1, TakenIs
      <4>2. Gap(n, Hash[k] % n, j) \in 0 .. n - 1 /\ At(Gap(n, Hash[k] % n, j)) = j
        BY <3>1, <3>3 DEF Gap, Ahead
      <4> HIDE DEF At, d
      <4> QED BY <3>1, <3>2, <4>1, <4>2
    <3>5. Follows(n, b, At(d), d)
      <4> SUFFICES ASSUME d > 0
                   PROVE  /\ b[Behind(n, At(d), 1)].index # EMPTY
                          /\ Distance(n, b[Behind(n, At(d), 1)], Behind(n, At(d), 1)) >= d - 1
        BY DEF Follows
      <4> HIDE DEF d
      <4>1. Behind(n, At(d), 1) = At(d - 1) /\ d - 1 \in 0 .. d - 1 /\ At(d - 1) \in 0 .. n - 1
        BY <3>1, <3>3, <3>4 DEF Behind, Ahead
      <4>2. Distance(n, b[At(d - 1)], At(d - 1)) \in 0 .. n - 1
        BY <1>1, <3>1, <4>1, RingOf, DistanceIn
      <4> HIDE DEF At
      <4>3. b[At(d - 1)].index # EMPTY /\ d - 1 <= Distance(n, b[At(d - 1)], At(d - 1))
        BY <3>2, <4>1
      <4> QED BY <3>4, <4>1, <4>2, <4>3
    <3>6. u = WithIndex([t EXCEPT !.values = Append(t.values, e)], k, d, Len(t.values))
      BY <1>3, <2>1, <2>4, <2>6, <3>1
    <3> HIDE DEF u, d
    <3>7. len < n
      BY <1>1, <3>1
    <3>8. Sound(n, u) /\ u.values = Append(t.values, e)
      BY <1>5, <3>1, <3>4, <3>5, <3>6, <3>7, WithIndexKeeps
    <3> QED BY <1>5, <3>1, <3>8 DEF u
  <2> QED BY <2>5, <2>6
<1> QED BY <1>4, <1>5

-----------------------------------------------------------------------------
(* The other operations                                                    *)

\* What FindKey() gives.
LEMMA FindKeyIs ==
  ASSUME NEW n \in Nat, NEW t, Sound(n, t), NEW k \in Keys
  PROVE  /\ ~ Holds(t.values, k) => FindKey(t, k) = NoBucket
         /\ \A v \in 1 .. Len(t.values) : t.values[v].key = k =>
              /\ n # 0 /\ FindKey(t, k) \in 0 .. n - 1
              /\ t.buckets[FindKey(t, k)].index = v - 1
<1>1. /\ Filed(n, t.buckets, t.values) /\ Len(t.values) \in Nat /\ Len(t.values) <= n
      /\ (t.buckets = <<>> <=> n = 0)
  BY SoundIs DEF Sound
<1>2. ASSUME ~ Holds(t.values, k) PROVE FindKey(t, k) = NoBucket
  <2>1. CASE n = 0
    BY <1>1, <2>1 DEF FindKey
  <2>2. CASE n # 0
    BY <1>1, <1>2, <2>2, UnheldIsNotMet DEF Holds
  <2> QED BY <2>1, <2>2
<1>3. ASSUME NEW v \in 1 .. Len(t.values), t.values[v].key = k
      PROVE  n # 0 /\ FindKey(t, k) \in 0 .. n - 1 /\ t.buckets[FindKey(t, k)].index = v - 1
  <2>1. n \in Nat \ {0}
    BY <1>1
  <2> QED BY <1>1, <1>3, <2>1, HeldIsMet
<1> QED BY <1>2, <1>3

\* erase().
LEMMA ErasedKeySound ==
  ASSUME NEW n \in Nat, NEW t, Sound(n, t), NEW k \in Keys
  PROVE  Sound(n, Erased(t, k))
<1> DEFINE i == FindKey(t, k)
<1>1. Len(t.values) \in Nat
  BY SoundIs
<1>2. CASE ~ Holds(t.values, k)
  <2>1. Erased(t, k) = t
    BY <1>2, FindKeyIs DEF Erased
  <2> QED BY <2>1
<1>3. CASE Holds(t.values, k)
  <2>1. PICK v \in 1 .. Len(t.values) : t.values[v].key = k
    BY <1>3 DEF Holds
  <2>2. n \in Nat \ {0} /\ i \in 0 .. n - 1 /\ t.buckets[i].index = v - 1
    BY <2>1, FindKeyIs
  <2>3. t.buckets[i].index # EMPTY /\ i # NoBucket
    BY <1>1, <2>2 DEF EMPTY, NoBucket
  <2>4. Erased(t, k) = ErasedBucket(t, i)
    BY <2>3 DEF Erased
  <2> HIDE DEF i
  <2> QED BY <2>2, <2>3, <2>4, ErasedKeeps
<1> QED BY <1>2, <1>3

\* Two values change places, and the indices of their buckets with them.
LEMMA SwappedKeeps ==
  ASSUME NEW n \in Nat \ {0}, NEW t, Sound(n, t),
         NEW p \in 1 .. Len(t.values), NEW q \in 1 .. Len(t.values), p # q,
         NEW i \in 0 .. n - 1, t.buckets[i].index = p - 1,
         NEW j \in 0 .. n - 1, t.buckets[j].index = q - 1
  PROVE  Sound(n, [t EXCEPT
            !.values = [@ EXCEPT ![p] = t.values[q], ![q] = t.values[p]],
            !.buckets = [@ EXCEPT ![i].index = q - 1, ![j].index = p - 1]])
<1> DEFINE b == t.buckets
           old == t.values
           new == [old EXCEPT ![p] = old[q], ![q] = old[p]]
           c == [b EXCEPT ![i].index = q - 1, ![j].index = p - 1]
           u == [t EXCEPT !.values = new, !.buckets = c]
<1>1. /\ t \in Tables(n) /\ b \in Array(n) /\ old \in Seq(Entries) /\ Len(old) \in Nat
      /\ Filed(n, b, old) /\ Distinct(old) /\ Robin(n, b) /\ OneEach(n, b)
      /\ (Len(old) < n \/ n <= 2) /\ (t.threshold < n \/ t.threshold = 0)
  BY SoundIs DEF Sound, Filed
<1>2. i # j /\ b[i].index = p - 1 /\ b[j].index = q - 1 /\ p - 1 \in Nat /\ q - 1 \in Nat
  BY <1>1
<1>3. /\ new \in Seq(Entries) /\ Len(new) = Len(old)
      /\ \A v \in 1 .. Len(old) : new[v] = IF v = p THEN old[q] ELSE IF v = q THEN old[p] ELSE old[v]
  <2> DEFINE x == [old EXCEPT ![p] = old[q]]
  <2>1. old[p] \in Entries /\ old[q] \in Entries
    BY <1>1, ElementOfSeq
  <2>2. /\ x \in Seq(Entries) /\ Len(x) = Len(old)
        /\ \A v \in 1 .. Len(old) : x[v] = IF v = p THEN old[q] ELSE old[v]
    BY <1>1, <2>1, ExceptSeq
  <2> HIDE DEF x
  <2>3. /\ [x EXCEPT ![q] = old[p]] \in Seq(Entries) /\ Len([x EXCEPT ![q] = old[p]]) = Len(x)
        /\ \A v \in 1 .. Len(x) : [x EXCEPT ![q] = old[p]][v] = IF v = q THEN old[p] ELSE x[v]
    BY <2>1, <2>2, ExceptSeq
  <2>4. new = [x EXCEPT ![q] = old[p]]
    BY <1>1 DEF x
  <2> HIDE DEF new
  <2> QED BY <2>2, <2>3, <2>4
<1>4. /\ c \in Array(n)
      /\ \A l \in 0 .. n - 1 :
           /\ c[l].hash = b[l].hash
           /\ c[l].index = IF l = i THEN q - 1 ELSE IF l = j THEN p - 1 ELSE b[l].index
  <2>1. \A l \in 0 .. n - 1 : b[l] \in Bucket
    BY <1>1 DEF Array
  <2>2. c = [l \in 0 .. n - 1 |-> IF l = i THEN [b[l] EXCEPT !.index = q - 1]
                                  ELSE IF l = j THEN [b[l] EXCEPT !.index = p - 1] ELSE b[l]]
    <3> DEFINE x == [b EXCEPT ![i].index = q - 1]
    <3>1. b = [l \in 0 .. n - 1 |-> b[l]]
      BY <1>1 DEF Array
    <3> HIDE DEF b
    <3>2. x = [l \in 0 .. n - 1 |-> IF l = i THEN [b[l] EXCEPT !.index = q - 1] ELSE b[l]]
      BY <3>1
    <3>3. c = [x EXCEPT ![j].index = p - 1]
      OBVIOUS
    <3> HIDE DEF x
    <3>4. [x EXCEPT ![j].index = p - 1] =
            [l \in 0 .. n - 1 |-> IF l = j THEN [x[l] EXCEPT !.index = p - 1] ELSE x[l]]
      BY <3>2
    <3>5. \A l \in 0 .. n - 1 :
            (IF l = j THEN [x[l] EXCEPT !.index = p - 1] ELSE x[l])
              = IF l = i THEN [b[l] EXCEPT !.index = q - 1]
                ELSE IF l = j THEN [b[l] EXCEPT !.index = p - 1] ELSE b[l]
      BY <1>2, <3>2
    <3> HIDE DEF c
    <3> QED BY <3>3, <3>4, <3>5
  <2>3. \A l \in 0 .. n - 1 : /\ [b[l] EXCEPT !.index = q - 1] \in Bucket
                              /\ [b[l] EXCEPT !.index = p - 1] \in Bucket
    BY <1>2, <2>1 DEF Bucket
  <2> HIDE DEF c
  <2>4. c \in Array(n)
    BY <2>1, <2>2, <2>3 DEF Array
  <2>5. \A l \in 0 .. n - 1 :
           /\ c[l].hash = b[l].hash
           /\ c[l].index = IF l = i THEN q - 1 ELSE IF l = j THEN p - 1 ELSE b[l].index
    BY <2>1, <2>2 DEF Bucket
  <2> QED BY <2>4, <2>5
<1> HIDE DEF new, c, b, old
<1>5. Distinct(new)
  <2> SUFFICES ASSUME NEW v \in 1 .. Len(new), NEW w \in 1 .. Len(new), new[v].key = new[w].key
               PROVE  v = w
    BY DEF Distinct
  <2> DEFINE V(x) == IF x = p THEN q ELSE IF x = q THEN p ELSE x
  <2>1. /\ V(v) \in 1 .. Len(old) /\ V(w) \in 1 .. Len(old)
        /\ new[v] = old[V(v)] /\ new[w] = old[V(w)]
    BY <1>3 DEF old
  <2>2. V(v) = V(w)
    <3> HIDE DEF V
    <3> QED BY <1>1, <2>1 DEF Distinct
  <2> QED BY <2>2
<1>6. \A l \in 0 .. n - 1 : c[l].index = EMPTY <=> b[l].index = EMPTY
  BY <1>2, <1>4 DEF EMPTY
<1>7. Robin(n, c)
  BY <1>1, <1>4, <1>6, SameOrder
<1>8. OneEach(n, c)
  <2> SUFFICES ASSUME NEW x \in 0 .. n - 1, NEW y \in 0 .. n - 1,
                      c[x].index # EMPTY, c[x].index = c[y].index
               PROVE  x = y
    BY DEF OneEach
  <2>1. b[x].index # EMPTY /\ b[y].index # EMPTY
    BY <1>6
  <2> QED BY <1>1, <1>2, <1>4, <2>1 DEF OneEach
<1> DEFINE W(l) == IF l = i THEN q ELSE IF l = j THEN p ELSE b[l].index + 1
<1>9. ASSUME NEW l \in 0 .. n - 1, b[l].index # EMPTY
      PROVE  W(l) \in 1 .. Len(old) /\ c[l] = File(new, W(l))
  <2>1. /\ b[l].index + 1 \in 1 .. Len(old)
        /\ b[l].hash = Hash[old[b[l].index + 1].key]
    BY <1>1, <1>9, FiledAt
  <2>2. b[l].index \in Nat
    <3>1. b[l].index \in Nat \cup {EMPTY}
      BY <1>1, RingOf
    <3> QED BY <1>9, <3>1
  <2>3. c[l] \in Bucket
    BY <1>4 DEF Array
  <2>4. W(l) \in 1 .. Len(old) /\ c[l].index = W(l) - 1
    <3>1. CASE l = i
      <4>1. W(l) = q
        BY <3>1
      <4> QED BY <1>4, <3>1, <4>1 DEF old
    <3>2. CASE l # i /\ l = j
      <4>1. W(l) = p
        BY <3>2
      <4> QED BY <1>4, <3>2, <4>1 DEF old
    <3>3. CASE l # i /\ l # j
      <4>1. W(l) = b[l].index + 1 /\ c[l].index = b[l].index
        BY <1>4, <3>3
      <4>2. (b[l].index + 1) - 1 = b[l].index
        BY <2>2
      <4> QED BY <2>1, <4>1, <4>2
    <3> QED BY <3>1, <3>2, <3>3
  <2>5. l # i /\ l # j => b[l].index + 1 # p /\ b[l].index + 1 # q
    <3>1. l # i => b[l].index # b[i].index
      BY <1>1, <1>9 DEF OneEach
    <3>2. l # j => b[l].index # b[j].index
      BY <1>1, <1>9 DEF OneEach
    <3> QED BY <1>2, <2>2, <3>1, <3>2
  <2>6. new[W(l)] = old[b[l].index + 1]
    <3>1. CASE l = i
      <4>1. b[l].index + 1 = p /\ W(l) = q
        BY <1>2, <3>1
      <4> QED BY <1>3, <2>4, <4>1
    <3>2. CASE l = j
      <4>1. b[l].index + 1 = q /\ W(l) = p
        BY <1>2, <3>2
      <4> QED BY <1>3, <2>4, <4>1
    <3>3. CASE l # i /\ l # j
      BY <1>3, <2>1, <2>5, <3>3
    <3> QED BY <3>1, <3>2, <3>3
  <2> HIDE DEF W
  <2>7. c[l].hash = Hash[new[W(l)].key]
    BY <1>4, <2>1, <2>6
  <2> QED BY <2>3, <2>4, <2>7 DEF Bucket, File
<1>10. Contents(n, c) \subseteq Files(new)
  <2> SUFFICES ASSUME NEW l \in 0 .. n - 1, c[l].index # EMPTY PROVE c[l] \in Files(new)
    BY DEF Contents
  <2>1. W(l) \in 1 .. Len(old) /\ c[l] = File(new, W(l))
    BY <1>6, <1>9
  <2> HIDE DEF W
  <2> QED BY <1>3, <2>1 DEF Files
<1>11. Files(new) \subseteq Contents(n, c)
  <2> SUFFICES ASSUME NEW v \in 1 .. Len(new) PROVE File(new, v) \in Contents(n, c)
    BY DEF Files
  <2> DEFINE o == IF v = p THEN q ELSE IF v = q THEN p ELSE v
  <2>1. o \in 1 .. Len(old) /\ o \in Int
    BY <1>3 DEF old
  <2>2. PICK l \in 0 .. n - 1 : b[l].index # EMPTY /\ b[l].index + 1 = o
    BY <1>1, <2>1, FiledAt
  <2>3. b[l].index \in Nat
    <3>1. b[l].index \in Nat \cup {EMPTY}
      BY <1>1, RingOf
    <3> QED BY <2>2, <3>1
  <2>4. W(l) = v
    <3>1. CASE v = p
      <4>1. l = j
        <5>1. b[l].index + 1 = q /\ b[j].index + 1 = q
          BY <1>2, <2>2, <3>1
        <5>2. b[l].index = b[j].index
          BY <1>2, <2>3, <5>1
        <5> QED BY <1>1, <2>2, <5>2 DEF OneEach
      <4> QED BY <1>2, <3>1, <4>1
    <3>2. CASE v = q
      <4>1. l = i
        <5>1. b[l].index + 1 = p /\ b[i].index + 1 = p
          BY <1>2, <2>2, <3>2
        <5>2. b[l].index = b[i].index
          BY <1>2, <2>3, <5>1
        <5> QED BY <1>1, <2>2, <5>2 DEF OneEach
      <4> QED BY <3>2, <4>1
    <3>3. CASE v # p /\ v # q
      <4>1. l # i /\ l # j /\ b[l].index + 1 = v
        BY <1>2, <2>2, <3>3
      <4> QED BY <4>1
    <3> QED BY <3>1, <3>2, <3>3
  <2>5. c[l] = File(new, v) /\ c[l].index # EMPTY
    BY <1>6, <1>9, <2>2, <2>4
  <2> QED BY <2>5 DEF Contents
<1>12. Filed(n, c, new)
  BY <1>3, <1>4, <1>5, <1>7, <1>8, <1>10, <1>11 DEF Filed
<1>13. u \in Tables(n) /\ u.buckets = c /\ u.values = new /\ u.threshold = t.threshold
  BY <1>1, <1>3, <1>4 DEF Tables
<1>14. Sound(n, u)
  BY <1>1, <1>3, <1>12, <1>13 DEF Sound
<1> QED BY <1>14 DEF new, c, b, old

\* unordered_erase().
LEMMA ErasedUnorderedSound ==
  ASSUME NEW n \in Nat, NEW t, Sound(n, t), t.values # <<>>, NEW k \in Keys
  PROVE  Sound(n, ErasedUnordered(t, k))
<1> DEFINE i == FindKey(t, k)
           last == Len(t.values)
           j == FindKey(t, t.values[last].key)
           at == t.buckets[i].index
           s == [t EXCEPT
            !.values = [@ EXCEPT ![at + 1] = t.values[last], ![last] = t.values[at + 1]],
            !.buckets = [@ EXCEPT ![i].index = t.buckets[j].index, ![j].index = at]]
<1>1. t.values \in Seq(Entries) /\ last \in 1 .. Len(t.values) /\ last \in Nat
      /\ t.buckets \in Array(n) /\ t \in Tables(n)
  BY SoundIs, EmptySeq
<1>2. CASE ~ Holds(t.values, k)
  <2>1. ErasedUnordered(t, k) = t
    BY <1>2, FindKeyIs DEF ErasedUnordered
  <2> QED BY <2>1
<1>3. CASE Holds(t.values, k)
  <2>1. PICK v \in 1 .. Len(t.values) : t.values[v].key = k
    BY <1>3 DEF Holds
  <2>2. n \in Nat \ {0} /\ i \in 0 .. n - 1 /\ at = v - 1
    BY <2>1, FindKeyIs
  <2>3. at # EMPTY /\ i # NoBucket
    BY <1>1, <2>2 DEF EMPTY, NoBucket
  <2>4. CASE k = t.values[last].key
    <3>1. ErasedUnordered(t, k) = ErasedBucket(t, i)
      BY <2>3, <2>4 DEF ErasedUnordered
    <3> HIDE DEF i
    <3> QED BY <2>2, <2>3, <3>1, ErasedKeeps
  <2>5. CASE k # t.values[last].key
    <3>1. ErasedUnordered(t, k) = ErasedBucket(s, i)
      BY <2>3, <2>5 DEF ErasedUnordered
    <3>2. t.values[last].key \in Keys
      BY <1>1, KeysOf
    <3>3. j \in 0 .. n - 1 /\ t.buckets[j].index = last - 1
      BY <1>1, <3>2, FindKeyIs
    <3>4. v # last /\ at + 1 = v
      BY <1>1, <2>1, <2>2, <2>5
    <3>5. s = [t EXCEPT !.values = [@ EXCEPT ![v] = t.values[last], ![last] = t.values[v]],
                        !.buckets = [@ EXCEPT ![i].index = last - 1, ![j].index = v - 1]]
      BY <2>2, <3>3, <3>4
    <3> HIDE DEF i, j, last, s
    <3>6. Sound(n, s)
      <4>1. v \in 1 .. Len(t.values) /\ last \in 1 .. Len(t.values) /\ v # last
        BY <1>1, <3>4
      <4>2. t.buckets[i].index = v - 1
        BY <2>2
      <4>3. n \in Nat \ {0} /\ i \in 0 .. n - 1
        BY <2>2
      <4> QED BY <3>3, <3>5, <4>1, <4>2, <4>3, SwappedKeeps
    <3>7. s.buckets[i].index # EMPTY
      <4>1. s.buckets = [t.buckets EXCEPT ![i].index = last - 1, ![j].index = v - 1]
        BY <1>1, <3>5 DEF Tables
      <4>2. i # j /\ t.buckets[i] \in Bucket
        <5>1. t.buckets[i] \in Bucket
          BY <1>1, <2>2 DEF Array
        <5>2. t.buckets[i].index # t.buckets[j].index
          BY <1>1, <2>2, <3>3, <3>4
        <5> QED BY <5>1, <5>2
      <4>3. s.buckets[i] = [t.buckets[i] EXCEPT !.index = last - 1]
        BY <1>1, <2>2, <3>3, <4>1, <4>2 DEF Array
      <4>4. s.buckets[i].index = last - 1
        BY <4>2, <4>3 DEF Bucket
      <4> QED BY <1>1, <4>4 DEF EMPTY
    <3> QED BY <2>2, <3>1, <3>6, <3>7, ErasedKeeps
  <2> QED BY <2>4, <2>5
<1> QED BY <1>2, <1>3

\* A lookup finds where the key stands.
LEMMA FindIs ==
  ASSUME NEW n \in Nat, NEW t, Sound(n, t), NEW k \in Keys
  PROVE  Find(t, k) = {v \in 1 .. Len(t.values) : t.values[v].key = k}
<1> DEFINE i == FindKey(t, k)
<1>1. Distinct(t.values) /\ Len(t.values) \in Nat
  BY SoundIs DEF Sound, Filed
<1>2. Find(t, k) = {t.buckets[j].index + 1 : j \in {i} \ {NoBucket}}
  BY DEF Find
<1>3. CASE ~ Holds(t.values, k)
  <2>1. i = NoBucket
    BY <1>3, FindKeyIs
  <2> HIDE DEF i
  <2> QED BY <1>2, <1>3, <2>1 DEF Holds
<1>4. CASE Holds(t.values, k)
  <2>1. PICK v \in 1 .. Len(t.values) : t.values[v].key = k
    BY <1>4 DEF Holds
  <2>2. i \in 0 .. n - 1 /\ t.buckets[i].index = v - 1
    BY <2>1, FindKeyIs
  <2>3. i # NoBucket /\ t.buckets[i].index + 1 = v
    BY <2>2 DEF NoBucket
  <2>4. \A w \in 1 .. Len(t.values) : t.values[w].key = k <=> w = v
    BY <1>1, <2>1 DEF Distinct
  <2> HIDE DEF i
  <2> QED BY <1>2, <2>3, <2>4
<1> QED BY <1>3, <1>4

\* A value replaced by one with the same key.
LEMMA ReplacedKeeps ==
  ASSUME NEW n \in Nat, NEW t, Sound(n, t), NEW e \in Entries,
         NEW v \in 1 .. Len(t.values), t.values[v].key = e.key
  PROVE  Sound(n, [t EXCEPT !.values[v] = e])
<1> DEFINE old == t.values
           new == [old EXCEPT ![v] = e]
           u == [t EXCEPT !.values[v] = e]
<1>1. /\ t \in Tables(n) /\ old \in Seq(Entries) /\ Len(old) \in Nat
      /\ Filed(n, t.buckets, old) /\ Distinct(old)
      /\ (Len(old) < n \/ n <= 2) /\ (t.threshold < n \/ t.threshold = 0)
  BY SoundIs DEF Sound, Filed
<1>2. /\ new \in Seq(Entries) /\ Len(new) = Len(old)
      /\ \A w \in 1 .. Len(old) : new[w] = IF w = v THEN e ELSE old[w]
  BY <1>1, ExceptSeq
<1>3. /\ u \in Tables(n) /\ u.values = new /\ u.buckets = t.buckets
      /\ u.threshold = t.threshold
  BY <1>1, <1>2 DEF Tables
<1> HIDE DEF new, u
<1>4. \A w \in 1 .. Len(old) : new[w].key = old[w].key
  BY <1>2
<1>5. Distinct(new)
  BY <1>1, <1>2, <1>4 DEF Distinct
<1>6. Files(new) = Files(old)
  BY <1>2, <1>4 DEF Files, File
<1>7. Filed(n, t.buckets, new)
  BY <1>1, <1>2, <1>5, <1>6 DEF Filed
<1>8. Sound(n, u)
  BY <1>1, <1>2, <1>3, <1>7 DEF Sound
<1> QED BY <1>8 DEF u

-----------------------------------------------------------------------------
(* Tables of any size                                                      *)

\* Sound with as many buckets as it has.
Ok(t) == \E n \in Nat : Sound(n, t)

\* What every operation may rely on.
LEMMA OkIs ==
  ASSUME NEW t, Ok(t)
  PROVE  t.values \in Seq(Entries) /\ Len(t.values) \in Nat /\ t.maxLoad \in 1 .. 99
BY SoundIs DEF Ok

\* insert(), whether the key is held or not.
LEMMA OkInserted ==
  ASSUME NEW t, Ok(t), NEW e \in Entries
  PROVE  Ok(Inserted(t, e))
<1>1. PICK n \in Nat : Sound(n, t)
  BY DEF Ok
<1>2. \E m \in Nat \ {0} : Sound(m, Inserted(t, e))
  BY <1>1, InsertedKeeps
<1> QED BY <1>2 DEF Ok

\* insert_or_assign().
LEMMA OkAssigned ==
  ASSUME NEW t, Ok(t), NEW e \in Entries
  PROVE  Ok(Assigned(t, e))
<1> DEFINE with == Inserted(t, e)
           i == CHOOSE j \in Find(with, e.key) : TRUE
<1>1. PICK n \in Nat : Sound(n, t)
  BY DEF Ok
<1>2. /\ \E m \in Nat \ {0} : Sound(m, with)
      /\ with.values = IF Holds(t.values, e.key) THEN t.values ELSE Append(t.values, e)
  BY <1>1, InsertedKeeps
<1>3. t.values \in Seq(Entries) /\ Len(t.values) \in Nat
  BY <1>1, SoundIs
<1> HIDE DEF with
<1>4. Holds(with.values, e.key)
  <2>1. CASE Holds(t.values, e.key)
    BY <1>2, <2>1
  <2>2. CASE ~ Holds(t.values, e.key)
    <3>1. with.values = Append(t.values, e)
      BY <1>2, <2>2
    <3>2. Len(with.values) = Len(t.values) + 1 /\ with.values[Len(t.values) + 1] = e
      BY <1>3, <3>1, AppendProperties
    <3> QED BY <1>3, <3>2 DEF Holds
  <2> QED BY <2>1, <2>2
<1>5. PICK m \in Nat \ {0} : Sound(m, with)
  BY <1>2
<1>6. e.key \in Keys
  BY EntriesAssumption
<1>7. Find(with, e.key) = {v \in 1 .. Len(with.values) : with.values[v].key = e.key}
  BY <1>5, <1>6, FindIs
<1>8. i \in 1 .. Len(with.values) /\ with.values[i].key = e.key
  BY <1>4, <1>7 DEF Holds
<1> HIDE DEF i
<1>9. Sound(m, [with EXCEPT !.values[i] = e])
  BY <1>5, <1>8, ReplacedKeeps
<1>10. Assigned(t, e) = [with EXCEPT !.values[i] = e]
  BY DEF Assigned, with, i
<1> QED BY <1>9, <1>10 DEF Ok

\* Values inserted one after the other.
LEMMA OkInsertedEach ==
  ASSUME NEW t, Ok(t), NEW es \in Seq(Entries)
  PROVE  Ok(InsertedEach(t, es))
<1> DEFINE n == Len(es)
           S == {u \in UNION {Tables(m) : m \in Nat} : Ok(u)}
           round == [x \in S \X (1 .. n) |-> Inserted(x[1], es[x[2]])]
           with == CHOOSE f : f = [r \in 0 .. n |-> IF r = 0 THEN t ELSE Inserted(f[r - 1], es[r])]
<1>1. n \in Nat /\ \A r \in 1 .. n : es[r] \in Entries
  BY ElementOfSeq
<1>2. ASSUME NEW u, Ok(u) PROVE u \in S
  BY <1>2, SoundIs DEF Ok
<1>3. \A u \in S : Ok(u)
  OBVIOUS
<1> HIDE DEF S, n
<1>4. \A u \in S, r \in 1 .. n : Inserted(u, es[r]) \in S
  BY <1>1, <1>2, <1>3, OkInserted
<1>5. Rounds(round, n, S)
  <2>1. ASSUME NEW x \in S \X (1 .. n) PROVE Inserted(x[1], es[x[2]]) \in S
    BY <1>4
  <2> QED BY <2>1 DEF Rounds
<1>6. t \in S
  BY <1>2
<1>7. PICK f : RunOf(f, t, round, n, S)
  <2> HIDE DEF round
  <2> QED BY <1>1, <1>5, <1>6, LoopRuns
<1>8. f \in [0 .. n -> S]
  <2> HIDE DEF round
  <2> QED BY <1>7 DEF RunOf
<1>9. ASSUME NEW r \in 0 .. n PROVE f[r] = IF r = 0 THEN t ELSE Inserted(f[r - 1], es[r])
  <2>1. f[r] = IF r = 0 THEN t ELSE round[<<f[r - 1], r>>]
    <3> HIDE DEF round
    <3> QED BY <1>7 DEF RunOf
  <2>2. CASE r = 0
    BY <2>1, <2>2
  <2>3. CASE r # 0
    <3>1. <<f[r - 1], r>> \in S \X (1 .. n)
      BY <1>1, <1>8, <2>3
    <3>2. round[<<f[r - 1], r>>] = Inserted(f[r - 1], es[r])
      BY <3>1
    <3> HIDE DEF round
    <3> QED BY <2>1, <2>3, <3>2
  <2> QED BY <2>2, <2>3
<1>10. f = [r \in 0 .. n |-> IF r = 0 THEN t ELSE Inserted(f[r - 1], es[r])]
  BY <1>8, <1>9
<1>11. with = [r \in 0 .. n |-> IF r = 0 THEN t ELSE Inserted(with[r - 1], es[r])]
  BY <1>10
<1>12. InsertedEach(t, es) = with[n]
  BY DEF InsertedEach, n
<1> HIDE DEF with
<1> DEFINE T == {r \in 0 .. n : with[r] \in S}
<1>13. 0 \in T
  BY <1>1, <1>6, <1>11
<1>14. ASSUME NEW r \in 1 .. n, r - 1 \in T PROVE r \in T
  <2>1. with[r] = Inserted(with[r - 1], es[r])
    BY <1>1, <1>11
  <2> QED BY <1>1, <1>4, <1>14, <2>1
<1>15. 0 .. n \subseteq T
  <2> HIDE DEF T
  <2> QED BY <1>1, <1>13, <1>14, LoopInduction
<1>16. with[n] \in S
  BY <1>1, <1>15
<1> QED BY <1>3, <1>12, <1>16

\* rehash() and reserve().
LEMMA OkRehashed ==
  ASSUME NEW t, Ok(t), NEW count \in Nat
  PROVE  Ok(Rehashed(t, count)) /\ Ok(Reserved(t, count))
         /\ Reserved(t, count).values = t.values
BY RehashedKeeps DEF Ok

\* insert(first, last), with the reservation it makes or does not make.
LEMMA OkInsertedAll ==
  ASSUME NEW t, Ok(t), NEW e \in Entries, NEW f \in Entries
  PROVE  Ok(InsertedAll(t, <<e, f>>))
<1> DEFINE size == Len(t.values)
           es == <<e, f>>
           short == t.threshold >= size /\ t.threshold - size < Len(es)
           u == IF short THEN Reserved(t, size + Len(es)) ELSE t
<1>1. es \in Seq(Entries) /\ Len(es) = 2
  OBVIOUS
<1>2. size \in Nat
  BY OkIs
<1>3. size + Len(es) \in Nat
  BY <1>1, <1>2
<1>4. InsertedAll(t, es) = InsertedEach(u, es)
  BY DEF InsertedAll
<1> HIDE DEF es, size
<1>5. Ok(u)
  BY <1>3, OkRehashed
<1> HIDE DEF u
<1>6. Ok(InsertedEach(u, es))
  BY <1>1, <1>5, OkInsertedEach
<1> QED BY <1>4, <1>6 DEF es

\* erase(key) and unordered_erase(key).
LEMMA OkErased ==
  ASSUME NEW t, Ok(t), NEW k \in Keys
  PROVE  Ok(Erased(t, k)) /\ (t.values # <<>> => Ok(ErasedUnordered(t, k)))
BY ErasedKeySound, ErasedUnorderedSound DEF Ok

\* max_load_factor(ml).
LEMMA OkWithMaxLoad ==
  ASSUME NEW t, Ok(t), NEW ml \in 1 .. 99
  PROVE  Ok(WithMaxLoad(t, ml))
<1> DEFINE u == WithMaxLoad(t, ml)
<1>1. PICK n \in Nat : Sound(n, t)
  BY DEF Ok
<1>2. t \in Tables(n) /\ BucketCount(t.buckets) = n
  BY <1>1, SoundIs
<1> DEFINE th == Threshold(n, ml)
<1>3. th \in Nat /\ (th < n \/ th = 0)
  BY ThresholdIs
<1>4. u = [t EXCEPT !.maxLoad = ml, !.threshold = th]
  BY <1>2 DEF WithMaxLoad
<1> HIDE DEF th, u
<1>5. u \in Tables(n) /\ u.values = t.values /\ u.buckets = t.buckets /\ u.threshold = th
  BY <1>2, <1>3, <1>4 DEF Tables
<1>6. Sound(n, u)
  BY <1>1, <1>3, <1>5 DEF Sound
<1> QED BY <1>6 DEF Ok, u

\* Tables without values.
LEMMA NothingFiled ==
  ASSUME NEW n \in Nat
  PROVE  Filed(n, VacantBuckets(n), <<>>)
<1>1. <<>> \in Seq(Entries) /\ Len(<<>>) = 0
  BY EmptySeq
<1>2. Files(<<>>) = {} /\ Distinct(<<>>)
  BY <1>1 DEF Files, Distinct
<1> QED BY <1>1, <1>2, VacantIs DEF Filed

\* A new table.
LEMMA OkConstructed ==
  ASSUME NEW n \in Nat
  PROVE  Ok(Constructed(n))
<1> DEFINE count == IF n = 0 THEN 0 ELSE RoundUpToPowerOfTwo(n)
           t == Constructed(n)
           th == Threshold(count, DefaultMaxLoadFactor)
<1>1. count \in Nat /\ DefaultMaxLoadFactor \in 1 .. 99
  BY RoundedUp DEF DefaultMaxLoadFactor
<1>2. t = [buckets |-> VacantBuckets(count), values |-> << >>, threshold |-> th,
           maxLoad |-> DefaultMaxLoadFactor, grow |-> FALSE]
  BY DEF Constructed
<1> HIDE DEF count, t
<1>3. th \in Nat /\ (th < count \/ th = 0)
  BY <1>1, ThresholdIs
<1> HIDE DEF th
<1>4. VacantBuckets(count) \in Array(count) /\ Filed(count, VacantBuckets(count), <<>>)
  BY <1>1, VacantIs, NothingFiled
<1>5. <<>> \in Seq(Entries) /\ Len(<<>>) = 0
  BY EmptySeq
<1>6. t \in Tables(count)
  BY <1>1, <1>2, <1>3, <1>4, <1>5 DEF Tables
<1>7. Sound(count, t)
  BY <1>1, <1>2, <1>3, <1>4, <1>5, <1>6 DEF Sound
<1> QED BY <1>1, <1>7 DEF Ok, t

\* clear(), and what a move leaves behind.
LEMMA OkEmptied ==
  ASSUME NEW t, Ok(t)
  PROVE  Ok(Cleared(t)) /\ Ok(MovedFrom(t))
<1>1. PICK n \in Nat : Sound(n, t)
  BY DEF Ok
<1>2. t \in Tables(n) /\ BucketCount(t.buckets) = n /\ t.threshold \in Nat
      /\ (t.threshold < n \/ t.threshold = 0)
  BY <1>1, SoundIs DEF Sound
<1>3. <<>> \in Seq(Entries) /\ Len(<<>>) = 0
  BY EmptySeq
<1>4. Ok(Cleared(t))
  <2> DEFINE u == Cleared(t)
  <2>1. u = [t EXCEPT !.buckets = VacantBuckets(n), !.values = <<>>, !.grow = FALSE]
    BY <1>2 DEF Cleared
  <2>2. VacantBuckets(n) \in Array(n) /\ Filed(n, VacantBuckets(n), <<>>)
    BY VacantIs, NothingFiled
  <2> HIDE DEF u
  <2>3. /\ u \in Tables(n) /\ u.values = <<>> /\ u.buckets = VacantBuckets(n)
        /\ u.threshold = t.threshold
    BY <1>2, <1>3, <2>1, <2>2 DEF Tables
  <2>4. Sound(n, u)
    BY <1>2, <1>3, <2>2, <2>3 DEF Sound
  <2> QED BY <2>4 DEF Ok, u
<1>5. Ok(MovedFrom(t))
  <2> DEFINE u == MovedFrom(t)
  <2>1. u = [t EXCEPT !.buckets = <<>>, !.values = <<>>, !.threshold = 0, !.grow = FALSE]
    BY DEF MovedFrom
  <2>2. VacantBuckets(0) \in Array(0) /\ Filed(0, VacantBuckets(0), <<>>)
    BY VacantIs, NothingFiled
  <2>3. VacantBuckets(0) = <<>>
    BY <2>2, CountIs
  <2> HIDE DEF u
  <2>4. /\ u \in Tables(0) /\ u.values = <<>> /\ u.buckets = <<>> /\ u.threshold = 0
    BY <1>2, <1>3, <2>1, <2>2, <2>3 DEF Tables
  <2>5. Sound(0, u)
    BY <1>3, <2>2, <2>3, <2>4 DEF Sound
  <2> QED BY <2>5 DEF Ok, u
<1> QED BY <1>4, <1>5

\* deserialize(), whether the hashes agree or not.
LEMMA OkDeserialized ==
  ASSUME NEW t, Ok(t), NEW compatible \in BOOLEAN
  PROVE  Ok(Deserialized(t, compatible))
<1> DEFINE fresh == WithMaxLoad(Constructed(0), t.maxLoad)
           u == Deserialized(t, compatible)
<1>1. PICK n \in Nat : Sound(n, t)
  BY DEF Ok
<1>2. /\ t \in Tables(n) /\ t.maxLoad \in 1 .. 99 /\ t.values \in Seq(Entries)
      /\ t.buckets \in Array(n) /\ Len(t.values) \in Nat
  BY <1>1, SoundIs
<1>3. Ok(fresh)
  BY <1>2, OkConstructed, OkWithMaxLoad
<1>4. fresh = [buckets |-> VacantBuckets(0), values |-> <<>>, threshold |-> 0,
               maxLoad |-> t.maxLoad, grow |-> FALSE]
  <2> DEFINE c == Constructed(0)
  <2>1. BucketCount(VacantBuckets(0)) = 0
    BY VacantIs, CountIs
  <2>2. Threshold(0, t.maxLoad) = 0
    <3>1. Threshold(0, t.maxLoad) \in Nat
      BY <1>2, ThresholdIs
    <3>2. Threshold(0, t.maxLoad) < 0 \/ Threshold(0, t.maxLoad) = 0
      BY <1>2, ThresholdIs
    <3> QED BY <3>1, <3>2
  <2>3. PICK th : c = [buckets |-> VacantBuckets(0), values |-> <<>>, threshold |-> th,
                       maxLoad |-> DefaultMaxLoadFactor, grow |-> FALSE]
    BY DEF Constructed
  <2> HIDE DEF c
  <2>4. fresh = [c EXCEPT !.maxLoad = t.maxLoad,
                          !.threshold = Threshold(BucketCount(c.buckets), t.maxLoad)]
    BY DEF WithMaxLoad, c
  <2>5. BucketCount(c.buckets) = 0
    BY <2>1, <2>3
  <2>6. fresh = [c EXCEPT !.maxLoad = t.maxLoad, !.threshold = 0]
    BY <2>2, <2>4, <2>5
  <2> QED BY <2>3, <2>6
<1> HIDE DEF fresh
<1>5. CASE t.buckets = <<>>
  <2>1. u = fresh
    BY <1>5 DEF Deserialized, fresh
  <2> QED BY <1>3, <2>1
<1>6. CASE t.buckets # <<>> /\ compatible
  <2>1. u = [fresh EXCEPT !.buckets = t.buckets, !.values = t.values]
    BY <1>6 DEF Deserialized, fresh
  <2> HIDE DEF u
  <2>2. /\ u \in Tables(n) /\ u.buckets = t.buckets /\ u.values = t.values
        /\ u.threshold = 0
    BY <1>2, <1>4, <2>1 DEF Tables
  <2>3. Sound(n, u)
    BY <1>1, <2>2 DEF Sound
  <2> QED BY <2>3 DEF Ok, u
<1>7. CASE t.buckets # <<>> /\ ~ compatible
  <2>1. u = InsertedEach(Reserved(fresh, Len(t.values)), t.values)
    BY <1>7 DEF Deserialized, fresh
  <2>2. Ok(Reserved(fresh, Len(t.values)))
    BY <1>2, <1>3, OkRehashed
  <2> HIDE DEF u
  <2>3. Ok(u)
    BY <1>2, <2>1, <2>2, OkInsertedEach
  <2> QED BY <2>3 DEF u
<1> QED BY <1>5, <1>6, <1>7

-----------------------------------------------------------------------------
(* The invariant and the theorems                                          *)

\* Every table is sound, whatever its size: the inductive invariant.
SoundTables == \A m \in Maps : Ok(table[m])

\* Objects that become sound tables leave all tables sound.
LEMMA BecomeKeeps ==
  ASSUME SoundTables, NEW new, Become(new), \A m \in DOMAIN new : Ok(new[m])
  PROVE  SoundTables'
BY DEF SoundTables, Become

\* The same for one object.
LEMMA BecomesKeeps ==
  ASSUME SoundTables, NEW m, NEW t, Ok(t), Becomes(m, t)
  PROVE  SoundTables'
<1> DEFINE new == [o \in {m} |-> t]
<1>1. Become(new) /\ \A o \in DOMAIN new : Ok(new[o])
  BY DEF Becomes
<1> QED BY <1>1, BecomeKeeps

\* The operations on one object.
LEMMA OneKeeps ==
  ASSUME BelowFull, SoundTables, NEW m \in Maps
  PROVE  /\ Construct(m) => SoundTables'
         /\ Insert(m) => SoundTables'
         /\ InsertOrAssign(m) => SoundTables'
         /\ InsertRange(m) => SoundTables'
         /\ Erase(m) => SoundTables'
         /\ PopBack(m) => SoundTables'
         /\ UnorderedErase(m) => SoundTables'
         /\ Clear(m) => SoundTables'
         /\ AssignList(m) => SoundTables'
         /\ SetMaxLoadFactor(m) => SoundTables'
         /\ Rehash(m) => SoundTables'
         /\ Reserve(m) => SoundTables'
<1> DEFINE t == table[m]
<1>0. Ok(t)
  BY DEF SoundTables
<1> HIDE DEF t
<1>1. ASSUME Construct(m) PROVE SoundTables'
  <2>1. PICK n \in Sizes : Becomes(m, Constructed(n))
    BY <1>1 DEF Construct
  <2>2. n \in Nat
    BY SizesAssumption
  <2> QED BY <2>1, <2>2, OkConstructed, BecomesKeeps
<1>2. ASSUME Insert(m) PROVE SoundTables'
  BY <1>0, <1>2, OkInserted, BecomesKeeps DEF Insert, t
<1>3. ASSUME InsertOrAssign(m) PROVE SoundTables'
  BY <1>0, <1>3, OkAssigned, BecomesKeeps DEF InsertOrAssign, t
<1>4. ASSUME InsertRange(m) PROVE SoundTables'
  BY <1>0, <1>4, OkInsertedAll, BecomesKeeps DEF InsertRange, t
<1>5. ASSUME Erase(m) PROVE SoundTables'
  BY <1>0, <1>5, OkErased, BecomesKeeps DEF Erase, t
<1>6. ASSUME PopBack(m) PROVE SoundTables'
  <2>1. t.values # <<>> /\ Becomes(m, Erased(t, Last(t.values).key))
    BY <1>6 DEF PopBack, t
  <2>2. Last(t.values) \in Entries
    <3>1. t.values \in Seq(Entries) /\ Len(t.values) \in Nat
      BY <1>0, OkIs
    <3>2. Len(t.values) \in 1 .. Len(t.values)
      BY <2>1, <3>1, EmptySeq
    <3> QED BY <3>1, <3>2 DEF Last
  <2>3. Last(t.values).key \in Keys
    BY <2>2, EntriesAssumption
  <2> QED BY <1>0, <2>1, <2>3, OkErased, BecomesKeeps
<1>7. ASSUME UnorderedErase(m) PROVE SoundTables'
  BY <1>0, <1>7, OkErased, BecomesKeeps DEF UnorderedErase, t
<1>8. ASSUME Clear(m) PROVE SoundTables'
  BY <1>0, <1>8, OkEmptied, BecomesKeeps DEF Clear, t
<1>9. ASSUME AssignList(m) PROVE SoundTables'
  <2>1. PICK e \in Entries, f \in Entries :
          Becomes(m, InsertedAll(Reserved(Cleared(t), 2), <<e, f>>))
    BY <1>9 DEF AssignList, t
  <2>2. Ok(Reserved(Cleared(t), 2))
    BY <1>0, OkEmptied, OkRehashed
  <2> QED BY <2>1, <2>2, OkInsertedAll, BecomesKeeps
<1>10. ASSUME SetMaxLoadFactor(m) PROVE SoundTables'
  <2>1. PICK ml \in MaxLoadFactors : Becomes(m, WithMaxLoad(t, ml))
    BY <1>10 DEF SetMaxLoadFactor, t
  <2>2. ml \in 1 .. 99
    BY DEF BelowFull
  <2> QED BY <1>0, <2>1, <2>2, OkWithMaxLoad, BecomesKeeps
<1>11. ASSUME Rehash(m) PROVE SoundTables'
  <2>1. PICK n \in Sizes : Becomes(m, Rehashed(t, n))
    BY <1>11 DEF Rehash, t
  <2> QED BY <1>0, <2>1, SizesAssumption, OkRehashed, BecomesKeeps
<1>12. ASSUME Reserve(m) PROVE SoundTables'
  <2>1. PICK n \in Sizes : Becomes(m, Reserved(t, n))
    BY <1>12 DEF Reserve, t
  <2> QED BY <1>0, <2>1, SizesAssumption, OkRehashed, BecomesKeeps
<1> QED BY <1>1, <1>2, <1>3, <1>4, <1>5, <1>6, <1>7, <1>8, <1>9, <1>10, <1>11, <1>12

\* The operations on two objects.
LEMMA TwoKeep ==
  ASSUME SoundTables, NEW m \in Maps, NEW o \in Maps
  PROVE  /\ CopyFrom(m, o) => SoundTables'
         /\ MoveConstruct(m, o) => SoundTables'
         /\ MoveAssign(m, o) => SoundTables'
         /\ SwapWith(m, o) => SoundTables'
         /\ DeserializeFrom(m, o) => SoundTables'
<1>0. Ok(table[m]) /\ Ok(table[o])
  BY DEF SoundTables
<1>1. ASSUME CopyFrom(m, o) PROVE SoundTables'
  BY <1>0, <1>1, BecomesKeeps DEF CopyFrom
<1>2. ASSUME MoveConstruct(m, o) PROVE SoundTables'
  <2> DEFINE new == [x \in {m, o} |-> IF x = m THEN table[o] ELSE MovedFrom(table[o])]
  <2>1. Become(new)
    BY <1>2 DEF MoveConstruct
  <2>2. \A x \in DOMAIN new : Ok(new[x])
    BY <1>0, OkEmptied
  <2> HIDE DEF new
  <2> QED BY <2>1, <2>2, BecomeKeeps
<1>3. ASSUME MoveAssign(m, o) PROVE SoundTables'
  <2> DEFINE new == [x \in {m, o} |-> IF x = o THEN Cleared(table[m]) ELSE table[o]]
  <2>1. Become(new)
    BY <1>3 DEF MoveAssign
  <2>2. \A x \in DOMAIN new : Ok(new[x])
    BY <1>0, OkEmptied
  <2> HIDE DEF new
  <2> QED BY <2>1, <2>2, BecomeKeeps
<1>4. ASSUME SwapWith(m, o) PROVE SoundTables'
  <2> DEFINE new == [x \in {m, o} |-> IF x = m THEN table[o] ELSE table[m]]
  <2>1. Become(new)
    BY <1>4 DEF SwapWith
  <2>2. \A x \in DOMAIN new : Ok(new[x])
    BY <1>0
  <2> HIDE DEF new
  <2> QED BY <2>1, <2>2, BecomeKeeps
<1>5. ASSUME DeserializeFrom(m, o) PROVE SoundTables'
  BY <1>0, <1>5, OkDeserialized, BecomesKeeps DEF DeserializeFrom
<1> QED BY <1>1, <1>2, <1>3, <1>4, <1>5

\* The tables stay sound under every operation but the insertion at a position
\* and the erasure of a range.
THEOREM TablesSound ==
  ASSUME BelowFull
  PROVE  PlainSpec => []SoundTables
<1>1. Init => SoundTables
  BY OkConstructed DEF Init, SoundTables
<1>2. SoundTables /\ [NextPlain]_table => SoundTables'
  <2> SUFFICES ASSUME SoundTables, [NextPlain]_table PROVE SoundTables'
    OBVIOUS
  <2>1. ASSUME NEW m \in Maps,
               \/ Construct(m) \/ Insert(m) \/ InsertOrAssign(m) \/ InsertRange(m)
               \/ Erase(m) \/ PopBack(m) \/ UnorderedErase(m) \/ Clear(m) \/ AssignList(m)
               \/ SetMaxLoadFactor(m) \/ Rehash(m) \/ Reserve(m)
        PROVE  SoundTables'
    BY <2>1, OneKeeps
  <2>2. ASSUME NEW m \in Maps, NEW o \in Maps,
               \/ CopyFrom(m, o) \/ MoveConstruct(m, o) \/ MoveAssign(m, o)
               \/ SwapWith(m, o) \/ DeserializeFrom(m, o)
        PROVE  SoundTables'
    BY <2>2, TwoKeep
  <2>3. CASE UNCHANGED table
    BY <2>3 DEF SoundTables
  <2> QED BY <2>1, <2>2, <2>3 DEF NextPlain
<1> QED BY <1>1, <1>2, PTL DEF PlainSpec

\* The walks end: the values never outnumber the buckets, and after the test
\* for a growth a table has an empty one.  BelowFull is what this rests on.
THEOREM AlwaysRoom ==
  ASSUME BelowFull
  PROVE  PlainSpec => []RoomToInsert
<1>1. SoundTables => RoomToInsert
  <2> SUFFICES ASSUME SoundTables, NEW m \in Maps
               PROVE  LET t == table[m]
                          grown == GrownOnHighLoad(t).buckets
                      IN  /\ Len(t.values) <= BucketCount(t.buckets)
                          /\ \E i \in DOMAIN grown : IsEmpty(grown, i)
    BY DEF RoomToInsert
  <2> DEFINE t == table[m]
             u == GrownOnHighLoad(t)
  <2>1. PICK n \in Nat : Sound(n, t)
    BY DEF SoundTables, Ok
  <2> HIDE DEF t
  <2>2. /\ u.values = t.values
        /\ ~ MustGrow(t) => u = t /\ Len(t.values) + 1 < n
        /\ MustGrow(t) => \E k \in Nat \ {0} : Sound(k, u) /\ Len(t.values) < k
    BY <2>1, GrownKeeps
  <2>3. Len(t.values) \in Nat /\ Len(t.values) <= BucketCount(t.buckets)
    BY <2>1, SoundIs
  <2> HIDE DEF u
  <2>4. \E k \in Nat : Sound(k, u) /\ Len(u.values) < k
    <3>1. CASE MustGrow(t)
      BY <2>2, <3>1
    <3>2. CASE ~ MustGrow(t)
      <4>1. u = t /\ Len(t.values) + 1 < n
        BY <2>2, <3>2
      <4>2. Len(t.values) < n
        BY <2>3, <4>1
      <4> QED BY <2>1, <4>1, <4>2
    <3> QED BY <3>1, <3>2
  <2>5. PICK k \in Nat : Sound(k, u) /\ Len(u.values) < k
    BY <2>4
  <2>6. DOMAIN u.buckets = 0 .. k - 1 /\ Filed(k, u.buckets, u.values)
    BY <2>5, SoundIs DEF Sound
  <2>7. PICK i \in 0 .. k - 1 : u.buckets[i].index = EMPTY
    BY <2>5, <2>6, TakenIs
  <2> QED BY <2>3, <2>6, <2>7 DEF IsEmpty, u, t
<1> QED BY <1>1, TablesSound, PTL

\* The order that lets a probe stop early.
THEOREM AlwaysOrdered ==
  ASSUME BelowFull
  PROVE  PlainSpec => []RobinHoodOrder
<1>1. SoundTables => RobinHoodOrder
  <2> SUFFICES ASSUME SoundTables, NEW m \in Maps, NEW i \in DOMAIN table[m].buckets,
                      ~ IsEmpty(table[m].buckets, i),
                      DistanceFromIdeal(table[m].buckets, i) > 0
               PROVE  LET b == table[m].buckets
                          before == (i - 1) % BucketCount(b)
                      IN  /\ ~ IsEmpty(b, before)
                          /\ DistanceFromIdeal(b, before) >= DistanceFromIdeal(b, i) - 1
    BY DEF RobinHoodOrder
  <2> DEFINE t == table[m]
             b == t.buckets
             before == (i - 1) % BucketCount(b)
  <2>1. PICK n \in Nat : Sound(n, t)
    BY DEF SoundTables, Ok
  <2>2. ~ IsEmpty(b, i) /\ DistanceFromIdeal(b, i) > 0 /\ i \in DOMAIN b
    OBVIOUS
  <2> HIDE DEF t
  <2>3. b \in Array(n) /\ Robin(n, b) /\ BucketCount(b) = n /\ DOMAIN b = 0 .. n - 1
    BY <2>1, SoundIs DEF Sound, Filed
  <2>4. i \in 0 .. n - 1 /\ n \in Nat \ {0}
    BY <2>2, <2>3
  <2> HIDE DEF b
  <2>5. before = Behind(n, i, 1) /\ Behind(n, i, 1) \in 0 .. n - 1
    BY <2>3, <2>4, RingIs
  <2> HIDE DEF before
  <2>6. /\ DistanceFromIdeal(b, i) = Distance(n, b[i], i)
        /\ DistanceFromIdeal(b, before) = Distance(n, b[before], before)
    BY <2>3, <2>4, <2>5, RingOf
  <2>7. /\ b[before].index # EMPTY
        /\ Distance(n, b[before], before) >= Distance(n, b[i], i) - 1
    BY <2>2, <2>3, <2>4, <2>5, <2>6 DEF Robin, IsEmpty
  <2>8. /\ ~ IsEmpty(b, before)
        /\ DistanceFromIdeal(b, before) >= DistanceFromIdeal(b, i) - 1
    BY <2>6, <2>7 DEF IsEmpty
  <2> QED BY <2>8 DEF before, b, t
<1> QED BY <1>1, TablesSound, PTL

\* Every key of a map is found, at its value, and no other key is.
THEOREM AlwaysFound ==
  ASSUME BelowFull
  PROVE  PlainSpec => []FindsWhatItHolds
<1>1. SoundTables => FindsWhatItHolds
  <2> SUFFICES ASSUME SoundTables, NEW m \in Maps
               PROVE  LET t == table[m] IN
                      /\ Cardinality({i \in DOMAIN t.buckets : ~ IsEmpty(t.buckets, i)})
                            = Len(t.values)
                      /\ \A k \in Keys : Find(t, k) = Map!Find(t.values, k)
    BY DEF FindsWhatItHolds
  <2> DEFINE t == table[m]
  <2>1. PICK n \in Nat : Sound(n, t)
    BY DEF SoundTables, Ok
  <2> HIDE DEF t
  <2>2. /\ DOMAIN t.buckets = 0 .. n - 1 /\ Filed(n, t.buckets, t.values)
        /\ t.values \in Seq(Entries)
    BY <2>1, SoundIs DEF Sound
  <2>3. Cardinality({i \in DOMAIN t.buckets : ~ IsEmpty(t.buckets, i)}) = Len(t.values)
    <3>1. {i \in DOMAIN t.buckets : ~ IsEmpty(t.buckets, i)}
            = {i \in 0 .. n - 1 : t.buckets[i].index # EMPTY}
      BY <2>2 DEF IsEmpty
    <3> QED BY <2>2, <3>1, TakenIs
  <2>4. ASSUME NEW k \in Keys PROVE Find(t, k) = Map!Find(t.values, k)
    <3>1. DOMAIN t.values = 1 .. Len(t.values)
      BY <2>2
    <3>2. Find(t, k) = {v \in 1 .. Len(t.values) : t.values[v].key = k}
      BY <2>1, FindIs
    <3> QED BY <3>1, <3>2 DEF Map!Find
  <2> QED BY <2>3, <2>4 DEF t
<1> QED BY <1>1, TablesSound, PTL
=============================================================================
