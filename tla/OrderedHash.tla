---------------------------- MODULE OrderedHash -----------------------------
(***************************************************************************)
(* The hash table behind ordered_map and ordered_set                       *)
(* (src/common/ordered_hash.h): an array of values in insertion order and  *)
(* an array of buckets, each of which holds the index of a value and the   *)
(* hash of its key.  Collisions are resolved by robin hood linear probing, *)
(* erased buckets are closed by a backward shift, and every change of the  *)
(* order of the values has to renumber the buckets.                        *)
(*                                                                         *)
(* A table is a record.  The operations are operators from tables to       *)
(* tables, as the code's private methods are, and the actions call them on *)
(* one of the map objects.  Indices are those of the code (from 0); load   *)
(* factors are percentages; the hash of a key is a constant, so that keys  *)
(* which collide and keys which wrap around can be chosen.                 *)
(***************************************************************************)
EXTENDS Integers, Sequences, FiniteSets, SequencesExt

CONSTANTS
    Maps,             \* the map objects
    Keys,
    Entries,          \* the pairs of a key and its data that may be inserted
    Hash,             \* [Keys -> Nat], hash_function()
    NProbes,          \* REHASH_ON_HIGH_NB_PROBES__NPROBES
    MaxLoadFactors,   \* the percentages max_load_factor(ml) is called with
    Sizes,            \* the sizes a table is built for, rehashed or reserved to
    MaxBuckets        \* bound: no operation that gives a map more buckets is called

ASSUME HashAssumption == Hash \in [Keys -> Nat]
ASSUME ProbesAssumption == NProbes \in Nat
ASSUME LoadAssumption == MaxLoadFactors \subseteq Nat \ {0}
ASSUME EntriesAssumption == \A e \in Entries : e.key \in Keys
ASSUME SizesAssumption == Sizes \subseteq Nat

VARIABLE table

EMPTY == -1      \* EMPTY_MARKER_INDEX
NoBucket == -1   \* m_buckets_data.end()

DefaultMaxLoadFactor == 75
MinMaxLoadFactor == 10   \* MAX_LOAD_FACTOR__MINIMUM
MaxMaxLoadFactor == 95   \* MAX_LOAD_FACTOR__MAXIMUM
MinLoadFactorToGrow == 15

(* A bucket that holds nothing.  Its hash is never read, and is 0 here.    *)
Vacant == [index |-> EMPTY, hash |-> 0]

CeilDiv(a, b) == (a + b - 1) \div b

(* A power of two that is at least n; rounding 0 up gives 1.               *)
RoundUpToPowerOfTwo(n) ==
    LET power[i \in 0 .. n] == IF i = 0 THEN 1 ELSE 2 * power[i - 1]
    IN  Min({p \in {power[i] : i \in 0 .. n} : p >= n})

VacantBuckets(n) == [i \in 0 .. n - 1 |-> Vacant]

BucketCount(b) == Cardinality(DOMAIN b)

(* size_type(float(bucket_count()) * m_max_load_factor)                    *)
Threshold(n, ml) == (n * ml) \div 100

Constructed(n) ==
    LET count == IF n = 0 THEN 0 ELSE RoundUpToPowerOfTwo(n) IN
    [buckets |-> VacantBuckets(count), values |-> << >>,
     threshold |-> Threshold(count, DefaultMaxLoadFactor),
     maxLoad |-> DefaultMaxLoadFactor, grow |-> FALSE]

(***************************************************************************)
(* The array of buckets.                                                   *)
(***************************************************************************)
IsEmpty(b, i) == b[i].index = EMPTY

(* hash & m_hash_mask: the number of buckets is a power of two.            *)
BucketForHash(b, h) == h % BucketCount(b)

NextBucket(b, i) == (i + 1) % BucketCount(b)

DistanceFromIdeal(b, i) ==
    LET ideal == BucketForHash(b, b[i].hash) IN
    IF i >= ideal THEN i - ideal ELSE BucketCount(b) + i - ideal

(* The d-th bucket that is probed for a hash.                              *)
Probed(b, h, d) == (h + d) % BucketCount(b)

HoldsKey(t, i, k) ==
    /\ t.buckets[i].hash = Hash[k]
    /\ t.values[t.buckets[i].index + 1].key = k

(* find_key(): probing ends at an empty bucket, at the key, or at a bucket *)
(* nearer to its ideal than the key would be.                              *)
FindKey(t, k) ==
    IF t.buckets = << >> THEN NoBucket
    ELSE LET b == t.buckets
             d == Min({n \in 0 .. BucketCount(b) :
                        LET i == Probed(b, Hash[k], n) IN
                        \/ IsEmpty(b, i)
                        \/ HoldsKey(t, i, k)
                        \/ n > DistanceFromIdeal(b, i)})
             i == Probed(b, Hash[k], d)
         IN IF ~ IsEmpty(b, i) /\ HoldsKey(t, i, k) THEN i ELSE NoBucket

(* What at(), operator[], count(), find() and equal_range() give of a key: *)
(* the position of its value, if there is one.                             *)
Find(t, k) ==
    {t.buckets[i].index + 1 : i \in {FindKey(t, k)} \ {NoBucket}}

(* One round of the robin hood walk of insert_index() and of               *)
(* rehash_impl(): the entry takes the place of one that is nearer to its   *)
(* ideal bucket, which is carried on, until an empty bucket is met.        *)
(* probes is the largest distance met after a round.                       *)
Carried(w) ==
    LET own == DistanceFromIdeal(w.buckets, w.at)
        poorer == w.distance > own
        next == 1 + (IF poorer THEN own ELSE w.distance)
    IN IF w.placed THEN w
       ELSE IF IsEmpty(w.buckets, w.at)
       THEN [w EXCEPT !.buckets[w.at] = w.entry, !.placed = TRUE]
       ELSE [buckets |-> IF poorer THEN [w.buckets EXCEPT ![w.at] = w.entry] ELSE w.buckets,
             at |-> NextBucket(w.buckets, w.at), distance |-> next,
             entry |-> IF poorer THEN w.buckets[w.at] ELSE w.entry,
             probes |-> Max({w.probes, next}), placed |-> FALSE]

(* The walk goes round once at most where there is an empty bucket.  Where *)
(* there is none the code walks for ever; the walk is cut off here, in a   *)
(* state that RoomToInsert does not allow, or on the way to one.           *)
Placed(b, i, d, entry) ==
    LET walk[r \in 0 .. BucketCount(b)] ==
            IF r = 0
            THEN [buckets |-> b, at |-> i, distance |-> d, entry |-> entry,
                  probes |-> 0, placed |-> FALSE]
            ELSE Carried(walk[r - 1])
    IN walk[BucketCount(b)]

(* Mutant: only the next entry moves back.                                 *)
BackwardShift_Once(b, hole) ==
    LET next == NextBucket(b, hole) IN
    IF IsEmpty(b, next) \/ DistanceFromIdeal(b, next) = 0 THEN b
    ELSE [b EXCEPT ![hole] = b[next], ![next] = b[hole]]

(* backward_shift(): the entries behind the emptied bucket move one bucket *)
(* back, up to an empty bucket or one that is at its ideal.                *)
BackwardShift(b, hole) ==
    LET n == BucketCount(b)
        At(d) == (hole + d) % n
        run == Min({d \in 1 .. n : IsEmpty(b, At(d)) \/ DistanceFromIdeal(b, At(d)) = 0})
    IN  [i \in DOMAIN b |->
            LET d == (i - hole) % n IN
            IF d < run - 1 THEN b[At(d + 1)]
            ELSE IF d = run - 1 THEN b[hole] ELSE b[i]]

(* shift_indexes_in_buckets(): for each value from the index from on, the  *)
(* first bucket on the way from its ideal that still has the index the     *)
(* value had before is given the new one.                                  *)
Renumbered(b, values, iv, delta) ==
    LET h == Hash[values[iv + 1].key]
        d == Min({n \in 0 .. BucketCount(b) - 1 : b[Probed(b, h, n)].index = iv - delta})
    IN [b EXCEPT ![Probed(b, h, d)].index = iv]

ShiftIndexes(b, values, from, delta) ==
    LET shifted[r \in 0 .. Len(values) - from] ==
            IF r = 0 THEN b ELSE Renumbered(shifted[r - 1], values, from + r - 1, delta)
    IN shifted[Len(values) - from]

(***************************************************************************)
(* Growing.                                                                *)
(***************************************************************************)
(* Mutant: the threshold stays as it was for another number of buckets.    *)
WithMaxLoad_OldThreshold(t, ml) == [t EXCEPT !.maxLoad = ml]

(* max_load_factor(ml): the value is clamped and the clamped value is then *)
(* overwritten, so that any factor is taken.                               *)
WithMaxLoad(t, ml) ==
    [t EXCEPT !.maxLoad = ml, !.threshold = Threshold(BucketCount(t.buckets), ml)]

Reinserted(b, entry) ==
    IF entry.index = EMPTY THEN b
    ELSE Placed(b, BucketForHash(b, entry.hash), 0, entry).buckets

RehashedTo(t, count) ==
    LET n == IF count > 0 THEN RoundUpToPowerOfTwo(count) ELSE 0
        old == t.buckets
        fresh[r \in 0 .. BucketCount(old)] ==
            IF r = 0 THEN VacantBuckets(n) ELSE Reinserted(fresh[r - 1], old[r - 1])
    IN IF n = BucketCount(old) THEN t
       ELSE WithMaxLoad([t EXCEPT !.buckets = fresh[BucketCount(old)], !.grow = FALSE],
                        t.maxLoad)

NeededFor(t, size) == CeilDiv(size * 100, t.maxLoad)

Rehashed(t, count) == RehashedTo(t, Max({count, NeededFor(t, Len(t.values))}))

Reserved(t, count) == Rehashed(t, NeededFor(t, count))

MustGrow(t) == t.grow \/ Len(t.values) >= t.threshold

GrownOnHighLoad(t) ==
    IF MustGrow(t)
    THEN [RehashedTo(t, Max({1, 2 * BucketCount(t.buckets)})) EXCEPT !.grow = FALSE]
    ELSE t

(***************************************************************************)
(* Inserting.                                                              *)
(***************************************************************************)
(* The first loop of insert_impl() and insert_at_position_impl(): the      *)
(* distance at which the key is met or its place is.                       *)
InsertDistance(t, k) ==
    LET b == t.buckets IN
    IF b = << >> THEN 0
    ELSE Min({n \in 0 .. BucketCount(b) :
                LET i == Probed(b, Hash[k], n) IN
                \/ IsEmpty(b, i)
                \/ n > DistanceFromIdeal(b, i)
                \/ HoldsKey(t, i, k)})

MetAt(t, k, d) ==
    LET b == t.buckets
        i == Probed(b, Hash[k], d)
    IN /\ b # << >>
       /\ ~ IsEmpty(b, i)
       /\ d <= DistanceFromIdeal(b, i)
       /\ HoldsKey(t, i, k)

(* insert_index(), which also asks for a growth at the next insertion when *)
(* the walk was long.                                                      *)
WithIndex(t, k, d, index) ==
    LET walk == Placed(t.buckets, Probed(t.buckets, Hash[k], d), d,
                       [index |-> index, hash |-> Hash[k]])
    IN [t EXCEPT
          !.buckets = walk.buckets,
          !.grow = \/ @
                   \/ /\ walk.probes > NProbes
                      /\ 100 * Len(t.values)
                            >= MinLoadFactorToGrow * BucketCount(t.buckets)]

(* insert_at_position_impl(): before the value at offset p.                *)
InsertedAt(t, p, e) ==
    LET d == InsertDistance(t, e.key)
        grown == GrownOnHighLoad(t)
        last == Len(t.values)
        placed == WithIndex([grown EXCEPT !.values =
                                SubSeq(@, 1, p) \o <<e>> \o SubSeq(@, p + 1, last)],
                            e.key, IF MustGrow(t) THEN 0 ELSE d, p)
    IN IF MetAt(t, e.key, d) THEN t
       ELSE IF p = last THEN placed
       ELSE [placed EXCEPT !.buckets = ShiftIndexes(@, placed.values, p + 1, 1)]

(* insert_impl(), behind insert(), emplace(), try_emplace(), operator[]    *)
(* and their hinted forms (a hint that names the key changes nothing, as   *)
(* does a key that is found).                                              *)
Inserted(t, e) == InsertedAt(t, Len(t.values), e)

(* Mutant: the value is written to the end of the order, where an          *)
(* insertion would have put it, and not where the key is.                  *)
Assigned_AtEnd(t, e) ==
    LET with == Inserted(t, e)
    IN [with EXCEPT !.values[Len(with.values)] = e]

(* insert_or_assign()                                                      *)
Assigned(t, e) ==
    LET with == Inserted(t, e)
        i == CHOOSE j \in Find(with, e.key) : TRUE
    IN [with EXCEPT !.values[i] = e]

(* insert(first, last): the room left under the threshold is computed in   *)
(* unsigned arithmetic, and is huge when the threshold is below the size.  *)
(* The assertion of line 667 that it is not is compiled in with TSL_DEBUG  *)
(* alone.  It would fail of the tables where short compares below: one of  *)
(* a single bucket and value, one reloaded, one with a lowered factor.     *)
InsertedEach(t, es) ==
    LET with[r \in 0 .. Len(es)] == IF r = 0 THEN t ELSE Inserted(with[r - 1], es[r])
    IN with[Len(es)]

InsertedAll(t, es) ==
    LET size == Len(t.values)
        short == t.threshold >= size /\ t.threshold - size < Len(es)
    IN InsertedEach(IF short THEN Reserved(t, size + Len(es)) ELSE t, es)

(***************************************************************************)
(* Erasing.                                                                *)
(***************************************************************************)
(* Mutant: the entries behind the erased one stay where they are.          *)
ErasedBucket_Hole(t, i) ==
    LET index == t.buckets[i].index
        values == RemoveAt(t.values, index + 1)
    IN [t EXCEPT !.values = values,
                 !.buckets = [ShiftIndexes(@, values, index, -1) EXCEPT ![i] = Vacant]]

(* erase_value_from_bucket(), behind erase(pos), erase(key), pop_back().   *)
ErasedBucket(t, i) ==
    LET index == t.buckets[i].index
        values == RemoveAt(t.values, index + 1)
        shifted == IF index = Len(values) THEN t.buckets
                   ELSE ShiftIndexes(t.buckets, values, index, -1)
    IN [t EXCEPT !.values = values,
                 !.buckets = BackwardShift([shifted EXCEPT ![i] = Vacant], i)]

Erased(t, k) ==
    LET i == FindKey(t, k) IN IF i = NoBucket THEN t ELSE ErasedBucket(t, i)

(* unordered_erase(): the value is swapped with the last one first.        *)
ErasedUnordered(t, k) ==
    LET i == FindKey(t, k)
        last == Len(t.values)
        j == FindKey(t, t.values[last].key)
        at == t.buckets[i].index
        swapped == [t EXCEPT
            !.values = [@ EXCEPT ![at + 1] = t.values[last],
                                 ![last] = t.values[at + 1]],
            !.buckets = [@ EXCEPT ![i].index = t.buckets[j].index,
                                  ![j].index = at]]
    IN IF i = NoBucket THEN t
       ELSE ErasedBucket(IF k = t.values[last].key THEN t ELSE swapped, i)

(* One round of the scan of erase(first, last) over the buckets: a bucket  *)
(* of an erased value is emptied and closed, and looked at again.          *)
Scanned(w, from, to) ==
    LET b == w.buckets
        index == b[w.at].index
    IN IF w.at = BucketCount(b) THEN w
       ELSE IF index \in from .. to - 1
       THEN [w EXCEPT !.buckets = BackwardShift([b EXCEPT ![w.at] = Vacant], w.at)]
       ELSE [buckets |-> IF index >= to THEN [b EXCEPT ![w.at].index = index - (to - from)]
                                        ELSE b,
             at |-> w.at + 1]

(* A round for each bucket and one for each value.                         *)
EraseScan(b, from, to) ==
    LET rounds == BucketCount(b) + (to - from)
        scan[r \in 0 .. rounds] ==
            IF r = 0 THEN [buckets |-> b, at |-> 0] ELSE Scanned(scan[r - 1], from, to)
    IN scan[rounds].buckets

ErasedRange(t, from, to) ==
    IF from = to THEN t
    ELSE [t EXCEPT
            !.values = SubSeq(@, 1, from) \o SubSeq(@, to + 1, Len(@)),
            !.buckets = EraseScan(@, from, to)]

Cleared(t) ==
    [t EXCEPT !.buckets = VacantBuckets(BucketCount(t.buckets)),
              !.values = << >>, !.grow = FALSE]

(***************************************************************************)
(* Whole tables.                                                           *)
(***************************************************************************)
(* What a move constructor leaves behind.                                  *)
MovedFrom(t) ==
    [t EXCEPT !.buckets = << >>, !.values = << >>, !.threshold = 0, !.grow = FALSE]

(* deserialize() refuses any other load factor, which a table may have.    *)
Loadable(t) == t.maxLoad \in MinMaxLoadFactor .. MaxMaxLoadFactor

(* deserialize() of what serialize() wrote of t, into a new table: the     *)
(* values one by one when the hashes need not agree, and otherwise values  *)
(* and buckets as they were.  The threshold was set for no buckets.        *)
Deserialized(t, hashCompatible) ==
    LET fresh == WithMaxLoad(Constructed(0), t.maxLoad) IN
    IF t.buckets = << >> THEN fresh
    ELSE IF hashCompatible THEN [fresh EXCEPT !.buckets = t.buckets, !.values = t.values]
    ELSE InsertedEach(Reserved(fresh, Len(t.values)), t.values)

(***************************************************************************)
(* The operations.                                                         *)
(***************************************************************************)
(* The new tables of some objects.  MaxBuckets bounds what is explored.    *)
Become(new) ==
    /\ \A m \in DOMAIN new : BucketCount(new[m].buckets) <= MaxBuckets[m]
    /\ table' = [m \in Maps |-> IF m \in DOMAIN new THEN new[m] ELSE table[m]]

Becomes(m, t) == Become([o \in {m} |-> t])

Init == table = [m \in Maps |-> Constructed(0)]

Construct(m) == \E n \in Sizes : Becomes(m, Constructed(n))

Insert(m) == \E e \in Entries : Becomes(m, Inserted(table[m], e))

InsertOrAssign(m) == \E e \in Entries : Becomes(m, Assigned(table[m], e))

InsertRange(m) ==
    \E e \in Entries, f \in Entries : Becomes(m, InsertedAll(table[m], <<e, f>>))

InsertAtPosition(m, p, e) == Becomes(m, InsertedAt(table[m], p, e))

Erase(m) == \E k \in Keys : Becomes(m, Erased(table[m], k))

PopBack(m) ==
    /\ table[m].values # << >>
    /\ Becomes(m, Erased(table[m], Last(table[m].values).key))

EraseRange(m, from, to) == Becomes(m, ErasedRange(table[m], from, to))

UnorderedErase(m) ==
    /\ table[m].values # << >>
    /\ \E k \in Keys : Becomes(m, ErasedUnordered(table[m], k))

Clear(m) == Becomes(m, Cleared(table[m]))

AssignList(m) ==
    \E e \in Entries, f \in Entries :
        Becomes(m, InsertedAll(Reserved(Cleared(table[m]), 2), <<e, f>>))

SetMaxLoadFactor(m) ==
    \E ml \in MaxLoadFactors : Becomes(m, WithMaxLoad(table[m], ml))

Rehash(m) == \E n \in Sizes : Becomes(m, Rehashed(table[m], n))

Reserve(m) == \E n \in Sizes : Becomes(m, Reserved(table[m], n))

CopyFrom(m, o) == Becomes(m, table[o])

(* A move constructor builds m anew.                                       *)
MoveConstruct(m, o) ==
    m # o /\ Become([x \in {m, o} |-> IF x = m THEN table[o] ELSE MovedFrom(table[o])])

(* Move assignment swaps and clears the other.                             *)
MoveAssign(m, o) ==
    Become([x \in {m, o} |-> IF x = o THEN Cleared(table[m]) ELSE table[o]])

SwapWith(m, o) == Become([x \in {m, o} |-> IF x = m THEN table[o] ELSE table[m]])

(* A deserialize() that throws has made no table, and leaves m as it was.  *)
DeserializeFrom(m, o) ==
    /\ Loadable(table[o])
    /\ \E compatible \in BOOLEAN : Becomes(m, Deserialized(table[o], compatible))

(* Every operation but the two that put a value in the middle of the order *)
(* or take a range out of it.                                              *)
NextPlain ==
    \/ \E m \in Maps :
        \/ Construct(m) \/ Insert(m) \/ InsertOrAssign(m) \/ InsertRange(m)
        \/ Erase(m) \/ PopBack(m) \/ UnorderedErase(m) \/ Clear(m) \/ AssignList(m)
        \/ SetMaxLoadFactor(m) \/ Rehash(m) \/ Reserve(m)
    \/ \E m, o \in Maps :
        \/ CopyFrom(m, o) \/ MoveConstruct(m, o) \/ MoveAssign(m, o)
        \/ SwapWith(m, o) \/ DeserializeFrom(m, o)

Next ==
    \/ NextPlain
    \/ \E m \in Maps, e \in Entries :
        \E p \in 0 .. Len(table[m].values) : InsertAtPosition(m, p, e)
    \/ \E m \in Maps :
        \E from, to \in 0 .. Len(table[m].values) : from <= to /\ EraseRange(m, from, to)

Spec == Init /\ [][Next]_table

PlainSpec == Init /\ [][NextPlain]_table

(***************************************************************************)
(* Properties.                                                             *)
(***************************************************************************)
(* The map that the values are, with the buckets left out.                 *)
Map == INSTANCE OrderedMap WITH entries <- [m \in Maps |-> table[m].values]

(* After any sequence of operations every key of the map is found, at the  *)
(* value it was inserted with, no other key is, and no bucket is left over *)
(* from a value that is gone (find_key(), ordered_hash.h:1165, against all *)
(* the ways buckets are renumbered, displaced and shifted).                *)
FindsWhatItHolds ==
    \A m \in Maps :
        LET t == table[m] IN
        /\ Cardinality({i \in DOMAIN t.buckets : ~ IsEmpty(t.buckets, i)}) = Len(t.values)
        /\ \A k \in Keys : Find(t, k) = Map!Find(t.values, k)

(* The robin hood order that lets a probe stop early: an entry away from   *)
(* its ideal bucket stands behind an occupied one that is at most one step *)
(* nearer to its own (ordered_hash.h:1174, 1252, 1326).                    *)
RobinHoodOrder ==
    \A m \in Maps :
        LET b == table[m].buckets IN
        \A i \in DOMAIN b :
            (~ IsEmpty(b, i) /\ DistanceFromIdeal(b, i) > 0) =>
                LET before == (i - 1) % BucketCount(b) IN
                /\ ~ IsEmpty(b, before)
                /\ DistanceFromIdeal(b, before) >= DistanceFromIdeal(b, i) - 1

(* The walks of insert_index() and rehash_impl() end: the values never     *)
(* outnumber the buckets, and after the test for a growth an insertion     *)
(* meets an empty one, however the table was made, rehashed, moved from,   *)
(* reloaded or given another load factor (ordered_hash.h:1205, 1411,       *)
(* 1472).  It takes load factors of 100 per cent at most: nothing in the   *)
(* code keeps a larger one out, for which this is false.                   *)
RoomToInsert ==
    \A m \in Maps :
        LET t == table[m]
            grown == GrownOnHighLoad(t).buckets
        IN  /\ Len(t.values) <= BucketCount(t.buckets)
            /\ \E i \in DOMAIN grown : IsEmpty(grown, i)

(* A table keeps the order of insertion as ordered_map.h promises: every   *)
(* operation has the effect on the sequence of values that the map's       *)
(* interface states, whatever happens to the buckets.                      *)
ImplementsOrderedMap == Map!Spec
=============================================================================
