--------------------------- MODULE MCOrderedHash ----------------------------
(***************************************************************************)
(* OrderedHash with three keys, two of which have the same hash and meet   *)
(* the third in tables of two, four and eight buckets, at the end of the   *)
(* array.                                                                  *)
(***************************************************************************)
EXTENDS OrderedHash, TLC

CONSTANTS k1, k2, k3, d1, d2, m1, m2

(* The second object is a small one: it is the other side of copies, moves *)
(* and swaps.                                                              *)
MCMaxBuckets == m1 :> 8 @@ m2 :> 1

(* One key may be given either of two data.                                *)
MCEntries == [key : Keys, data : {d1}] \cup [key : {k1}, data : {d2}]

MCHash == k1 :> 3 @@ k2 :> 3 @@ k3 :> 4

(* No entry is away from its ideal bucket.                                 *)
NoneDisplaced(t) ==
    \A i \in DOMAIN t.buckets :
        IsEmpty(t.buckets, i) \/ DistanceFromIdeal(t.buckets, i) = 0

(* No entry that belongs to the end of the array stands at its beginning.  *)
NoneWrapped(t) ==
    \A i \in DOMAIN t.buckets :
        IsEmpty(t.buckets, i) \/ BucketForHash(t.buckets, t.buckets[i].hash) <= i

(* The operations in the middle of the order, in the tables in which they  *)
(* keep the buckets right.                                                 *)
MCNext ==
    \/ NextPlain
    \/ \E m \in Maps, e \in Entries :
        \E p \in 0 .. Len(table[m].values) :
            /\ p = Len(table[m].values) \/ NoneDisplaced(InsertedAt(table[m], p, e))
            /\ InsertAtPosition(m, p, e)
    \/ \E m \in Maps :
        \E from, to \in 0 .. Len(table[m].values) :
            /\ from <= to
            /\ to = Len(table[m].values) \/ NoneWrapped(table[m])
            /\ EraseRange(m, from, to)

MCSpec == Init /\ [][MCNext]_table

(* Each of the two without its restriction.                                *)
InsertAtSpec ==
    Init /\ [][\/ NextPlain
              \/ \E m \in Maps, e \in Entries :
                  \E p \in 0 .. Len(table[m].values) : InsertAtPosition(m, p, e)]_table

EraseRangeSpec ==
    Init /\ [][\/ NextPlain
              \/ \E m \in Maps :
                  \E from, to \in 0 .. Len(table[m].values) :
                      from <= to /\ EraseRange(m, from, to)]_table
=============================================================================
