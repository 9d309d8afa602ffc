----------------------------- MODULE OrderedMap -----------------------------
(***************************************************************************)
(* What tsl::ordered_map promises (src/common/ordered_map.h): a map that   *)
(* remembers the order in which its keys were inserted.  Each object is a  *)
(* sequence of key/data pairs without holes and without a key held twice;  *)
(* hashing, buckets and load factors are not visible here.  OrderedHash is *)
(* the hash table behind it, and is shown to implement this module.        *)
(***************************************************************************)
EXTENDS Integers, Sequences, SequencesExt

CONSTANTS
    Maps,   \* the map objects
    Keys,
    Entries   \* the pairs of a key and its data that may be inserted

VARIABLE entries   \* for each map, its pairs in order

(* find(), count(), equal_range(): where a key stands, if it is held.      *)
Find(s, k) == {i \in DOMAIN s : s[i].key = k}

Holds(s, k) == Find(s, k) # {}

(* at(), operator[].                                                       *)
PositionOf(s, k) == CHOOSE i \in Find(s, k) : TRUE

(* insert(), emplace(), try_emplace() and their hinted forms: a key already *)
(* in the map keeps its place and its data.                                 *)
Inserted(s, e) == IF Holds(s, e.key) THEN s ELSE Append(s, e)

(* insert_or_assign(): the data is replaced in place.                      *)
Assigned(s, e) ==
    IF Holds(s, e.key) THEN [s EXCEPT ![PositionOf(s, e.key)] = e]
                       ELSE Append(s, e)

(* insert(first, last) and the initializer lists: one by one, in order.    *)
InsertedAll(s, es) == FoldLeft(Inserted, s, es)

(* insert_at_position(): before the element at offset p, which moves one   *)
(* position to the right with all that follow it.                          *)
InsertedAt(s, p, e) ==
    IF Holds(s, e.key) THEN s
    ELSE SubSeq(s, 1, p) \o <<e>> \o SubSeq(s, p + 1, Len(s))

(* erase(key), erase(pos), pop_back(): the order of the others is kept and *)
(* no hole is left.                                                        *)
Erased(s, k) == SelectSeq(s, LAMBDA e : e.key # k)

(* erase(first, last): the elements at the offsets from .. to - 1.         *)
ErasedRange(s, from, to) == SubSeq(s, 1, from) \o SubSeq(s, to + 1, Len(s))

(* unordered_erase(): the last element takes the place of the erased one.  *)
ErasedUnordered(s, k) ==
    IF ~ Holds(s, k) THEN s
    ELSE Front([s EXCEPT ![PositionOf(s, k)] = Last(s)])

TypeInvariant == entries \in [Maps -> Seq(Entries)]

Init == entries = [m \in Maps |-> << >>]

Becomes(m, s) == entries' = [entries EXCEPT ![m] = s]

Insert(m) == \E e \in Entries : Becomes(m, Inserted(entries[m], e))

InsertOrAssign(m) == \E e \in Entries : Becomes(m, Assigned(entries[m], e))

InsertRange(m) ==
    \E e \in Entries, f \in Entries : Becomes(m, InsertedAll(entries[m], <<e, f>>))

InsertAtPosition(m) ==
    \E e \in Entries, p \in 0 .. Len(entries[m]) :
        Becomes(m, InsertedAt(entries[m], p, e))

Erase(m) == \E k \in Keys : Becomes(m, Erased(entries[m], k))

EraseRange(m) ==
    \E from, to \in 0 .. Len(entries[m]) :
        from <= to /\ Becomes(m, ErasedRange(entries[m], from, to))

UnorderedErase(m) == \E k \in Keys : Becomes(m, ErasedUnordered(entries[m], k))

Clear(m) == Becomes(m, << >>)

(* Construction from a list and assignment of a list.                      *)
AssignList(m) ==
    \E e \in Entries, f \in Entries : Becomes(m, InsertedAll(<< >>, <<e, f>>))

(* Copies and deserialize(): the destination holds what the source holds.  *)
Copy(m, from) == Becomes(m, entries[from])

(* Moves: the destination holds what the source held, which is left empty. *)
Move(m, from) ==
    /\ m # from
    /\ entries' = [entries EXCEPT ![m] = entries[from], ![from] = << >>]

Swap(m, with) ==
    entries' = [entries EXCEPT ![m] = entries[with], ![with] = entries[m]]

Next ==
    \/ \E m \in Maps :
        \/ Insert(m) \/ InsertOrAssign(m) \/ InsertRange(m) \/ InsertAtPosition(m)
        \/ Erase(m) \/ EraseRange(m) \/ UnorderedErase(m) \/ Clear(m)
        \/ AssignList(m)
    \/ \E m, o \in Maps : Copy(m, o) \/ Move(m, o) \/ Swap(m, o)

Spec == Init /\ [][Next]_entries
=============================================================================
