--------------------------- MODULE MovementProofs ---------------------------
(***************************************************************************)
(* For all boxes, whatever their size and wherever they are: resolving a   *)
(* hit leaves the two apart, moves no further than they overlapped, and    *)
(* leaves boxes alone that were apart.  Touching, nested and concentric    *)
(* boxes, and boxes of no size, are boxes.                                 *)
(*                                                                         *)
(* For all sizes, speeds and zones: the velocity of a body stays within    *)
(* what keys, jumps and gravity give.  For all zones with room for a       *)
(* player: a body stays in the zone and out of its boxes, gets its jump    *)
(* back from the ground alone, and never jumps a third time in the air.    *)
(*                                                                         *)
(* The argument is about the loop over the objects: a player pushed out of *)
(* an object touches it, and one that touches an object is too far from    *)
(* the others, and from the walls beyond it, to be in them.                *)
(***************************************************************************)
EXTENDS Movement, Recursion, SequenceTheorems, TLAPS

-----------------------------------------------------------------------------
(* Pushing a box out of another                                            *)

\* The parts of a box are integers.
LEMMA BoxParts ==
  ASSUME NEW b \in Boxes
  PROVE  /\ b.center.x \in Int /\ b.center.y \in Int
         /\ b.half.x \in Nat /\ b.half.y \in Nat
BY DEF Boxes, Vecs

\* The parts of a vector.
LEMMA VecParts ==
  \A m, n : Vec(m, n).x = m /\ Vec(m, n).y = n
BY DEF Vec

\* How far two boxes overlap is a pair of integers.
LEMMA OverlapParts ==
  ASSUME NEW a \in Boxes, NEW b \in Boxes
  PROVE  /\ Overlap(a, b).x = (a.half.x + b.half.x) - Magnitude(b.center.x - a.center.x)
         /\ Overlap(a, b).y = (a.half.y + b.half.y) - Magnitude(b.center.y - a.center.y)
         /\ Overlap(a, b).x \in Int /\ Overlap(a, b).y \in Int
<1>1. \A n \in Int : Magnitude(n) \in Int
  BY DEF Magnitude
<1>2. /\ Overlap(a, b).x = a.half.x + b.half.x - Magnitude(b.center.x - a.center.x)
      /\ Overlap(a, b).y = a.half.y + b.half.y - Magnitude(b.center.y - a.center.y)
  BY VecParts, Zenon DEF Overlap
<1>3. /\ a.center.x \in Int /\ a.center.y \in Int /\ a.half.x \in Nat /\ a.half.y \in Nat
      /\ b.center.x \in Int /\ b.center.y \in Int /\ b.half.x \in Nat /\ b.half.y \in Nat
  BY BoxParts
<1> QED BY <1>1, <1>2, <1>3

\* What hit() returns for the way out, by cases.
LEMMA Way ==
  ASSUME NEW a \in Boxes, NEW b \in Boxes
  PROVE  LET v == Hit(a, b).pen
             o == Overlap(a, b)
         IN  \/ ~ Overlapping(a, b) /\ v.x = 0 /\ v.y = 0
             \/ /\ Overlapping(a, b) /\ o.x <= o.y
                /\ v.x = o.x * Sign(b.center.x - a.center.x) /\ v.y = 0
             \/ /\ Overlapping(a, b) /\ ~ (o.x <= o.y)
                /\ v.x = 0 /\ v.y = o.y * Sign(b.center.y - a.center.y)
<1> DEFINE delta == Minus(b.center, a.center)
           o == Overlap(a, b)
<1>1. delta.x = b.center.x - a.center.x /\ delta.y = b.center.y - a.center.y
  BY VecParts, Zenon DEF Minus
<1>2. CASE ~ Overlapping(a, b)
  <2>1. Hit(a, b).pen = Vec(0, 0)
    BY <1>2 DEF Hit
  <2> QED BY <1>2, <2>1, VecParts, Zenon
<1>3. CASE Overlapping(a, b) /\ o.x <= o.y
  <2>1. Hit(a, b).pen = Vec(o.x * Sign(delta.x), 0)
    BY <1>3 DEF Hit
  <2>2. Hit(a, b).pen.x = o.x * Sign(delta.x) /\ Hit(a, b).pen.y = 0
    BY <2>1, SMT DEF Vec
  <2> QED BY <1>1, <1>3, <2>2, Zenon
<1>4. CASE Overlapping(a, b) /\ ~ (o.x <= o.y)
  <2>1. Hit(a, b).pen = Vec(0, o.y * Sign(delta.y))
    BY <1>4 DEF Hit
  <2>2. Hit(a, b).pen.x = 0 /\ Hit(a, b).pen.y = o.y * Sign(delta.y)
    BY <2>1, SMT DEF Vec
  <2> QED BY <1>1, <1>4, <2>2, Zenon
<1> QED BY <1>2, <1>3, <1>4

\* Along one axis: taking the overlap off, towards the side the other centre is
\* not on, brings the overlap to nothing.
LEMMA AxisApart ==
  ASSUME NEW c \in Int, NEW d \in Int, NEW r \in Int,
         r - Magnitude(d - c) > 0
  PROVE  r - Magnitude(d - (c - (r - Magnitude(d - c)) * Sign(d - c))) = 0
<1>1. CASE d - c < 0
  BY <1>1, SMT DEF Magnitude, Sign
<1>2. CASE ~ (d - c < 0)
  BY <1>2, SMT DEF Magnitude, Sign
<1> QED BY <1>1, <1>2

\* The push changes where the box is and nothing else.
LEMMA Pushed ==
  ASSUME NEW a \in Boxes, NEW b \in Boxes
  PROVE  /\ PushedOut(a, b).half = a.half
         /\ PushedOut(a, b).center = Vec(a.center.x - Hit(a, b).pen.x,
                                         a.center.y - Hit(a, b).pen.y)
         /\ PushedOut(a, b).center.x = a.center.x - Hit(a, b).pen.x
         /\ PushedOut(a, b).center.y = a.center.y - Hit(a, b).pen.y
<1>1. a = [center |-> a.center, half |-> a.half]
  BY DEF Boxes
<1>2. PushedOut(a, b) = [center |-> Minus(a.center, Hit(a, b).pen), half |-> a.half]
  BY <1>1 DEF PushedOut
<1>3. PushedOut(a, b).center = Vec(a.center.x - Hit(a, b).pen.x,
                                   a.center.y - Hit(a, b).pen.y)
  BY <1>2 DEF Minus
<1>4. PushedOut(a, b).half = a.half
  BY <1>2
<1>5. /\ PushedOut(a, b).center.x = a.center.x - Hit(a, b).pen.x
      /\ PushedOut(a, b).center.y = a.center.y - Hit(a, b).pen.y
  BY <1>3, SMT DEF Vec
<1> QED BY <1>3, <1>4, <1>5, Zenon

\* What is pushed out is still a box: of the same size, at integers.
THEOREM StaysABox ==
  ASSUME NEW a \in Boxes, NEW b \in Boxes
  PROVE  PushedOut(a, b) \in Boxes /\ PushedOut(a, b).half = a.half
<1>1. \A n \in Int, m \in Int : n * Sign(m) \in Int
  BY DEF Sign
<1>2. Hit(a, b).pen.x \in Int /\ Hit(a, b).pen.y \in Int
  <2>1. /\ b.center.x - a.center.x \in Int /\ b.center.y - a.center.y \in Int
        /\ Overlap(a, b).x \in Int /\ Overlap(a, b).y \in Int
    BY BoxParts, OverlapParts
  <2>2. /\ Overlap(a, b).x * Sign(b.center.x - a.center.x) \in Int
        /\ Overlap(a, b).y * Sign(b.center.y - a.center.y) \in Int
    BY <1>1, <2>1
  <2>3. 0 \in Int
    OBVIOUS
  <2> QED BY <2>2, <2>3, Way, Zenon
<1>3. Vec(a.center.x - Hit(a, b).pen.x, a.center.y - Hit(a, b).pen.y) \in Vecs
  BY <1>2, BoxParts DEF Vecs, Vec
<1>4. PushedOut(a, b) = [center |-> PushedOut(a, b).center, half |-> PushedOut(a, b).half]
  BY DEF PushedOut, Boxes
<1>5. a.half \in [x : Nat, y : Nat]
  BY DEF Boxes
<1> QED BY <1>3, <1>4, <1>5, Pushed DEF Boxes

\* The response to a hit (movement.cpp:104-110) takes a body out of the object
\* it has run into, wherever the two are and whatever their sizes.
THEOREM PushedApart ==
  ASSUME NEW a \in Boxes, NEW b \in Boxes
  PROVE  ~ Overlapping(PushedOut(a, b), b)
<1> DEFINE o == Overlap(a, b)
           v == Hit(a, b).pen
           p == PushedOut(a, b)
<1>1. p \in Boxes /\ p.half = a.half
  BY StaysABox
<1>2. p.center.x = a.center.x - v.x /\ p.center.y = a.center.y - v.y
  BY Pushed, Zenon
<1>3. /\ Overlap(p, b).x = (a.half.x + b.half.x) - Magnitude(b.center.x - (a.center.x - v.x))
      /\ Overlap(p, b).y = (a.half.y + b.half.y) - Magnitude(b.center.y - (a.center.y - v.y))
  BY <1>1, <1>2, OverlapParts
<1> HIDE DEF o, v, p
<1>4. CASE ~ Overlapping(a, b) /\ v.x = 0 /\ v.y = 0
  <2>1. a.center.x - 0 = a.center.x /\ a.center.y - 0 = a.center.y
    BY BoxParts
  <2>2. Overlap(p, b).x = o.x /\ Overlap(p, b).y = o.y
    BY <1>3, <1>4, <2>1, OverlapParts DEF o
  <2> QED BY <1>4, <2>2 DEF Overlapping, o, p
<1>5. CASE Overlapping(a, b) /\ v.x = o.x * Sign(b.center.x - a.center.x)
  <2>1. o.x = (a.half.x + b.half.x) - Magnitude(b.center.x - a.center.x)
    BY OverlapParts, Zenon DEF o
  <2>2. o.x > 0
    BY <1>5, Zenon DEF o, Overlapping
  <2>3. /\ a.center.x \in Int /\ b.center.x \in Int
        /\ a.half.x + b.half.x \in Int
    BY BoxParts
  <2> DEFINE r == a.half.x + b.half.x
             c == a.center.x
             d == b.center.x
  <2>4. r - Magnitude(d - c) > 0
    BY <2>1, <2>2
  <2>5. r - Magnitude(d - (c - (r - Magnitude(d - c)) * Sign(d - c))) = 0
    <3> HIDE DEF r, c, d
    <3> QED BY <2>3, <2>4, AxisApart DEF r, c, d
  <2>6. Overlap(p, b).x = 0
    BY <1>3, <1>5, <2>1, <2>5, Zenon
  <2> QED BY <2>6 DEF Overlapping, p
<1>6. CASE Overlapping(a, b) /\ v.y = o.y * Sign(b.center.y - a.center.y)
  <2>1. o.y = (a.half.y + b.half.y) - Magnitude(b.center.y - a.center.y)
    BY OverlapParts, Zenon DEF o
  <2>2. o.y > 0
    BY <1>6, Zenon DEF o, Overlapping
  <2>3. /\ a.center.y \in Int /\ b.center.y \in Int
        /\ a.half.y + b.half.y \in Int
    BY BoxParts
  <2> DEFINE r == a.half.y + b.half.y
             c == a.center.y
             d == b.center.y
  <2>4. r - Magnitude(d - c) > 0
    BY <2>1, <2>2
  <2>5. r - Magnitude(d - (c - (r - Magnitude(d - c)) * Sign(d - c))) = 0
    <3> HIDE DEF r, c, d
    <3> QED BY <2>3, <2>4, AxisApart DEF r, c, d
  <2>6. Overlap(p, b).y = 0
    BY <1>3, <1>6, <2>1, <2>5, Zenon
  <2> QED BY <2>6 DEF Overlapping, p
<1> QED BY <1>4, <1>5, <1>6, Way DEF o, v, p

\* hit() takes the shorter way out, and along one axis only: a body that lands on
\* an object is lifted, and not carried sideways (collision.cpp:72-80).
THEOREM LeastPush ==
  ASSUME NEW a \in Boxes, NEW b \in Boxes, Overlapping(a, b)
  PROVE  LET v == Hit(a, b).pen
         IN  /\ v.x = 0 \/ v.y = 0
             /\ Magnitude(v.x) + Magnitude(v.y) <= Overlap(a, b).x
             /\ Magnitude(v.x) + Magnitude(v.y) <= Overlap(a, b).y
<1> DEFINE o == Overlap(a, b)
<1>1. o.x \in Nat /\ o.y \in Nat
  BY OverlapParts DEF Overlapping
<1>2. \A n \in Nat, m \in Int : Magnitude(n * Sign(m)) = n
  <2>1. ASSUME NEW n \in Nat, NEW m \in Int PROVE n * Sign(m) = n \/ n * Sign(m) = - n
    BY DEF Sign
  <2> QED BY <2>1 DEF Magnitude
<1>3. Magnitude(0) = 0
  BY DEF Magnitude
<1>4. b.center.x - a.center.x \in Int /\ b.center.y - a.center.y \in Int
  BY BoxParts
<1> QED BY <1>1, <1>2, <1>3, <1>4, Way

-----------------------------------------------------------------------------
(* Where the push takes a box                                              *)

\* The sides of a box are integers.
LEMMA Sides ==
  ASSUME NEW b \in Boxes
  PROVE  /\ Left(b) = b.center.x - b.half.x /\ Right(b) = b.center.x + b.half.x
         /\ Top(b) = b.center.y - b.half.y /\ Bottom(b) = b.center.y + b.half.y
         /\ Left(b) \in Int /\ Right(b) \in Int /\ Top(b) \in Int /\ Bottom(b) \in Int
BY BoxParts DEF Left, Right, Top, Bottom

\* Along one axis: two intervals reach into each other if each begins before the
\* other ends.
LEMMA AxisMeet ==
  ASSUME NEW c \in Int, NEW d \in Int, NEW h \in Int, NEW k \in Int
  PROVE  /\ (h + k) - Magnitude(d - c) > 0 => c - h < d + k /\ d - k < c + h
         /\ c - h < d + k /\ d - k < c + h => (h + k) - Magnitude(d - c) > 0
BY DEF Magnitude

\* The push takes the first against an end of the second.
LEMMA AxisPush ==
  ASSUME NEW c \in Int, NEW d \in Int, NEW h \in Int, NEW k \in Int, NEW e,
         e = c - ((h + k) - Magnitude(d - c)) * Sign(d - c)
  PROVE  (e + h = d - k /\ c <= d) \/ (e - h = d + k /\ c > d)
BY DEF Magnitude, Sign

\* Two boxes overlap if each begins before the other ends, along both axes.
LEMMA Overlapped ==
  ASSUME NEW a \in Boxes, NEW b \in Boxes
  PROVE  Overlapping(a, b) <=> /\ Left(a) < Right(b) /\ Left(b) < Right(a)
                               /\ Top(a) < Bottom(b) /\ Top(b) < Bottom(a)
<1>2. /\ a.center.x \in Int /\ a.center.y \in Int /\ a.half.x \in Nat /\ a.half.y \in Nat
      /\ b.center.x \in Int /\ b.center.y \in Int /\ b.half.x \in Nat /\ b.half.y \in Nat
  BY BoxParts
<1>3. Overlap(a, b).x > 0 <=> /\ a.center.x - a.half.x < b.center.x + b.half.x
                               /\ b.center.x - b.half.x < a.center.x + a.half.x
  <2> DEFINE c == a.center.x
             d == b.center.x
             h == a.half.x
             k == b.half.x
  <2>1. /\ c \in Int /\ d \in Int /\ h \in Int /\ k \in Int
        /\ Overlap(a, b).x = (h + k) - Magnitude(d - c)
    BY <1>2, OverlapParts
  <2> HIDE DEF c, d, h, k
  <2>2. Overlap(a, b).x > 0 <=> c - h < d + k /\ d - k < c + h
    BY <2>1, AxisMeet
  <2> QED BY <2>2 DEF c, d, h, k
<1>4. Overlap(a, b).y > 0 <=> /\ a.center.y - a.half.y < b.center.y + b.half.y
                               /\ b.center.y - b.half.y < a.center.y + a.half.y
  <2> DEFINE c == a.center.y
             d == b.center.y
             h == a.half.y
             k == b.half.y
  <2>1. /\ c \in Int /\ d \in Int /\ h \in Int /\ k \in Int
        /\ Overlap(a, b).y = (h + k) - Magnitude(d - c)
    BY <1>2, OverlapParts
  <2> HIDE DEF c, d, h, k
  <2>2. Overlap(a, b).y > 0 <=> c - h < d + k /\ d - k < c + h
    BY <2>1, AxisMeet
  <2> QED BY <2>2 DEF c, d, h, k
<1> QED BY <1>3, <1>4 DEF Overlapping, Left, Right, Top, Bottom

\* Whichever way a box is pushed, it ends up against the side it is pushed to.
\* It is pushed up if and only if the normal points up.
LEMMA PushedTo ==
  ASSUME NEW a \in Boxes, NEW b \in Boxes, Overlapping(a, b)
  PROVE  LET p == PushedOut(a, b)
             up == Hit(a, b).normal.y = -1
         IN  \/ /\ p.center.y = a.center.y /\ ~ up
                /\ \/ Right(p) = Left(b) /\ a.center.x <= b.center.x
                   \/ Left(p) = Right(b) /\ a.center.x > b.center.x
             \/ /\ p.center.x = a.center.x
                /\ \/ Bottom(p) = Top(b) /\ a.center.y <= b.center.y
                   \/ Top(p) = Bottom(b) /\ a.center.y > b.center.y /\ ~ up
<1> DEFINE o == Overlap(a, b)
           v == Hit(a, b).pen
           p == PushedOut(a, b)
           up == Hit(a, b).normal.y = -1
<1>1. /\ p.center.x = a.center.x - v.x /\ p.center.y = a.center.y - v.y /\ p.half = a.half
  BY Pushed
<1>2. p \in Boxes
  BY StaysABox
<1>4. /\ a.center.x \in Int /\ a.center.y \in Int /\ a.half.x \in Nat /\ a.half.y \in Nat
      /\ b.center.x \in Int /\ b.center.y \in Int /\ b.half.x \in Nat /\ b.half.y \in Nat
  BY BoxParts
<1>5. CASE o.x <= o.y
  <2>1. v.x = o.x * Sign(b.center.x - a.center.x) /\ v.y = 0
    BY Way, <1>5
  <2>2. ~ up
    BY <1>5 DEF Hit, Vec
  <2>3. p.center.y = a.center.y
    BY <1>1, <1>4, <2>1
  <2>4. p.center.x = a.center.x - ((a.half.x + b.half.x) - Magnitude(b.center.x - a.center.x))
                                    * Sign(b.center.x - a.center.x)
    BY <1>1, <2>1, OverlapParts
  <2>5. \/ p.center.x + a.half.x = b.center.x - b.half.x /\ a.center.x <= b.center.x
        \/ p.center.x - a.half.x = b.center.x + b.half.x /\ a.center.x > b.center.x
    <3> DEFINE c == a.center.x
               d == b.center.x
               h == a.half.x
               k == b.half.x
               e == p.center.x
    <3>1. /\ c \in Int /\ d \in Int /\ h \in Int /\ k \in Int
          /\ e = c - ((h + k) - Magnitude(d - c)) * Sign(d - c)
      BY <1>4, <2>4
    <3> HIDE DEF c, d, h, k, e
    <3>2. (e + h = d - k /\ c <= d) \/ (e - h = d + k /\ c > d)
      BY <3>1, AxisPush
    <3> QED BY <3>2 DEF c, d, h, k, e
  <2> QED BY <1>1, <2>2, <2>3, <2>5 DEF Left, Right
<1>6. CASE ~ (o.x <= o.y)
  <2>1. v.y = o.y * Sign(b.center.y - a.center.y) /\ v.x = 0
    BY Way, <1>6
  <2>2. up => a.center.y <= b.center.y
    <3>1. Hit(a, b).normal = Vec(0, - Sign(Minus(b.center, a.center).y))
      BY <1>6 DEF Hit
    <3>2. Hit(a, b).normal.y = - Sign(b.center.y - a.center.y)
      BY <3>1 DEF Vec, Minus
    <3> QED BY <1>4, <3>2 DEF Sign
  <2>3. p.center.x = a.center.x
    BY <1>1, <1>4, <2>1
  <2>4. p.center.y = a.center.y - ((a.half.y + b.half.y) - Magnitude(b.center.y - a.center.y))
                                    * Sign(b.center.y - a.center.y)
    BY <1>1, <2>1, OverlapParts
  <2>5. \/ p.center.y + a.half.y = b.center.y - b.half.y /\ a.center.y <= b.center.y
        \/ p.center.y - a.half.y = b.center.y + b.half.y /\ a.center.y > b.center.y
    <3> DEFINE c == a.center.y
               d == b.center.y
               h == a.half.y
               k == b.half.y
               e == p.center.y
    <3>1. /\ c \in Int /\ d \in Int /\ h \in Int /\ k \in Int
          /\ e = c - ((h + k) - Magnitude(d - c)) * Sign(d - c)
      BY <1>4, <2>4
    <3> HIDE DEF c, d, h, k, e
    <3>2. (e + h = d - k /\ c <= d) \/ (e - h = d + k /\ c > d)
      BY <3>1, AxisPush
    <3> QED BY <3>2 DEF c, d, h, k, e
  <2>6. a.center.y > b.center.y => ~ up
    BY <1>4, <2>2
  <2> QED BY <1>1, <2>3, <2>5, <2>6 DEF Top, Bottom
<1> QED BY <1>5, <1>6

\* A box that overlaps nothing is left alone.
LEMMA NotPushed ==
  ASSUME NEW a \in Boxes, NEW b \in Boxes, ~ Overlapping(a, b)
  PROVE  PushedOut(a, b) = a /\ Hit(a, b).normal.y # -1
<1>1. Hit(a, b) = [normal |-> Vec(0, 0), pen |-> Vec(0, 0)]
  BY DEF Hit
<1>2. Hit(a, b).normal.y = 0 /\ Hit(a, b).pen.x = 0 /\ Hit(a, b).pen.y = 0
  BY <1>1 DEF Vec
<1>3. a = [center |-> [x |-> a.center.x, y |-> a.center.y], half |-> a.half]
  BY DEF Boxes, Vecs
<1>4. a.center.x - 0 = a.center.x /\ a.center.y - 0 = a.center.y
  BY BoxParts
<1>5. Minus(a.center, Hit(a, b).pen) = [x |-> a.center.x, y |-> a.center.y]
  BY <1>2, <1>4 DEF Minus, Vec
<1>6. PushedOut(a, b) = [center |-> [x |-> a.center.x, y |-> a.center.y], half |-> a.half]
  BY <1>3, <1>5 DEF PushedOut
<1> QED BY <1>2, <1>3, <1>6

-----------------------------------------------------------------------------
(* The velocity                                                            *)

\* The greater of two integers.
LEMMA MaxOfTwo ==
  ASSUME NEW m \in Int, NEW n \in Int
  PROVE  Max({m, n}) = IF m >= n THEN m ELSE n
<1>1. CASE m >= n
  <2>1. \A x \in {m, n} : (\A y \in {m, n} : x >= y) <=> x = m
    BY <1>1
  <2> QED BY <1>1, <2>1 DEF Max
<1>2. CASE ~ (m >= n)
  <2>1. \A x \in {m, n} : (\A y \in {m, n} : x >= y) <=> x = n
    BY <1>2
  <2> QED BY <1>2, <2>1 DEF Max
<1> QED BY <1>1, <1>2

\* The smaller of two integers.
LEMMA MinOfTwo ==
  ASSUME NEW m \in Int, NEW n \in Int
  PROVE  Min({m, n}) = IF m <= n THEN m ELSE n
<1>1. CASE m <= n
  <2>1. \A x \in {m, n} : (\A y \in {m, n} : x <= y) <=> x = m
    BY <1>1
  <2> QED BY <1>1, <2>1 DEF Min
<1>2. CASE ~ (m <= n)
  <2>1. \A x \in {m, n} : (\A y \in {m, n} : x <= y) <=> x = n
    BY <1>2
  <2> QED BY <1>2, <2>1 DEF Min
<1> QED BY <1>1, <1>2

\* The fastest fall and the fastest rise.
Fastest == Gravity * FallFactor
Down == Max({Fastest, Speed})
Up == Max({JumpVelocity, Speed})

\* The limits are natural numbers, and are limits.
LEMMA Limits ==
  /\ Fastest \in Nat /\ Gravity \in Nat /\ Speed \in Nat /\ JumpVelocity \in Nat
  /\ Down \in Nat /\ Down >= Fastest /\ Down >= Speed
  /\ Up \in Nat /\ Up >= JumpVelocity /\ Up >= Speed
<1>1. /\ Fastest \in Nat /\ Gravity \in Nat /\ Speed \in Nat /\ JumpVelocity \in Nat
  BY MovementAssumption DEF Fastest
<1> QED BY <1>1, MaxOfTwo DEF Down, Up

\* A velocity within them.
Limited(v) == v.x \in - Speed .. Speed /\ v.y \in - Up .. Down

\* Whatever keys are held, steering keeps within the limits ...
LEMMA SteeredLimited ==
  ASSUME Limited(vel)
  PROVE  Limited(Steered.vel)
<1>1. Sideways \in - Speed .. Speed
  BY Limits DEF Sideways, Held
<1>2. Held("down", Speed) - Held("up", Speed) \in - Up .. Down
  BY Limits DEF Held
<1>3. - JumpVelocity \in - Up .. Down
  BY Limits
<1>4. \/ Steered.vel = vel
      \/ \E y \in - Up .. Down : Steered.vel = Vec(Sideways, y)
  <2>1. CASE mtype = "WALK" /\ jump = "NONE"
    BY <1>3, <2>1 DEF Steered, Walk, Limited
  <2>2. CASE mtype = "WALK" /\ jump = "MID"
    BY <2>2 DEF Steered, Walk
  <2>3. CASE mtype = "WALK" /\ jump = "SINGLE" /\ "up" \in input
    BY <1>3, <2>3 DEF Steered, Walk
  <2>4. CASE /\ mtype = "WALK" /\ jump # "NONE" /\ jump # "MID"
             /\ ~ (jump = "SINGLE" /\ "up" \in input)
    BY <2>4 DEF Steered, Walk
  <2>5. CASE mtype # "WALK"
    BY <1>2, <2>5 DEF Steered, Fly
  <2> QED BY <2>1, <2>2, <2>3, <2>4, <2>5
<1> QED BY <1>1, <1>4, VecParts DEF Limited

\* ... and so does gravity.
LEMMA FallLimited ==
  ASSUME NEW v, Limited(v)
  PROVE  Limited(Fall(v))
<1>1. CASE mtype = "FLY"
  BY <1>1 DEF Fall
<1>2. CASE mtype # "FLY"
  <2>1. v.y \in Int /\ v.y + Gravity \in Int /\ v.y + Gravity >= - Up
    BY Limits DEF Limited
  <2>2. Min({v.y + Gravity, Fastest}) \in - Up .. Down
    BY <2>1, Limits, MinOfTwo
  <2>3. Fall(v) = Vec(v.x, Min({v.y + Gravity, Fastest}))
    BY <1>2 DEF Fall, Fastest
  <2> QED BY <2>2, <2>3, VecParts DEF Limited
<1> QED BY <1>1, <1>2

\* No sequence of keys and switches makes a body faster than a jump, a key held
\* or the limit on the fall make it (movement.cpp:28-82).
THEOREM SpeedLimited == Spec => []SpeedLimits
<1>1. SpeedLimits <=> Limited(vel)
  BY DEF SpeedLimits, Limited, Up, Down, Fastest
<1>2. Init => SpeedLimits
  <2> SUFFICES ASSUME Init PROVE Limited(vel)
    BY <1>1
  <2>1. vel.x = 0 /\ vel.y = 0
    BY VecParts DEF Init
  <2> QED BY <2>1, Limits DEF Limited
<1>3. SpeedLimits /\ [Next]_vars => SpeedLimits'
  <2> SUFFICES ASSUME Limited(vel), [Next]_vars PROVE SpeedLimits'
    BY <1>1
  <2>1. CASE Update
    <3>1. vel' = Fall(Steered.vel)
      BY <2>1 DEF Update
    <3>2. Limited(vel')
      BY <3>1, SteeredLimited, FallLimited
    <3> QED BY <3>2 DEF SpeedLimits, Limited, Up, Down, Fastest
  <2>2. CASE Spawn
    <3>1. vel'.x = 0 /\ vel'.y = 0
      BY <2>2, VecParts DEF Spawn
    <3>2. Limited(vel')
      BY <3>1, Limits DEF Limited
    <3> QED BY <3>2 DEF SpeedLimits, Limited, Up, Down, Fastest
  <2>3. CASE HandleInput \/ HandleToggleMtype \/ Leave \/ UNCHANGED vars
    <3>1. vel' = vel
      BY <2>3 DEF HandleInput, HandleToggleMtype, Leave, vars, body
    <3> QED BY <3>1 DEF SpeedLimits, Limited, Up, Down, Fastest
  <2> QED BY <2>1, <2>2, <2>3 DEF Next
<1> QED BY <1>2, <1>3, PTL DEF Spec

-----------------------------------------------------------------------------
(* A player, walls and objects                                             *)

\* A player's box inside the zone.
Inside(b) ==
  /\ Left(b) >= 0 /\ Right(b) <= Bounds.x
  /\ Top(b) >= 0 /\ Bottom(b) <= Bounds.y

Player(b) == b \in Boxes /\ b.half = Half /\ Inside(b)

\* The two have a point in common.
Touching(a, b) ==
  /\ Left(a) <= Right(b) /\ Left(b) <= Right(a)
  /\ Top(a) <= Bottom(b) /\ Top(b) <= Bottom(a)

\* An object leaves a player room at the walls.
Fits(o) ==
  /\ RoomAtWalls(Left(o), o.center.x, Right(o), Half.x, Bounds.x)
  /\ RoomAtWalls(Top(o), o.center.y, Bottom(o), Half.y, Bounds.y)

\* A player pushed out of an object stays in the zone, and touches the object.
LEMMA PushedWithin ==
  ASSUME NEW a, Player(a), NEW b \in Boxes, Fits(b), Overlapping(a, b)
  PROVE  Player(PushedOut(a, b)) /\ Touching(PushedOut(a, b), b)
<1> DEFINE p == PushedOut(a, b)
<1>1. a \in Boxes /\ p \in Boxes /\ p.half = a.half /\ a.half = Half
  BY StaysABox DEF Player
<1>2. /\ a.center.x \in Int /\ a.center.y \in Int /\ Half.x \in Nat /\ Half.y \in Nat
      /\ p.center.x \in Int /\ p.center.y \in Int
      /\ b.center.x \in Int /\ b.center.y \in Int /\ b.half.x \in Nat /\ b.half.y \in Nat
      /\ Bounds.x \in Nat /\ Bounds.y \in Nat
  BY <1>1, BoxParts, MovementAssumption
<1>3. /\ Left(a) = a.center.x - Half.x /\ Right(a) = a.center.x + Half.x
      /\ Top(a) = a.center.y - Half.y /\ Bottom(a) = a.center.y + Half.y
      /\ Left(p) = p.center.x - Half.x /\ Right(p) = p.center.x + Half.x
      /\ Top(p) = p.center.y - Half.y /\ Bottom(p) = p.center.y + Half.y
      /\ Left(b) = b.center.x - b.half.x /\ Right(b) = b.center.x + b.half.x
      /\ Top(b) = b.center.y - b.half.y /\ Bottom(b) = b.center.y + b.half.y
  BY <1>1, Sides
<1>4. Inside(a) /\ Left(a) < Right(b) /\ Left(b) < Right(a) /\ Top(a) < Bottom(b) /\ Top(b) < Bottom(a)
  BY <1>1, Overlapped DEF Player
<1>5. \/ /\ p.center.y = a.center.y
         /\ \/ Right(p) = Left(b) /\ a.center.x <= b.center.x
            \/ Left(p) = Right(b) /\ a.center.x > b.center.x
      \/ /\ p.center.x = a.center.x
         /\ \/ Bottom(p) = Top(b) /\ a.center.y <= b.center.y
            \/ Top(p) = Bottom(b) /\ a.center.y > b.center.y
  BY <1>1, PushedTo
<1> HIDE DEF p
<1>6. Inside(p) /\ Touching(p, b)
  BY <1>2, <1>3, <1>4, <1>5 DEF Inside, Touching, Fits, RoomAtWalls
<1> QED BY <1>1, <1>6 DEF Player, p

\* A player that touches one of two objects with room between them does not
\* overlap the other.
LEMMA RoomKeepsApart ==
  ASSUME NEW p, Player(p), NEW a \in Boxes, NEW b \in Boxes, Touching(p, a),
         RoomBetween(a, b, Half)
  PROVE  ~ Overlapping(p, b)
<1>1. p \in Boxes /\ p.half = Half
  BY DEF Player
<1>2. p.center.x \in Int /\ p.center.y \in Int /\ Half.x \in Nat /\ Half.y \in Nat
  BY <1>1, BoxParts
<1>3. /\ Left(p) = p.center.x - Half.x /\ Right(p) = p.center.x + Half.x
      /\ Top(p) = p.center.y - Half.y /\ Bottom(p) = p.center.y + Half.y
  BY <1>1 DEF Left, Right, Top, Bottom
<1>4. Right(p) = Left(p) + 2 * Half.x /\ Bottom(p) = Top(p) + 2 * Half.y
  BY <1>2, <1>3
<1> QED BY <1>1, <1>2, <1>4, Sides, Overlapped DEF Touching, RoomBetween

\* One of the boxes that load() leaves at the origin.
Empty == [center |-> Vec(0, 0), half |-> Vec(0, 0)]

\* No player overlaps the empty box.
LEMMA EmptyBox ==
  /\ Empty \in Boxes
  /\ \A p : Player(p) => ~ Overlapping(p, Empty)
<1>1. Empty \in Boxes
  BY DEF Empty, Boxes, Vecs, Vec
<1>2. Left(Empty) = 0 /\ Right(Empty) = 0
  BY DEF Empty, Vec, Left, Right
<1>3. ASSUME NEW p, Player(p) PROVE ~ Overlapping(p, Empty)
  BY <1>1, <1>2, <1>3, Overlapped, Sides DEF Player, Inside
<1> QED BY <1>1, <1>3

\* What load() leaves in the zone: the empty boxes, then the objects.
LEMMA LoadedBoxes ==
  /\ Loaded \in Seq(Boxes) /\ Len(Loaded) = Len(Objects) + Len(Objects)
  /\ \A i \in 1 .. Len(Loaded) :
       Loaded[i] = IF i <= Len(Objects) THEN Empty ELSE Objects[i - Len(Objects)]
<1> DEFINE empties == [i \in 1 .. Len(Objects) |-> Empty]
<1>1. Objects \in Seq(Boxes) /\ Len(Objects) \in Nat
  BY MovementAssumption
<1>2. empties \in Seq(Boxes) /\ Len(empties) = Len(Objects)
  BY <1>1, EmptyBox
<1>3. Loaded = empties \o Objects
  BY DEF Loaded, Empty
<1>4. \A i \in 1 .. Len(Objects) : empties[i] = Empty
  OBVIOUS
<1> HIDE DEF empties
<1>5. /\ empties \o Objects \in Seq(Boxes)
      /\ Len(empties \o Objects) = Len(empties) + Len(Objects)
      /\ \A i \in 1 .. Len(empties) + Len(Objects) :
           (empties \o Objects)[i] = IF i <= Len(empties) THEN empties[i]
                                     ELSE Objects[i - Len(empties)]
  BY <1>1, <1>2, ConcatProperties
<1>6. \A i \in 1 .. Len(Loaded) :
         Loaded[i] = IF i <= Len(Objects) THEN Empty ELSE Objects[i - Len(Objects)]
  BY <1>1, <1>2, <1>3, <1>4, <1>5
<1> QED BY <1>2, <1>3, <1>5, <1>6

-----------------------------------------------------------------------------
(* The loop over the objects                                               *)

\* The loop over the objects has a run, and gives what the last round leaves.
LEMMA AfterAllRuns ==
  ASSUME NEW objects \in Seq(Boxes), NEW r \in Bodies
  PROVE  \E f \in [0 .. Len(objects) -> Bodies] :
           /\ f[0] = r /\ AfterAll(objects, r) = f[Len(objects)]
           /\ \A i \in 1 .. Len(objects) : f[i] = After(objects[i])[f[i - 1]]
<1> DEFINE n == Len(objects)
           round == [q \in Bodies \X (1 .. n) |-> After(objects[q[2]])[q[1]]]
           after == CHOOSE f : f = [i \in 0 .. n |-> IF i = 0 THEN r ELSE After(objects[i])[f[i - 1]]]
<1>1. n \in Nat /\ \A i \in 1 .. n : objects[i] \in Boxes
  OBVIOUS
<1>2. \A q \in Bodies, o \in Boxes : After(o)[q] \in Bodies
  <2> SUFFICES ASSUME NEW q \in Bodies, NEW o \in Boxes PROVE After(o)[q] \in Bodies
    OBVIOUS
  <2>1. q.box \in Boxes /\ q.jump \in JumpStates
    BY DEF Bodies
  <2>2. PushedOut(q.box, o) \in Boxes
    BY <2>1, StaysABox
  <2>3. "NONE" \in JumpStates
    BY DEF JumpStates
  <2> QED BY <2>1, <2>2, <2>3 DEF After, Bodies
<1>3. round \in [Bodies \X (1 .. n) -> Bodies]
  <2>1. \A q \in Bodies \X (1 .. n) : After(objects[q[2]])[q[1]] \in Bodies
    BY <1>1, <1>2
  <2> QED BY <2>1
<1>4. PICK f : RunOf(f, r, round, n, Bodies)
  <2>1. Rounds(round, n, Bodies)
    BY <1>3 DEF Rounds
  <2> HIDE DEF n, round, after
  <2> QED BY <1>1, <2>1, LoopRuns
<1>5. \A i \in 1 .. n : f[i - 1] \in Bodies /\ f[i] = After(objects[i])[f[i - 1]]
  <2> SUFFICES ASSUME NEW i \in 1 .. n
               PROVE  f[i - 1] \in Bodies /\ f[i] = After(objects[i])[f[i - 1]]
    OBVIOUS
  <2>1. i \in 0 .. n /\ i - 1 \in 0 .. n /\ i # 0
    BY <1>1
  <2>2. f[i - 1] \in Bodies
    BY <1>4, <2>1 DEF RunOf
  <2>3. f[i] = round[<<f[i - 1], i>>]
    BY <1>4, <2>1 DEF RunOf
  <2> QED BY <2>2, <2>3
<1>6. f[0] = r
  <2> HIDE DEF round
  <2> QED BY <1>1, <1>4 DEF RunOf
<1>7. f = [i \in 0 .. n |-> IF i = 0 THEN r ELSE After(objects[i])[f[i - 1]]]
  BY <1>1, <1>4, <1>5, <1>6 DEF RunOf
<1>8. after = [i \in 0 .. n |-> IF i = 0 THEN r ELSE After(objects[i])[after[i - 1]]]
  BY <1>7
<1>9. AfterAll(objects, r) = after[n]
  BY DEF AfterAll
<1>10. after \in [0 .. n -> Bodies] /\ after[0] = r
       /\ \A i \in 1 .. n : after[i] = After(objects[i])[after[i - 1]]
  <2> HIDE DEF after, round
  <2> DEFINE T == {i \in 0 .. n : after[i] = f[i]}
  <2>1. after[0] = r /\ \A i \in 1 .. n : after[i] = After(objects[i])[after[i - 1]]
    <3> HIDE DEF n
    <3> QED BY <1>1, <1>8
  <2>2. 0 \in T
    BY <1>1, <1>6, <2>1
  <2>3. ASSUME NEW i \in 1 .. n, i - 1 \in T PROVE i \in T
    <3>1. after[i] = After(objects[i])[f[i - 1]]
      BY <2>1, <2>3
    <3> QED BY <1>5, <3>1
  <2>4. 0 .. n \subseteq T
    <3> HIDE DEF T, n
    <3> QED BY <1>1, <2>2, <2>3, LoopInduction
  <2>5. \A i \in 0 .. n : after[i] = f[i] /\ f[i] \in Bodies
    BY <1>4, <2>4 DEF RunOf
  <2>6. after \in [0 .. n -> Bodies]
    <3> HIDE DEF n
    <3> QED BY <1>8, <2>5
  <2> QED BY <2>1, <2>6
<1> HIDE DEF after
<1> QED BY <1>9, <1>10

\* The jump that was there is there still, or the box stands on something.
KeptOrLanded(r, j) == r.jump = j \/ (r.jump = "NONE" /\ StandsOn(r.box))

\* What each object of a roomy zone offers.
LEMMA RoomyObjects ==
  ASSUME Roomy
  PROVE  /\ \A i \in DOMAIN Objects : Objects[i] \in Boxes /\ Fits(Objects[i])
         /\ \A i, j \in DOMAIN Objects : i # j => RoomBetween(Objects[i], Objects[j], Half)
<1>1. \A i \in DOMAIN Objects : Objects[i] \in Boxes
  BY MovementAssumption
<1> QED BY <1>1 DEF Roomy, RoomFor, Fits

\* A player on the floor, or on an object, and pushed out of another, is still
\* on something; there is nothing that pushes it off.
LEMMA StaysStanding ==
  ASSUME Roomy, NEW a, Player(a), StandsOn(a),
         NEW k \in DOMAIN Objects, Overlapping(a, Objects[k])
  PROVE  StandsOn(PushedOut(a, Objects[k]))
<1> DEFINE b == Objects[k]
           p == PushedOut(a, b)
<1>1. a \in Boxes /\ b \in Boxes /\ Fits(b) /\ p \in Boxes /\ a.half = Half /\ p.half = Half
  BY RoomyObjects, StaysABox DEF Player
<1>2. Player(p)
  BY <1>1, PushedWithin
<1>3. Left(a) < Right(b) /\ Left(b) < Right(a) /\ Top(a) < Bottom(b) /\ Top(b) < Bottom(a)
  BY <1>1, Overlapped
<1>4. CASE \E i \in DOMAIN Objects :
              /\ Bottom(a) = Top(Objects[i])
              /\ Left(a) < Right(Objects[i]) /\ Left(Objects[i]) < Right(a)
  <2>1. PICK i \in DOMAIN Objects :
              /\ Bottom(a) = Top(Objects[i])
              /\ Left(a) < Right(Objects[i]) /\ Left(Objects[i]) < Right(a)
    BY <1>4
  <2>2. Objects[i] \in Boxes
    BY RoomyObjects
  <2>3. i # k
    BY <1>1, <1>3, <2>1, Sides
  <2>4. Touching(a, Objects[i])
    <3>1. a.half.y \in Nat /\ Objects[i].half.y \in Nat
      BY <1>1, <2>2, BoxParts
    <3>2. Top(a) <= Bottom(a) /\ Top(Objects[i]) <= Bottom(Objects[i])
      BY <1>1, <2>2, <3>1, BoxParts, Sides
    <3> QED BY <1>1, <2>1, <2>2, <3>2, Sides DEF Touching
  <2>5. RoomBetween(Objects[i], b, Half)
    BY <2>3, RoomyObjects
  <2>6. ~ Overlapping(a, b)
    BY <1>1, <2>2, <2>4, <2>5, RoomKeepsApart
  <2> QED BY <2>6
<1>5. CASE Bottom(a) = Bounds.y
  <2>1. \/ p.center.y = a.center.y
        \/ p.center.x = a.center.x /\ Bottom(p) = Top(b)
        \/ Top(p) = Bottom(b)
    BY <1>1, PushedTo
  <2>2. CASE p.center.y = a.center.y
    <3>1. Bottom(p) = Bottom(a)
      BY <1>1, <2>2 DEF Bottom
    <3> QED BY <1>5, <3>1 DEF StandsOn
  <2>3. CASE p.center.x = a.center.x /\ Bottom(p) = Top(b)
    <3>1. Left(p) = Left(a) /\ Right(p) = Right(a)
      BY <1>1, <2>3 DEF Left, Right
    <3>2. Left(p) < Right(b) /\ Left(b) < Right(p)
      BY <1>3, <3>1
    <3> QED BY <2>3, <3>2 DEF StandsOn
  <2>4. CASE Top(p) = Bottom(b)
    <3>1. /\ a.center.y \in Int /\ p.center.y \in Int /\ Half.y \in Nat /\ Bounds.y \in Nat
      BY <1>1, BoxParts, MovementAssumption
    <3>2. /\ Top(a) = a.center.y - Half.y /\ Bottom(a) = a.center.y + Half.y
          /\ Top(p) = p.center.y - Half.y /\ Bottom(p) = p.center.y + Half.y
      BY <1>1, Sides
    <3>3. Top(a) < Top(p) /\ Bottom(p) <= Bounds.y
      BY <1>2, <1>3, <2>4 DEF Player, Inside
    <3> HIDE DEF p, b
    <3> QED BY <1>5, <3>1, <3>2, <3>3
  <2> QED BY <2>1, <2>2, <2>3, <2>4
<1> QED BY <1>4, <1>5 DEF StandsOn

\* The loop over the objects of a roomy zone leaves a player in the zone, apart
\* from all objects, and without its jump only if it stands on something.
LEMMA LoopLeaves ==
  ASSUME Roomy, NEW r \in Bodies, Player(r.box), NEW j, KeptOrLanded(r, j)
  PROVE  LET e == AfterAll(Loaded, r) IN
           /\ e \in Bodies /\ Player(e.box) /\ KeptOrLanded(e, j)
           /\ \A i \in 1 .. Len(Loaded) : ~ Overlapping(e.box, Loaded[i])
<1> DEFINE n == Len(Loaded)
           k == Len(Objects)
<1>1. k \in Nat /\ n \in Nat /\ DOMAIN Objects = 1 .. k
  BY LoadedBoxes, MovementAssumption
<1>2. PICK f \in [0 .. n -> Bodies] :
           /\ f[0] = r /\ AfterAll(Loaded, r) = f[n]
           /\ \A i \in 1 .. n : f[i] = After(Loaded[i])[f[i - 1]]
  BY LoadedBoxes, AfterAllRuns
<1> DEFINE Done(i) == /\ Player(f[i].box) /\ KeptOrLanded(f[i], j)
                      /\ \A m \in 1 .. i : ~ Overlapping(f[i].box, Loaded[m])
           T == {i \in 0 .. n : Done(i)}
<1>3. Done(0)
  BY <1>2
<1>4. ASSUME NEW i \in 1 .. n, Done(i - 1) PROVE Done(i)
  <2> DEFINE q == f[i - 1]
             o == Loaded[i]
  <2>1. q \in Bodies /\ q.box \in Boxes /\ i - 1 \in 0 .. n
    BY <1>1 DEF Bodies
  <2>2. f[i] = [box |-> PushedOut(q.box, o),
                jump |-> IF Hit(q.box, o).normal.y = -1 THEN "NONE" ELSE q.jump]
    BY <1>2, <2>1 DEF After
  <2>3. o \in Boxes
    BY LoadedBoxes
  <2>4. Player(q.box) /\ KeptOrLanded(q, j) /\ \A m \in 1 .. i - 1 : ~ Overlapping(q.box, Loaded[m])
    BY <1>4
  <2>5. f[i].box = PushedOut(q.box, o) /\ (Hit(q.box, o).normal.y # -1 => f[i].jump = q.jump)
        /\ (Hit(q.box, o).normal.y = -1 => f[i].jump = "NONE")
    BY <2>2
  <2> HIDE DEF q, o
  <2>6. CASE ~ Overlapping(q.box, o)
    <3>1. f[i].box = q.box /\ f[i].jump = q.jump
      BY <2>1, <2>3, <2>5, <2>6, NotPushed
    <3>2. \A m \in 1 .. i : m \in 1 .. i - 1 \/ m = i
      OBVIOUS
    <3>3. \A m \in 1 .. i : ~ Overlapping(f[i].box, Loaded[m])
      BY <2>4, <2>6, <3>1, <3>2 DEF o
    <3> QED BY <2>4, <3>1, <3>3 DEF KeptOrLanded
  <2>7. CASE Overlapping(q.box, o)
    <3>1. i \in k + 1 .. n /\ i - k \in 1 .. k /\ o = Objects[i - k]
      <4>1. o = IF i <= k THEN Empty ELSE Objects[i - k]
        BY LoadedBoxes DEF o
      <4>2. o # Empty
        BY <2>4, <2>7, EmptyBox
      <4>3. n = k + k
        BY LoadedBoxes
      <4> QED BY <1>1, <4>1, <4>2, <4>3
    <3>2. Fits(o)
      BY <1>1, <3>1, RoomyObjects
    <3>3. Player(f[i].box) /\ Touching(f[i].box, o)
      BY <2>3, <2>4, <2>5, <2>7, <3>2, PushedWithin
    <3>4. ASSUME NEW m \in 1 .. i PROVE ~ Overlapping(f[i].box, Loaded[m])
      <4>1. CASE m = i
        BY <2>1, <2>3, <2>5, <4>1, PushedApart DEF o
      <4>2. CASE m <= k
        <5>1. Loaded[m] = Empty
          BY <1>1, <4>2, LoadedBoxes
        <5> QED BY <3>3, <5>1, EmptyBox
      <4>3. CASE m # i /\ ~ (m <= k)
        <5>1. m - k \in 1 .. k /\ m - k # i - k /\ Loaded[m] = Objects[m - k]
          BY <1>1, <3>1, <4>3, LoadedBoxes
        <5>2. RoomBetween(o, Loaded[m], Half) /\ Loaded[m] \in Boxes
          BY <1>1, <3>1, <5>1, RoomyObjects
        <5> QED BY <2>3, <3>3, <5>2, RoomKeepsApart
      <4> QED BY <4>1, <4>2, <4>3
    <3>5. KeptOrLanded(f[i], j)
      <4>1. CASE Hit(q.box, o).normal.y = -1
        <5>1. /\ f[i].box.center.x = q.box.center.x /\ Bottom(f[i].box) = Top(o)
          BY <2>1, <2>3, <2>5, <2>7, <4>1, PushedTo
        <5>2. f[i].box.half = q.box.half
          BY <3>3, <2>4 DEF Player
        <5>3. Left(f[i].box) < Right(o) /\ Left(o) < Right(f[i].box)
          BY <2>1, <2>3, <2>7, <5>1, <5>2, Overlapped DEF Left, Right
        <5>4. StandsOn(f[i].box)
          BY <1>1, <3>1, <5>1, <5>3 DEF StandsOn
        <5> QED BY <2>5, <4>1, <5>4 DEF KeptOrLanded
      <4>2. CASE Hit(q.box, o).normal.y # -1
        <5>1. StandsOn(q.box) => StandsOn(f[i].box)
          BY <1>1, <2>4, <2>5, <2>7, <3>1, StaysStanding
        <5> QED BY <2>4, <2>5, <4>2, <5>1 DEF KeptOrLanded
      <4> QED BY <4>1, <4>2
    <3> QED BY <3>3, <3>4, <3>5
  <2> QED BY <2>6, <2>7
<1>5. 0 .. n \subseteq T
  <2>1. 0 \in T
    BY <1>1, <1>3
  <2>2. \A i \in 1 .. n : i - 1 \in T => i \in T
    BY <1>1, <1>4
  <2> HIDE DEF T, n
  <2> QED BY <1>1, <2>1, <2>2, LoopInduction
<1>6. Done(n)
  BY <1>1, <1>5
<1> QED BY <1>1, <1>2, <1>6

-----------------------------------------------------------------------------
(* Types                                                                   *)

\* Velocities within the limits are integers, before steering and after.
LEMMA SteeredIsVector ==
  ASSUME Limited(vel)
  PROVE  Steered.vel.x \in Int /\ Steered.vel.y \in Int /\ vel.x \in Int /\ vel.y \in Int
<1>1. \A m, n \in Int : \A i \in m .. n : i \in Int
  OBVIOUS
<1>2. - Speed \in Int /\ Speed \in Int /\ - Up \in Int /\ Down \in Int
  BY Limits
<1> QED BY <1>1, <1>2, SteeredLimited DEF Limited

\* The state machine of the jump, a step at a time.
LEMMA SteeredJump ==
  ASSUME jump \in JumpStates, Limited(vel)
  PROVE  /\ Steered.jump \in JumpStates
         /\ jump # "NONE" => Steered.jump # "NONE"
         /\ Steered.jump = "NONE" => ~ Jumped
         /\ Steered.jump = "MID" => jump \in {"NONE", "MID"}
         /\ Steered.jump = "SINGLE" => jump \in {"MID", "SINGLE"} /\ ~ Jumped
         /\ Jumped => jump \in {"NONE", "SINGLE"} /\ (jump = "SINGLE" => Steered.jump = "DOUBLE")
<1>1. vel.y \in Int /\ ~ (vel.y < vel.y)
  BY SteeredIsVector
<1>2. CASE mtype # "WALK"
  BY <1>2 DEF Steered, Fly, Jumped, JumpStates
<1>3. CASE mtype = "WALK" /\ jump = "NONE"
  <2>1. Steered.vel.y = (IF "up" \in input THEN - JumpVelocity ELSE vel.y)
    BY <1>3 DEF Steered, Walk, Vec
  <2>2. Steered.jump = IF "up" \in input THEN "MID" ELSE "NONE"
    BY <1>3 DEF Steered, Walk
  <2> QED BY <1>1, <1>3, <2>1, <2>2 DEF Jumped, JumpStates
<1>4. CASE mtype = "WALK" /\ jump = "MID"
  <2>1. Steered = [vel |-> vel, jump |-> IF "up" \in input THEN "MID" ELSE "SINGLE"]
    BY <1>4 DEF Steered, Walk
  <2> QED BY <1>1, <1>4, <2>1 DEF Jumped, JumpStates
<1>5. CASE mtype = "WALK" /\ jump = "SINGLE" /\ "up" \in input
  <2>1. Steered.jump = "DOUBLE"
    BY <1>5 DEF Steered, Walk
  <2> QED BY <1>5, <2>1 DEF JumpStates
<1>6. CASE /\ mtype = "WALK" /\ jump # "NONE" /\ jump # "MID"
           /\ ~ (jump = "SINGLE" /\ "up" \in input)
  <2>1. Steered = [vel |-> vel, jump |-> jump]
    BY <1>6 DEF Steered, Walk
  <2> QED BY <1>1, <1>6, <2>1 DEF Jumped, JumpStates
<1> QED BY <1>2, <1>3, <1>4, <1>5, <1>6

\* The box that meets the objects.
Met(c, j) ==
  [box |-> [center |-> Clamped(c, Zone.bounds), half |-> Half],
   jump |-> IF BelowFloor(c, Zone.bounds) THEN "NONE" ELSE j]

\* It is a body, and what the update makes of it is what the loop leaves.
LEMMA MetIsBody ==
  ASSUME NEW c, c.x \in Int, c.y \in Int, NEW j \in JumpStates
  PROVE  /\ Met(c, j) \in Bodies /\ Zone.objects \in Seq(Boxes)
         /\ Collided(c, j) = AfterAll(Zone.objects, Met(c, j))
<1>1. Zone.bounds.x \in Int /\ Zone.bounds.y \in Int /\ Zone.objects \in Seq(Boxes)
  <2>1. CASE stage = "doomed"
    BY <2>1 DEF Zone, Vec
  <2>2. CASE stage # "doomed"
    BY <2>2, LoadedBoxes, MovementAssumption DEF Zone
  <2> QED BY <2>1, <2>2
<1>2. Half.x \in Nat /\ Half.y \in Nat /\ Half \in [x : Nat, y : Nat]
  BY MovementAssumption
<1>3. Clamped(c, Zone.bounds) \in Vecs
  <2> DEFINE bx == Zone.bounds.x
             by == Zone.bounds.y
  <2>1. bx \in Int /\ by \in Int
    BY <1>1
  <2> HIDE DEF bx, by
  <2>2. /\ (IF c.x + Half.x > bx THEN bx - Half.x
            ELSE IF c.x - Half.x < 0 THEN Half.x ELSE c.x) \in Int
        /\ (IF c.y + Half.y > by THEN by - Half.y
            ELSE IF c.y - Half.y < 0 THEN Half.y ELSE c.y) \in Int
    BY <1>2, <2>1
  <2> QED BY <2>2 DEF Clamped, Vec, Vecs, bx, by
<1>4. "NONE" \in JumpStates
  BY DEF JumpStates
<1>5. Met(c, j) \in Bodies
  BY <1>2, <1>3, <1>4 DEF Met, Bodies, Boxes
<1> QED BY <1>1, <1>5 DEF Collided, Met

\* So is what the objects leave of it.
LEMMA CollidedIsBody ==
  ASSUME NEW c, c.x \in Int, c.y \in Int, NEW j \in JumpStates
  PROVE  Collided(c, j) \in Bodies
<1>1. Met(c, j) \in Bodies /\ Zone.objects \in Seq(Boxes)
      /\ Collided(c, j) = AfterAll(Zone.objects, Met(c, j))
  BY MetIsBody
<1>2. PICK f \in [0 .. Len(Zone.objects) -> Bodies] :
        AfterAll(Zone.objects, Met(c, j)) = f[Len(Zone.objects)]
  BY <1>1, AfterAllRuns
<1>3. Len(Zone.objects) \in 0 .. Len(Zone.objects)
  BY <1>1
<1> QED BY <1>1, <1>2, <1>3

\* An update, taken apart.
LEMMA UpdateParts ==
  ASSUME Update, TypeOK
  PROVE  LET moved == Plus(pos, Steered.vel)
             result == Collided(moved, Steered.jump)
         IN  /\ moved.x \in Int /\ moved.y \in Int /\ result \in Bodies
             /\ pos' = result.box.center /\ jump' = result.jump
             /\ vel' = Fall(Steered.vel)
             /\ jumps' = IF StandsOn(result.box) THEN 0
                         ELSE IF Jumped THEN jumps + 1 ELSE jumps
             /\ stage # "none" /\ stage' = (IF stage = "doomed" THEN "none" ELSE "in")
             /\ input' = input /\ mtype' = mtype
<1> DEFINE moved == Plus(pos, Steered.vel)
           result == Collided(moved, Steered.jump)
<1>1. Limited(vel)
  BY DEF TypeOK, SpeedLimits, Limited, Up, Down, Fastest
<1>2. pos.x \in Int /\ pos.y \in Int
  BY DEF TypeOK, Vecs
<1>3. moved.x \in Int /\ moved.y \in Int
  BY <1>1, <1>2, SteeredIsVector, VecParts DEF Plus
<1>4. result \in Bodies
  BY <1>1, <1>3, SteeredJump, CollidedIsBody DEF TypeOK
<1> QED BY <1>3, <1>4 DEF Update

\* The type invariant, for all sizes, speeds and zones: whatever the objects do
\* to a body, it stays at integer places, with one of the four states of a jump
\* and within the limits of the speed (movement.cpp:18-115).
THEOREM TypeCorrect == Spec => []TypeOK
<1>1. Init => TypeOK
  <2> SUFFICES ASSUME Init PROVE TypeOK
    OBVIOUS
  <2>1. vel.x = 0 /\ vel.y = 0
    BY VecParts DEF Init
  <2>2. SpeedLimits
    BY <2>1, Limits DEF SpeedLimits, Up, Down, Fastest
  <2>3. pos \in Vecs
    BY DEF Init, Vec, Vecs
  <2> QED BY <2>2, <2>3 DEF Init, TypeOK, JumpStates, Keys
<1>2. TypeOK /\ SpeedLimits' /\ [Next]_vars => TypeOK'
  <2> SUFFICES ASSUME TypeOK, SpeedLimits', [Next]_vars PROVE TypeOK'
    OBVIOUS
  <2>1. CASE Update
    <3> DEFINE result == Collided(Plus(pos, Steered.vel), Steered.jump)
    <3>1. /\ result \in Bodies /\ pos' = result.box.center /\ jump' = result.jump
          /\ stage' \in {"none", "in"} /\ input' = input /\ mtype' = mtype
      BY <2>1, UpdateParts
    <3>2. pos' \in Vecs /\ jump' \in JumpStates
      BY <3>1 DEF Bodies, Boxes
    <3> QED BY <3>1, <3>2 DEF TypeOK
  <2>2. CASE Spawn
    <3>1. pos' \in Vecs
      BY <2>2 DEF Spawn, Vec, Vecs
    <3> QED BY <2>2, <3>1 DEF Spawn, TypeOK, JumpStates
  <2>3. CASE HandleInput \/ HandleToggleMtype \/ Leave \/ UNCHANGED vars
    BY <2>3 DEF HandleInput, HandleToggleMtype, Leave, vars, body, TypeOK
  <2> QED BY <2>1, <2>2, <2>3 DEF Next
<1> QED BY <1>1, <1>2, SpeedLimited, PTL DEF Spec

-----------------------------------------------------------------------------
(* A zone with room for a player                                           *)

\* The bounds of a roomy zone put a player inside, and take its jump away only
\* to put it on the floor.
LEMMA MetWithin ==
  ASSUME Roomy, stage # "doomed", NEW c, c.x \in Int, c.y \in Int, NEW j \in JumpStates
  PROVE  Player(Met(c, j).box) /\ KeptOrLanded(Met(c, j), j)
<1> DEFINE b == Met(c, j).box
<1>1. /\ Half.x \in Nat /\ Half.y \in Nat /\ Bounds.x \in Nat /\ Bounds.y \in Nat
      /\ 2 * Half.x <= Bounds.x /\ 2 * Half.y <= Bounds.y
  BY MovementAssumption DEF Roomy, RoomFor
<1>2. Zone.bounds = Bounds
  BY DEF Zone
<1>3. b = [center |-> Clamped(c, Bounds), half |-> Half]
  BY <1>2 DEF Met
<1> HIDE DEF b
<1>4. /\ b.center.x = IF c.x + Half.x > Bounds.x THEN Bounds.x - Half.x
                      ELSE IF c.x - Half.x < 0 THEN Half.x ELSE c.x
      /\ b.center.y = IF c.y + Half.y > Bounds.y THEN Bounds.y - Half.y
                      ELSE IF c.y - Half.y < 0 THEN Half.y ELSE c.y
  BY <1>3 DEF Clamped, Vec
<1>5. b \in Boxes /\ b.half = Half
  BY <1>3, MetIsBody DEF Bodies, b
<1>6. /\ Left(b) = b.center.x - Half.x /\ Right(b) = b.center.x + Half.x
      /\ Top(b) = b.center.y - Half.y /\ Bottom(b) = b.center.y + Half.y
  BY <1>5 DEF Left, Right, Top, Bottom
<1>7. Met(c, j).jump = IF BelowFloor(c, Bounds) THEN "NONE" ELSE j
  BY <1>2 DEF Met
<1>8. Inside(b)
  BY <1>1, <1>4, <1>6 DEF Inside
<1>9. BelowFloor(c, Bounds) => Bottom(b) = Bounds.y
  BY <1>1, <1>4, <1>6 DEF BelowFloor
<1>10. KeptOrLanded(Met(c, j), j)
  <2>1. BelowFloor(c, Bounds) => StandsOn(b)
    BY <1>9 DEF StandsOn
  <2> QED BY <1>7, <2>1 DEF KeptOrLanded, b
<1> QED BY <1>5, <1>8, <1>10 DEF Player, b

\* What an update leaves of a body that is in the zone.
LEMMA UpdateLeaves ==
  ASSUME Roomy, TypeOK, Update, stage # "doomed"
  PROVE  /\ Player(Box') /\ stage' = "in"
         /\ \A i \in DOMAIN Loaded : ~ Overlapping(Box', Loaded[i])
         /\ jump' = Steered.jump \/ (jump' = "NONE" /\ StandsOn(Box'))
         /\ jumps' = IF StandsOn(Box') THEN 0 ELSE IF Jumped THEN jumps + 1 ELSE jumps
<1> DEFINE moved == Plus(pos, Steered.vel)
           result == Collided(moved, Steered.jump)
<1>1. /\ moved.x \in Int /\ moved.y \in Int /\ result \in Bodies
      /\ pos' = result.box.center /\ jump' = result.jump /\ stage' = "in"
      /\ jumps' = IF StandsOn(result.box) THEN 0 ELSE IF Jumped THEN jumps + 1 ELSE jumps
  BY UpdateParts
<1>2. Steered.jump \in JumpStates
  <2>1. Limited(vel)
    BY DEF TypeOK, SpeedLimits, Limited, Up, Down, Fastest
  <2> QED BY <2>1, SteeredJump DEF TypeOK
<1> DEFINE met == Met(moved, Steered.jump)
<1>3. met \in Bodies /\ result = AfterAll(Loaded, met)
  BY <1>1, <1>2, MetIsBody DEF Zone
<1>4. Player(met.box) /\ KeptOrLanded(met, Steered.jump)
  BY <1>1, <1>2, MetWithin
<1>5. /\ Player(result.box) /\ KeptOrLanded(result, Steered.jump)
      /\ \A i \in 1 .. Len(Loaded) : ~ Overlapping(result.box, Loaded[i])
  <2> HIDE DEF met, result
  <2> QED BY <1>3, <1>4, LoopLeaves
<1>6. Box' = result.box
  <2>1. result.box \in Boxes /\ result.box.half = Half
    BY <1>5 DEF Player
  <2>2. result.box = [center |-> result.box.center, half |-> Half]
    BY <2>1 DEF Boxes
  <2> QED BY <1>1, <2>2 DEF Box
<1>7. DOMAIN Loaded = 1 .. Len(Loaded)
  BY LoadedBoxes
<1> QED BY <1>1, <1>5, <1>6, <1>7 DEF KeptOrLanded

\* In a zone with room for it a body that a tick has moved is inside, and in none
\* of the boxes: pushed out of one it is not pushed into another or through a
\* wall, in whatever order the map lists them (movement.cpp:87-111).
THEOREM StaysInside ==
  ASSUME Roomy
  PROVE  Spec => []InBoundsAndApart
<1>1. Init => InBoundsAndApart
  BY DEF Init, InBoundsAndApart
<1>2. TypeOK /\ InBoundsAndApart /\ [Next]_vars => InBoundsAndApart'
  <2> SUFFICES ASSUME TypeOK, InBoundsAndApart, [Next]_vars, stage' = "in"
               PROVE  /\ Inside(Box')
                      /\ \A i \in DOMAIN Loaded : ~ Overlapping(Box', Loaded[i])
    BY DEF InBoundsAndApart, Inside, Loaded, Left, Right, Top, Bottom, Overlapping, Overlap
  <2>1. CASE Update
    <3>1. stage # "doomed"
      BY <2>1 DEF Update
    <3> QED BY <2>1, <3>1, UpdateLeaves DEF Player
  <2>2. CASE HandleInput \/ HandleToggleMtype \/ UNCHANGED vars
    <3>1. pos' = pos /\ stage' = stage
      BY <2>2 DEF HandleInput, HandleToggleMtype, vars, body
    <3>2. Box' = Box
      BY <3>1 DEF Box
    <3> QED BY <3>1, <3>2 DEF InBoundsAndApart, Inside
  <2>3. CASE Spawn \/ Leave
    BY <2>3 DEF Spawn, Leave
  <2> QED BY <2>1, <2>2, <2>3 DEF Next
<1> QED BY <1>1, <1>2, TypeCorrect, PTL DEF Spec

\* In such a zone the jump is given back by standing on something and by nothing
\* else (movement.cpp:97-108).
THEOREM OnlyGroundGivesJumpBack ==
  ASSUME Roomy
  PROVE  Spec => LandsOnlyOnGround
<1>1. TypeOK /\ [Next]_vars =>
        [(jump # "NONE" /\ jump' = "NONE" /\ stage' = "in") => StandsOn(Box)']_vars
  <2> SUFFICES ASSUME TypeOK, [Next]_vars, jump # "NONE", jump' = "NONE", stage' = "in"
               PROVE  StandsOn(Box')
    BY DEF StandsOn, Box, Left, Right, Bottom, Top
  <2>1. Limited(vel)
    BY DEF TypeOK, SpeedLimits, Limited, Up, Down, Fastest
  <2>2. CASE Update
    <3>1. stage # "doomed"
      BY <2>2 DEF Update
    <3>2. Steered.jump # "NONE"
      BY <2>1, SteeredJump DEF TypeOK
    <3> QED BY <2>2, <3>1, <3>2, UpdateLeaves
  <2>3. CASE Spawn \/ HandleInput \/ HandleToggleMtype \/ Leave \/ UNCHANGED vars
    BY <2>3 DEF Spawn, HandleInput, HandleToggleMtype, Leave, vars, body
  <2> QED BY <2>2, <2>3 DEF Next
<1> QED BY <1>1, TypeCorrect, PTL DEF Spec, LandsOnlyOnGround

\* The jumps since a body last stood on something, by the state of its jump.  A
\* body about to be destroyed moves once more, in a zone of no size, and is
\* counted no more.
JumpsCounted ==
  /\ jumps \in 0 .. 2
  /\ stage # "none" => /\ jump = "NONE" => jumps = 0
                       /\ jump \in {"MID", "SINGLE"} => jumps <= 1

\* In such a zone nobody jumps a third time in the air (movement.cpp:29-56).
THEOREM NoThirdJump ==
  ASSUME Roomy
  PROVE  Spec => []TwoJumps
<1>1. Init => JumpsCounted
  BY DEF Init, JumpsCounted
<1>2. TypeOK /\ JumpsCounted /\ [Next]_vars => JumpsCounted'
  <2> SUFFICES ASSUME TypeOK, JumpsCounted, [Next]_vars PROVE JumpsCounted'
    OBVIOUS
  <2>1. Limited(vel)
    BY DEF TypeOK, SpeedLimits, Limited, Up, Down, Fastest
  <2>2. jump \in JumpStates /\ jumps \in 0 .. 2
    BY DEF TypeOK, JumpsCounted
  <2>3. CASE Update /\ stage # "doomed"
    <3>1. /\ stage # "none" /\ stage' = "in"
          /\ jump' = Steered.jump \/ (jump' = "NONE" /\ StandsOn(Box'))
          /\ jumps' = IF StandsOn(Box') THEN 0 ELSE IF Jumped THEN jumps + 1 ELSE jumps
      BY <2>3, UpdateLeaves DEF Update
    <3>2. CASE StandsOn(Box')
      BY <3>1, <3>2 DEF JumpsCounted
    <3>3. CASE ~ StandsOn(Box') /\ Jumped
      BY <2>1, <2>2, <3>1, <3>3, SteeredJump DEF JumpsCounted, JumpStates
    <3>4. CASE ~ StandsOn(Box') /\ ~ Jumped
      BY <2>1, <2>2, <3>1, <3>4, SteeredJump DEF JumpsCounted, JumpStates
    <3> QED BY <3>2, <3>3, <3>4
  <2>4. CASE Update /\ stage = "doomed"
    <3>1. /\ stage' = "none"
          /\ jumps' = 0 \/ jumps' = jumps \/ (Jumped /\ jumps' = jumps + 1)
      BY <2>4, UpdateParts
    <3> QED BY <2>1, <2>2, <2>4, <3>1, SteeredJump DEF JumpsCounted
  <2>5. CASE Spawn
    BY <2>5 DEF Spawn, JumpsCounted
  <2>6. CASE HandleInput \/ HandleToggleMtype \/ Leave \/ UNCHANGED vars
    BY <2>6 DEF HandleInput, HandleToggleMtype, Leave, vars, body, JumpsCounted
  <2> QED BY <2>3, <2>4, <2>5, <2>6 DEF Next
<1>3. JumpsCounted => TwoJumps
  BY DEF JumpsCounted, TwoJumps
<1> QED BY <1>1, <1>2, <1>3, TypeCorrect, PTL DEF Spec
=============================================================================
