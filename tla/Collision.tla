----------------------------- MODULE Collision ------------------------------
(***************************************************************************)
(* Static collision of axis-aligned boxes (src/game/collision.cpp).  A box *)
(* is its centre and its half extents; y grows downwards.  Coordinates are *)
(* integers here: the rounding of floating point is left out.              *)
(***************************************************************************)
EXTENDS Integers

Vec(a, b) == [x |-> a, y |-> b]
Minus(v, w) == Vec(v.x - w.x, v.y - w.y)
Plus(v, w) == Vec(v.x + w.x, v.y + w.y)

Vecs == [x : Int, y : Int]
Boxes == [center : Vecs, half : [x : Nat, y : Nat]]

Sign(v) == IF v < 0 THEN -1 ELSE 1

Magnitude(v) == IF v < 0 THEN - v ELSE v

Left(b) == b.center.x - b.half.x
Right(b) == b.center.x + b.half.x
Top(b) == b.center.y - b.half.y
Bottom(b) == b.center.y + b.half.y

(* How far two boxes reach into each other along each axis.                *)
Overlap(a, b) ==
    Vec(a.half.x + b.half.x - Magnitude(b.center.x - a.center.x),
        a.half.y + b.half.y - Magnitude(b.center.y - a.center.y))

Overlapping(a, b) == Overlap(a, b).x > 0 /\ Overlap(a, b).y > 0

(* hit(): how a must be moved out of b, along the axis of least overlap,   *)
(* and the side of b it is then at.                                        *)
Hit(a, b) ==
    LET delta == Minus(b.center, a.center)
        overlap == Overlap(a, b)
    IN  IF ~ Overlapping(a, b) THEN [normal |-> Vec(0, 0), pen |-> Vec(0, 0)]
        ELSE IF overlap.x <= overlap.y
        THEN [normal |-> Vec(- Sign(delta.x), 0),
              pen |-> Vec(overlap.x * Sign(delta.x), 0)]
        ELSE [normal |-> Vec(0, - Sign(delta.y)),
              pen |-> Vec(0, overlap.y * Sign(delta.y))]

(* What movement does with a hit.                                          *)
PushedOut(a, b) == [a EXCEPT !.center = Minus(a.center, Hit(a, b).pen)]
=============================================================================
