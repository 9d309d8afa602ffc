------------------------------ MODULE Movement ------------------------------
(***************************************************************************)
(* The body of one player, from the tick its session joins to the tick it  *)
(* leaves: the handlers of its packets (src/network/handler.cpp), the      *)
(* movement system (src/game/system/movement.cpp) and the zone it moves in *)
(* (src/game/map.cpp).  Bodies do not meet one another, and all of this    *)
(* runs on the game thread, so that an action is a whole handler or a      *)
(* whole update.                                                           *)
(***************************************************************************)
EXTENDS Collision, Sequences, FiniteSetsExt

CONSTANTS
    Half,            \* the half extents of every player's box
    Bounds,          \* the zone's size
    Objects,         \* the boxes listed in the zone's file
    Gravity, Speed, JumpVelocity,
    FallFactor       \* the fastest fall, in units of gravity (15 in the code)

ASSUME MovementAssumption ==
    /\ Half \in [x : Nat, y : Nat] /\ Bounds \in [x : Nat, y : Nat]
    /\ Objects \in Seq(Boxes)
    /\ Gravity \in Nat /\ Speed \in Nat /\ JumpVelocity \in Nat /\ FallFactor \in Nat

VARIABLES
    stage,   \* "none" in the world, "new" in it, "in" since an earlier tick, "doomed"
    input,   \* the keys held
    pos, vel,
    mtype,   \* "WALK" or "FLY"
    jump,    \* the state of the jump: "NONE", "MID", "SINGLE", "DOUBLE"
    jumps    \* history: the jumps since the body last stood on something

body == <<pos, vel, mtype, jump>>
vars == <<stage, input, body, jumps>>

Keys == {"up", "down", "left", "right"}
JumpStates == {"NONE", "MID", "SINGLE", "DOUBLE"}

(***************************************************************************)
(* The zone.                                                               *)
(***************************************************************************)
(* zone::load(): the vector is made with as many empty boxes as there are  *)
(* objects, and the objects are appended to them.                          *)
Loaded ==
    [i \in 1 .. Len(Objects) |-> [center |-> Vec(0, 0), half |-> Vec(0, 0)]] \o Objects

(* map::get_zone(): the entity of a session that has ended is in no zone,  *)
(* and moves once more, in the empty one, before it is destroyed.          *)
Zone ==
    IF stage = "doomed" THEN [bounds |-> Vec(0, 0), objects |-> << >>]
                        ELSE [bounds |-> Bounds, objects |-> Loaded]

(***************************************************************************)
(* The three loops of movement::update().                                  *)
(***************************************************************************)
Held(key, v) == IF key \in input THEN v ELSE 0

Sideways == Held("right", Speed) - Held("left", Speed)

(* Mutant: the jump in the air is not recorded.                            *)
Walk_Unrecorded ==
    IF jump = "SINGLE" /\ "up" \in input
    THEN [vel |-> Vec(Sideways, - JumpVelocity), jump |-> "SINGLE"]
    ELSE [vel |-> Vec(Sideways, IF jump = "NONE" /\ "up" \in input
                                THEN - JumpVelocity ELSE vel.y),
          jump |-> IF "up" \in input THEN "MID"
                   ELSE IF jump = "MID" THEN "SINGLE" ELSE jump]

(* The first: input to velocity and state of the jump.                     *)
Walk ==
    CASE jump = "NONE" ->
            [vel |-> Vec(Sideways, IF "up" \in input THEN - JumpVelocity ELSE vel.y),
             jump |-> IF "up" \in input THEN "MID" ELSE "NONE"]
      [] jump = "MID" ->
            [vel |-> vel, jump |-> IF "up" \in input THEN "MID" ELSE "SINGLE"]
      [] jump = "SINGLE" /\ "up" \in input ->
            [vel |-> Vec(Sideways, - JumpVelocity), jump |-> "DOUBLE"]
      [] OTHER -> [vel |-> vel, jump |-> jump]

Fly ==
    [vel |-> Vec(Sideways, Held("down", Speed) - Held("up", Speed)), jump |-> jump]

Steered == IF mtype = "WALK" THEN Walk ELSE Fly

(* Mutant: the fall is not limited.                                        *)
Fall_Unlimited(v) == IF mtype = "FLY" THEN v ELSE Vec(v.x, v.y + Gravity)

(* Mutant: gravity is left out.                                            *)
Fall_Floating(v) == IF mtype = "FLY" THEN v ELSE Vec(v.x, Min({v.y, Gravity * FallFactor}))

(* The third, after the second has added the velocity: gravity, the bounds *)
(* of the zone, and its objects one after the other.                       *)
Fall(v) ==
    IF mtype = "FLY" THEN v
    ELSE Vec(v.x, Min({v.y + Gravity, Gravity * FallFactor}))

(* Mutant: a wall is met by the centre and not by the side of the box.     *)
Clamped_Centre(c, bounds) ==
    Vec(IF c.x > bounds.x THEN bounds.x ELSE IF c.x < 0 THEN 0 ELSE c.x,
        IF c.y > bounds.y THEN bounds.y ELSE IF c.y < 0 THEN 0 ELSE c.y)

Clamped(c, bounds) ==
    Vec(IF c.x + Half.x > bounds.x THEN bounds.x - Half.x
        ELSE IF c.x - Half.x < 0 THEN Half.x ELSE c.x,
        IF c.y + Half.y > bounds.y THEN bounds.y - Half.y
        ELSE IF c.y - Half.y < 0 THEN Half.y ELSE c.y)

(* Mutant: the ceiling gives the jump back as the floor does.              *)
BelowFloor_OrCeiling(c, bounds) == c.y + Half.y > bounds.y \/ c.y - Half.y < 0

BelowFloor(c, bounds) == c.y + Half.y > bounds.y

(* What one object leaves of the box and of the jump: a function, as the   *)
(* argument of a function is a value to TLC.                               *)
Bodies == [box : Boxes, jump : JumpStates]

After(object) ==
    [r \in Bodies |->
        [box |-> PushedOut(r.box, object),
         jump |-> IF Hit(r.box, object).normal.y = -1 THEN "NONE" ELSE r.jump]]

(* The loop over the objects.                                              *)
AfterAll(objects, r) ==
    LET after[i \in 0 .. Len(objects)] ==
            IF i = 0 THEN r ELSE After(objects[i])[after[i - 1]]
    IN  after[Len(objects)]

Collided(c, j) ==
    AfterAll(Zone.objects,
             [box |-> [center |-> Clamped(c, Zone.bounds), half |-> Half],
              jump |-> IF BelowFloor(c, Zone.bounds) THEN "NONE" ELSE j])

Box == [center |-> pos, half |-> Half]

(* The box rests on the floor or on an object.                             *)
StandsOn(b) ==
    \/ Bottom(b) = Bounds.y
    \/ \E i \in DOMAIN Objects :
        /\ Bottom(b) = Top(Objects[i])
        /\ Left(b) < Right(Objects[i]) /\ Left(Objects[i]) < Right(b)

(* A jump is what turns the body upwards.                                  *)
Jumped == mtype = "WALK" /\ Steered.vel.y < vel.y

(***************************************************************************)
(* The actions.                                                            *)
(***************************************************************************)
Init ==
    /\ stage = "none" /\ input = {}
    /\ pos = Vec(0, 0) /\ vel = Vec(0, 0)
    /\ mtype = "WALK" /\ jump = "NONE" /\ jumps = 0

(* handle_connections() gives the entity its components.                   *)
Spawn ==
    /\ stage = "none"
    /\ stage' = "new" /\ input' = {}
    /\ pos' = Vec(0, 0) /\ vel' = Vec(0, 0)
    /\ mtype' = "WALK" /\ jump' = "NONE" /\ jumps' = 0

HandleInput ==
    /\ stage \in {"new", "in"}
    /\ input' \in SUBSET Keys
    /\ UNCHANGED <<stage, body, jumps>>

HandleToggleMtype ==
    /\ stage \in {"new", "in"}
    /\ mtype' = IF mtype = "WALK" THEN "FLY" ELSE "WALK"
    /\ UNCHANGED <<stage, input, pos, vel, jump, jumps>>

(* handle_disconnections() takes the entity off the map and queues it for  *)
(* destruction.                                                            *)
Leave ==
    /\ stage \in {"new", "in"}
    /\ stage' = "doomed"
    /\ UNCHANGED <<input, body, jumps>>

Update ==
    /\ stage # "none"
    /\ \E steered \in {Steered} : \E moved \in {Plus(pos, steered.vel)} :
       \E result \in {Collided(moved, steered.jump)} :
        /\ pos' = result.box.center
        /\ vel' = Fall(steered.vel)
        /\ jump' = result.jump
        /\ jumps' = IF StandsOn(result.box) THEN 0
                    ELSE IF Jumped THEN jumps + 1 ELSE jumps
    /\ stage' = IF stage = "doomed" THEN "none" ELSE "in"
    /\ UNCHANGED <<input, mtype>>

Next == Spawn \/ HandleInput \/ HandleToggleMtype \/ Leave \/ Update

(* The main loop calls update() once per tick.                             *)
Spec == Init /\ [][Next]_vars /\ WF_vars(Update)

(***************************************************************************)
(* Properties.                                                             *)
(***************************************************************************)
(* There is room for a player: the zone has its size; between an object    *)
(* and a wall there is place for it, unless the object reaches so far out  *)
(* that no player's centre lies on that side of its own; and between any   *)
(* two objects there is place for it along one of the axes.  Along an axis *)
(* an object has its end l and r, and its centre at c, in 0 .. bound.      *)
RoomAtWalls(l, c, r, half, bound) ==
    /\ l >= 2 * half \/ c < half
    /\ r + 2 * half <= bound \/ c >= bound - half

RoomBetween(a, b, half) ==
    \/ Right(a) + 2 * half.x <= Left(b) \/ Right(b) + 2 * half.x <= Left(a)
    \/ Bottom(a) + 2 * half.y <= Top(b) \/ Bottom(b) + 2 * half.y <= Top(a)

RoomFor(half, bounds, objects) ==
    /\ 2 * half.x <= bounds.x /\ 2 * half.y <= bounds.y
    /\ \A i \in DOMAIN objects :
        /\ RoomAtWalls(Left(objects[i]), objects[i].center.x, Right(objects[i]), half.x, bounds.x)
        /\ RoomAtWalls(Top(objects[i]), objects[i].center.y, Bottom(objects[i]), half.y, bounds.y)
    /\ \A i, j \in DOMAIN objects : i # j => RoomBetween(objects[i], objects[j], half)

Roomy == RoomFor(Half, Bounds, Objects)

(* Velocities stay within what the keys, a jump and gravity can give, in   *)
(* whatever order walking and flying alternate (component.h:29-56).        *)
SpeedLimits ==
    /\ vel.x \in - Speed .. Speed
    /\ vel.y \in - Max({JumpVelocity, Speed}) .. Max({Gravity * FallFactor, Speed})

(* The type invariant, the limits of the speed included.                   *)
TypeOK ==
    /\ stage \in {"none", "new", "in", "doomed"} /\ input \subseteq Keys
    /\ mtype \in {"WALK", "FLY"} /\ jump \in JumpStates
    /\ pos \in Vecs /\ SpeedLimits

(* No sequence of keys, of switches between walking and flying, and of     *)
(* edges walked off gives a player a third jump before it has stood on     *)
(* something again (the state machine of movement.cpp:29-56).              *)
TwoJumps == jumps <= 2

(* Once a tick has moved it, a body is inside its zone and in none of the  *)
(* zone's boxes, the empty ones at the origin included: what one object    *)
(* pushes it to is not inside the next or beyond a wall.  It takes a Roomy *)
(* zone                                                                    *)
(* (movement.cpp:87-111, map.cpp:38).                                      *)
InBoundsAndApart ==
    stage = "in" =>
        /\ Left(Box) >= 0 /\ Right(Box) <= Bounds.x
        /\ Top(Box) >= 0 /\ Bottom(Box) <= Bounds.y
        /\ \A i \in DOMAIN Loaded : ~ Overlapping(Box, Loaded[i])

(* The jump is given back only by standing on something: not by a wall, by *)
(* the ceiling, by the side of a box or by switching to flying             *)
(* (movement.cpp:97-100, 106-108).                                         *)
LandsOnlyOnGround ==
    [][(jump # "NONE" /\ jump' = "NONE" /\ stage' = "in") => StandsOn(Box)']_vars

(* A player that stays in and keeps to walking comes down again and again, *)
(* whatever it presses.                                                    *)
ComesDown ==
    <>[](stage = "in" /\ mtype = "WALK") => []<>StandsOn(Box)
=============================================================================
