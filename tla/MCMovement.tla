----------------------------- MODULE MCMovement -----------------------------
(***************************************************************************)
(* Movement in a zone with one box on the floor and one hanging in a       *)
(* corner.  There is room for a player in it, and in the zone of the       *)
(* repository's map file.                                                  *)
(***************************************************************************)
EXTENDS Movement

MCHalf == Vec(2, 2)
MCBounds == Vec(16, 14)
MCObjects ==
    << [center |-> Vec(8, 12), half |-> Vec(3, 2)],
       [center |-> Vec(14, 5), half |-> Vec(2, 1)] >>

ASSUME RoomHere == Roomy

(* map.json:7-20, and the box of a player (session.cpp:110).               *)
ASSUME RoomInTheMap ==
    RoomFor(Vec(32, 32), Vec(1600, 800), << [center |-> Vec(300, 768), half |-> Vec(128, 32)] >>)
=============================================================================
