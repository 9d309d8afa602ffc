CONSTANTS
    Half <- MCHalf
    Bounds <- MCBounds
    Objects <- MCObjects
    Gravity = 1
    Speed = 3
    JumpVelocity = 4
    FallFactor = 3

SPECIFICATION Spec

INVARIANTS
    TypeOK
    TwoJumps
    InBoundsAndApart

PROPERTIES
    LandsOnlyOnGround
    ComesDown
