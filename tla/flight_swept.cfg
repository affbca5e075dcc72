SPECIFICATION Spec
CONSTANTS
    HalfExtent = 9
    SpawnExtent = 6
    Thrust = 1
    Damping = 3
    Ease = 2
    MaxDt = 2
    Places <- SomePlaces
    Speeds <- SomeSpeeds
    Radius = 3
    Speed = 4
    Life = 4
INVARIANTS ShipBounded HitIsTouch
PROPERTIES ViewHolds NoTunnelling
CHECK_DEADLOCK FALSE
