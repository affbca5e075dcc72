SPECIFICATION Spec
CONSTANTS
    a1 = a1
    s1 = s1
    s2 = s2
    s3 = s3
    p1 = p1
    p2 = p2
    Sessions = {s1, s2, s3}
    Arenas = {a1}
    ArenaOf <- OneArena
    Players = {p1, p2}
    PlayerOf <- TwoTabs
    Accounts = {p2}
    Rooms = {r1, r2, r3}
    NoRoom = NoRoom
    NoSession = NoSession
    MaxKills <- FewKills
SYMMETRY RoomSymmetry
INVARIANTS ShipsDropped
CHECK_DEADLOCK FALSE
