SPECIFICATION TripSpec
CONSTANTS
    Pilots = {t1, t2, t3}
    Users = {t1, t2, t3}
    Callsign <- OwnCallsign
    Arenas = {a1, a2}
    MaxPerArena = 2
    NoArena = NoArena
    NoPilot = NoPilot
    Rooms = {r1, r2}
    NoRoom = NoRoom
    MaxRestarts = 1
SYMMETRY TabSymmetry
INVARIANTS RoomFits CountedTogether
CHECK_DEADLOCK FALSE
