SPECIFICATION Spec
CONSTANTS
    Pilots = {p1, p2, p3, p4}
    Users = {p1, p2, p3, p4}
    Callsign <- OwnCallsign
    Arenas = {a1, a2, a3}
    MaxPerArena = 2
    NoArena = NoArena
    NoPilot = NoPilot
SYMMETRY PilotSymmetry
INVARIANTS CapacityBound SeatKept EmptyArenaIsDropped
PROPERTIES ImplementsSeats
CHECK_DEADLOCK FALSE
