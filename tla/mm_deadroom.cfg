SPECIFICATION Spec
CONSTANTS
    Pilots = {p1, p2}
    Users = {p1, p2}
    Callsign <- OwnCallsign
    Arenas = {a1, a2}
    MaxPerArena = 2
    NoArena = NoArena
    NoPilot = NoPilot
SYMMETRY PilotSymmetry
INVARIANTS NoDeadRoom
CHECK_DEADLOCK FALSE
