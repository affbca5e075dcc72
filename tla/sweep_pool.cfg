SPECIFICATION FairPoolSpec
CONSTANTS
    Ids = {e1, e2, e3, e4}
    MaxLife = 3
    MaxDt = 2
    Capacity = 3
INVARIANTS PoolSound
PROPERTIES SweepsAll SweepEnds
