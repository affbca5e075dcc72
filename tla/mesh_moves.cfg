SPECIFICATION MeshSpec
CONSTANTS
    Objects = {m1, m2, m3}
    Names = {g1, g2, g3, g4, g5, g6}
    Zero = Zero
    Half = 50
    Rings = 8
    Sectors = 12
    Radius = 28
    ShipReach = 180
    BulletReach = 30
SYMMETRY NameSymmetry
INVARIANTS NamesOwned DrawsWhole
