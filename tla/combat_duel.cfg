SPECIFICATION FairSpec
CONSTANTS
    c1 = c1
    c2 = c2
    Clients = {c1, c2}
    MaxHealth = 1
    Damage = 2
    MaxShots <- DuelShots
    MaxQueue = 1
    None = None
INVARIANTS EachShotHitsOnce DamageAccounted DepartedForgotten
PROPERTIES ViewsSettle
