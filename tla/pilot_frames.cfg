SPECIFICATION PilotFairSpec
CONSTANTS
    MaxHealth = 3
    Damage = 2
    Cooldown = 3
    RespawnDelay = 4
    BulletLife = 5
    MaxDt = 2
    MaxHits = 2
    Slots = {1, 2}
    Places = {0, 1, 3}
    Origin = 1
INVARIANTS GunSound
PROPERTIES RespawnWaits NoPhantomFire AimIsHand DeadReturns
