-------------------------------- MODULE Ship --------------------------------
(***************************************************************************)
(* The local ship against the clock: the gun's cooldown, the bullets it    *)
(* has in flight, its death and its respawn.                               *)
(*                                                                         *)
(* Time is counted in ticks.  One Frame is one pass of frame(), of dt      *)
(* ticks: the trigger is read, the hits that have arrived are applied, and *)
(* Arena::update runs the timers and the bullets.                          *)
(***************************************************************************)
EXTENDS Integers, FiniteSets

CONSTANTS
    MaxHealth,     \* kMaxHealth
    Damage,        \* kBulletDamage
    Cooldown,      \* kFireCooldown
    RespawnDelay,  \* kRespawnDelay
    BulletLife,    \* Bullet::life
    MaxDt,         \* kMaxDt
    MaxHits,       \* bound: hits that arrive within one frame
    Slots          \* where bullets_ keeps the ship's own bullets

ASSUME ConstantsAssumption ==
    /\ {MaxHealth, Damage, Cooldown, RespawnDelay, BulletLife, MaxDt} \subseteq Nat \ {0}
    /\ MaxHits \in Nat
    /\ MaxDt < RespawnDelay
    /\ IsFiniteSet(Slots) /\ Cardinality(Slots) > (BulletLife - 1) \div Cooldown

VARIABLES
    health,
    alive,
    fireTimer,
    respawnTimer,
    life,     \* what is left of the life of the bullet in each slot, or 0
    deadFor   \* ticks since the last death, while dead, up to the delay

vars == <<health, alive, fireTimer, respawnTimer, life, deadFor>>

TypeOK ==
    /\ health \in 0..MaxHealth
    /\ alive \in BOOLEAN
    /\ fireTimer \in (-MaxDt)..Cooldown
    /\ respawnTimer \in 0..RespawnDelay
    /\ life \in [Slots -> 0..BulletLife]
    /\ deadFor \in 0..RespawnDelay

\* respawn(): health, alive and the timer; the gun's cooldown is kept.
Init ==
    /\ health = MaxHealth
    /\ alive = TRUE
    /\ fireTimer = 0
    /\ respawnTimer = 0
    /\ life = [s \in Slots |-> 0]
    /\ deadFor = 0

Floor0(n) == IF n < 0 THEN 0 ELSE n
Capped(n) == IF n > RespawnDelay THEN RespawnDelay ELSE n

CanFire_NoCooldown == alive
CanFire == alive /\ fireTimer <= 0

Free == {s \in Slots : life[s] = 0}

-----------------------------------------------------------------------------
(* takeDamage, for the n hits that have arrived *)

HealthAfter(n) == IF alive THEN Floor0(health - n * Damage) ELSE health

Dies_Again(n) == n > 0 /\ HealthAfter(n) = 0
\* Hits on a dead ship neither kill it again nor restart its timer.
Dies(n) == alive /\ HealthAfter(n) = 0

AliveAfter(n) == alive /\ HealthAfter(n) > 0

-----------------------------------------------------------------------------
(* Player::update and the respawn test of Arena::update *)

CountDown(timer, dt) == IF timer > 0 THEN timer - dt ELSE timer

\* The respawn timer once the frame's hits and dt have been counted.
TimerLeft(n, dt) ==
    IF AliveAfter(n) THEN respawnTimer
    ELSE (IF Dies(n) THEN RespawnDelay ELSE respawnTimer) - dt

Respawns_AtOnce(n, dt) == ~alive
Respawns(n, dt) == ~AliveAfter(n) /\ TimerLeft(n, dt) <= 0

-----------------------------------------------------------------------------
(* Bullets *)

\* A bullet goes when its life has run out.
Age(l, dt) == Floor0(l - dt)

\* What becomes of the bullets when those of struck hit something.
Flown(bullets, struck, dt) ==
    [s \in Slots |-> IF s \in struck THEN 0 ELSE Age(bullets[s], dt)]

Frame(dt, trigger, hits) ==
    /\ IF trigger /\ CanFire
         THEN \E s \in Free, struck \in SUBSET Slots :
                 /\ struck \cap Free \subseteq {s}
                 /\ life' = Flown([life EXCEPT ![s] = BulletLife], struck, dt)
         ELSE \E struck \in SUBSET (Slots \ Free) : life' = Flown(life, struck, dt)
    /\ fireTimer' = CountDown(IF trigger /\ CanFire THEN Cooldown ELSE fireTimer, dt)
    /\ IF Respawns(hits, dt)
         THEN /\ health' = MaxHealth
              /\ alive' = TRUE
              /\ respawnTimer' = 0
         ELSE /\ health' = HealthAfter(hits)
              /\ alive' = AliveAfter(hits)
              /\ respawnTimer' = TimerLeft(hits, dt)
    /\ deadFor' = IF alive' THEN 0 ELSE Capped((IF alive THEN 0 ELSE deadFor) + dt)

Next == \E dt \in 1..MaxDt, trigger \in BOOLEAN, hits \in 0..MaxHits :
            Frame(dt, trigger, hits)

Spec == Init /\ [][Next]_vars

-----------------------------------------------------------------------------
(* Properties *)

\* However frames, deaths and respawns fall, two bullets of the ship in
\* flight were fired at least a cooldown apart.
BulletsSpaced ==
    \A s, t \in Slots :
        s # t /\ life[s] > 0 /\ life[t] > 0 =>
            life[s] - life[t] >= Cooldown \/ life[t] - life[s] >= Cooldown

\* Whenever the gun is ready a slot is free: the ship never has more than
\* BulletLife / Cooldown bullets, rounded up, in flight.
SlotFree == CanFire => Free # {}

\* A dead ship, and only a dead ship, has no health, and waits for its timer.
DeathWaits ==
    /\ alive <=> health > 0
    /\ ~alive => deadFor + respawnTimer = RespawnDelay /\ respawnTimer > 0

\* A ship comes back only after the full respawn delay, even when it is hit
\* again and again while it is dead.
RespawnWaits == [][~alive /\ alive' => deadFor + MaxDt >= RespawnDelay]_vars
=============================================================================
