------------------------------ MODULE PilotProofs ------------------------------
(***************************************************************************)
(* Proofs about Ship, for every cooldown, bullet life, respawn delay and   *)
(* frame length, and about the client that flies it.                       *)
(*                                                                         *)
(* BulletsSpaced needs to know, when the gun fires, how old the youngest   *)
(* bullet is.  Aged says it: no bullet is younger than the time for which  *)
(* the gun has been cooling.                                               *)
(*                                                                         *)
(* Under any use of the controls the ship behaves as Ship says, so what is *)
(* proved of Ship holds of the client.  A pass hands input.fire to the     *)
(* ship as its trigger, and a callback leaves the ship alone.              *)
(***************************************************************************)
EXTENDS Pilot, FiniteSetTheorems, TLAPS

Aged == \A s \in Slots : life[s] > 0 => life[s] <= BulletLife - (Cooldown - fireTimer)

IInv == TypeOK /\ Aged /\ BulletsSpaced /\ DeathWaits

LEMMA IInit == Init => IInv
  BY ConstantsAssumption DEF Init, IInv, TypeOK, Aged, BulletsSpaced, DeathWaits

\* What a frame makes of the lives: a slot is emptied, ages, or is the one
\* just fired into, and that is possible only when the gun has cooled down.
LEMMA LifeStep ==
  ASSUME TypeOK, NEW dt \in 1..MaxDt, NEW trigger \in BOOLEAN, NEW hits \in 0..MaxHits,
         Frame(dt, trigger, hits)
  PROVE  /\ life' \in [Slots -> 0..BulletLife]
         /\ \/ /\ trigger /\ CanFire
               /\ fireTimer' = CountDown(Cooldown, dt)
               /\ \E n \in Slots :
                     /\ life'[n] > 0 => life'[n] = BulletLife - dt
                     /\ \A s \in Slots \ {n} : life'[s] > 0 => life'[s] = life[s] - dt
            \/ /\ fireTimer' = CountDown(fireTimer, dt)
               /\ \A s \in Slots : life'[s] > 0 => life'[s] = life[s] - dt
<1> USE ConstantsAssumption DEF TypeOK, Frame, Flown, Age, Floor0
<1>1. CASE trigger /\ CanFire
  <2>1. PICK n \in Slots, struck \in SUBSET Slots :
            life' = Flown([life EXCEPT ![n] = BulletLife], struck, dt)
    BY <1>1, Zenon DEF Free
  <2>2. \A s \in Slots : life'[s] = IF s \in struck THEN 0
                           ELSE IF s = n THEN Floor0(BulletLife - dt) ELSE Floor0(life[s] - dt)
    BY <2>1
  <2>3. life' \in [Slots -> 0..BulletLife]
    BY <2>1
  <2> QED
    BY <1>1, <2>2, <2>3
<1>2. CASE ~(trigger /\ CanFire)
  <2>1. PICK struck \in SUBSET Slots : life' = Flown(life, struck, dt)
    BY <1>2, Zenon
  <2> QED
    BY <1>2, <2>1
<1> QED
  BY <1>1, <1>2

LEMMA HealthRange ==
  ASSUME IInv, NEW hits \in 0..MaxHits
  PROVE  /\ HealthAfter(hits) \in 0..MaxHealth
         /\ AliveAfter(hits) <=> HealthAfter(hits) > 0
         /\ AliveAfter(hits) => alive
<1>1. ASSUME NEW k \in Nat PROVE Floor0(health - k) \in 0..MaxHealth
  BY ConstantsAssumption DEF IInv, TypeOK, Floor0
<1>2. hits * Damage \in Nat
  BY ConstantsAssumption
<1> QED
  BY <1>1, <1>2 DEF HealthAfter, AliveAfter, IInv, TypeOK, DeathWaits

\* What a frame makes of the ship's life: it respawns, or it does not.
LEMMA FrameLife ==
  ASSUME NEW dt \in 1..MaxDt, NEW trigger \in BOOLEAN, NEW hits \in 0..MaxHits,
         Frame(dt, trigger, hits)
  PROVE  \/ /\ Respawns(hits, dt) /\ health' = MaxHealth
            /\ alive' = TRUE /\ respawnTimer' = 0 /\ deadFor' = 0
         \/ /\ ~Respawns(hits, dt) /\ health' = HealthAfter(hits)
            /\ AliveAfter(hits) => alive' = TRUE /\ deadFor' = 0
            /\ ~AliveAfter(hits) => alive' = FALSE /\ deadFor' = Capped((IF alive THEN 0 ELSE deadFor) + dt)
            /\ respawnTimer' = TimerLeft(hits, dt)
<1>1. CASE Respawns(hits, dt)
  BY <1>1, Zenon DEF Frame
<1>2. CASE ~Respawns(hits, dt)
  <2>1. health' = HealthAfter(hits) /\ alive' = AliveAfter(hits) /\ respawnTimer' = TimerLeft(hits, dt)
    BY <1>2, Zenon DEF Frame
  <2>3. AliveAfter(hits) \in BOOLEAN
    BY DEF AliveAfter
  <2>2. deadFor' = IF alive' THEN 0 ELSE Capped((IF alive THEN 0 ELSE deadFor) + dt)
    BY Zenon DEF Frame
  <2> QED
    BY <1>2, <2>1, <2>2, <2>3, Zenon
<1> QED
  BY <1>1, <1>2

LEMMA TypeNext == ASSUME IInv, [Next]_vars PROVE TypeOK'
<1>1. ASSUME NEW dt \in 1..MaxDt, NEW trigger \in BOOLEAN, NEW hits \in 0..MaxHits,
             Frame(dt, trigger, hits)
      PROVE  TypeOK'
  <2> USE ConstantsAssumption DEF IInv, TypeOK
  <2>1. life' \in [Slots -> 0..BulletLife]
    BY <1>1, LifeStep
  <2>2. fireTimer' \in (-MaxDt)..Cooldown
    BY <1>1 DEF Frame, CountDown
  <2>3. HealthAfter(hits) \in 0..MaxHealth
    BY HealthRange
  <2>4. health' \in 0..MaxHealth /\ alive' \in BOOLEAN
    <3>1. \/ health' = MaxHealth /\ alive' = TRUE
          \/ health' = HealthAfter(hits) /\ (alive' = TRUE \/ alive' = FALSE)
      BY <1>1, FrameLife, Zenon
    <3>2. HealthAfter(hits) \in 0..MaxHealth
      BY HealthRange
    <3>3. health' \in 0..MaxHealth
      BY <3>1, <3>2
    <3>4. alive' \in BOOLEAN
      BY <3>1, Zenon
    <3> QED
      BY <3>3, <3>4
  <2>5. respawnTimer' \in 0..RespawnDelay
    BY <1>1, <2>3 DEF Frame, Respawns, TimerLeft, AliveAfter, Dies
  <2>6. deadFor' \in 0..RespawnDelay
    BY <1>1 DEF Frame, Capped
  <2> QED
    BY <2>1, <2>2, <2>4, <2>5, <2>6
<1>2. CASE UNCHANGED vars
  BY <1>2 DEF vars, IInv, TypeOK
<1> QED
  BY <1>1, <1>2 DEF Next

LEMMA AgedNext == ASSUME IInv, [Next]_vars PROVE Aged'
<1>1. ASSUME NEW dt \in 1..MaxDt, NEW trigger \in BOOLEAN, NEW hits \in 0..MaxHits,
             Frame(dt, trigger, hits)
      PROVE  Aged'
  BY <1>1, LifeStep, ConstantsAssumption DEF IInv, TypeOK, Aged, CanFire, CountDown
<1>2. CASE UNCHANGED vars
  BY <1>2 DEF vars, IInv, Aged
<1> QED
  BY <1>1, <1>2 DEF Next

LEMMA SpacedNext == ASSUME IInv, [Next]_vars PROVE BulletsSpaced'
<1>1. ASSUME NEW dt \in 1..MaxDt, NEW trigger \in BOOLEAN, NEW hits \in 0..MaxHits,
             Frame(dt, trigger, hits)
      PROVE  BulletsSpaced'
  <2> USE <1>1, ConstantsAssumption DEF IInv, TypeOK, BulletsSpaced
  <2>1. life' \in [Slots -> 0..BulletLife]
    BY LifeStep
  <2>2. CASE \A s \in Slots : life'[s] > 0 => life'[s] = life[s] - dt
    BY <2>1, <2>2
  <2>3. ASSUME CanFire, NEW n \in Slots, life'[n] > 0 => life'[n] = BulletLife - dt,
               \A s \in Slots \ {n} : life'[s] > 0 => life'[s] = life[s] - dt
        PROVE  BulletsSpaced'
    BY <2>1, <2>3 DEF Aged, CanFire
  <2> QED
    BY <2>2, <2>3, LifeStep
<1>2. CASE UNCHANGED vars
  BY <1>2 DEF vars, IInv, BulletsSpaced
<1> QED
  BY <1>1, <1>2 DEF Next

LEMMA DeathNext == ASSUME IInv, [Next]_vars PROVE DeathWaits'
<1>1. ASSUME NEW dt \in 1..MaxDt, NEW trigger \in BOOLEAN, NEW hits \in 0..MaxHits,
             Frame(dt, trigger, hits)
      PROVE  DeathWaits'
  <2>1. TypeOK /\ DeathWaits /\ TypeOK'
    BY <1>1, TypeNext DEF IInv, Next
  <2>2. /\ HealthAfter(hits) \in 0..MaxHealth
        /\ AliveAfter(hits) <=> HealthAfter(hits) > 0
    BY <1>1, HealthRange
  <2>3. CASE Respawns(hits, dt)
    <3>1. alive' = TRUE /\ health' = MaxHealth
      BY <1>1, <2>3, FrameLife, Zenon
    <3> QED
      BY <3>1, ConstantsAssumption DEF DeathWaits
  <2>4. CASE ~Respawns(hits, dt) /\ AliveAfter(hits)
    <3>1. alive' = TRUE /\ health' = HealthAfter(hits)
      BY <1>1, <2>4, FrameLife, Zenon
    <3> QED
      BY <2>2, <2>4, <3>1 DEF DeathWaits
  <2>5. CASE ~Respawns(hits, dt) /\ ~AliveAfter(hits)
    <3>0. /\ alive' = FALSE /\ health' = HealthAfter(hits)
          /\ respawnTimer' = TimerLeft(hits, dt)
          /\ deadFor' = Capped((IF alive THEN 0 ELSE deadFor) + dt)
      BY <1>1, <2>5, FrameLife, Zenon
    <3>1. health' = 0
      BY <2>2, <2>5, <3>0, ConstantsAssumption
    <3>2. TimerLeft(hits, dt) > 0
      BY <2>1, <2>5, ConstantsAssumption DEF Respawns, TimerLeft, TypeOK, Dies
    <3>3. TimerLeft(hits, dt) = (IF alive THEN RespawnDelay ELSE respawnTimer) - dt
      BY <2>1, <2>2, <2>5 DEF TimerLeft, Dies, AliveAfter, TypeOK
    <3>4. (IF alive THEN 0 ELSE deadFor) + (IF alive THEN RespawnDelay ELSE respawnTimer) = RespawnDelay
      BY <2>1, ConstantsAssumption DEF DeathWaits, TypeOK
    <3>5. deadFor' = (IF alive THEN 0 ELSE deadFor) + dt
      BY <2>1, <3>0, <3>2, <3>3, <3>4, ConstantsAssumption DEF Capped, TypeOK
    <3> QED
      BY <2>1, <3>0, <3>1, <3>2, <3>3, <3>4, <3>5, ConstantsAssumption DEF DeathWaits, TypeOK
  <2> QED
    BY <2>3, <2>4, <2>5
<1>2. CASE UNCHANGED vars
  BY <1>2 DEF vars, IInv, DeathWaits
<1> QED
  BY <1>1, <1>2 DEF Next

LEMMA Inductive == Spec => []IInv
<1>1. ASSUME IInv, [Next]_vars PROVE IInv'
  BY <1>1, TypeNext, AgedNext, SpacedNext, DeathNext DEF IInv
<1> QED
  BY IInit, <1>1, PTL DEF Spec

\* The timers and the health keep to their ranges, frame lengths included.
THEOREM TypeCorrect == Spec => []TypeOK
<1>1. IInv => TypeOK
  BY DEF IInv
<1> QED
  BY Inductive, <1>1, PTL

\* The gun's cooldown holds: bullets in flight were fired a cooldown apart.
THEOREM BulletsAreSpaced == Spec => []BulletsSpaced
<1>1. IInv => BulletsSpaced
  BY DEF IInv
<1> QED
  BY Inductive, <1>1, PTL

\* A ship that is dead has no health and has waited exactly as long as its
\* timer says: hits on a dead ship change nothing.
THEOREM DeathIsWaited == Spec => []DeathWaits
<1>1. IInv => DeathWaits
  BY DEF IInv
<1> QED
  BY Inductive, <1>1, PTL

\* A ship comes back only after the respawn delay.
THEOREM RespawnIsWaited == Spec => RespawnWaits
<1>1. ASSUME IInv, [Next]_vars
      PROVE  [~alive /\ alive' => deadFor + MaxDt >= RespawnDelay]_vars
  <2>1. ASSUME NEW dt \in 1..MaxDt, NEW trigger \in BOOLEAN, NEW hits \in 0..MaxHits,
               Frame(dt, trigger, hits), ~alive, alive'
        PROVE  deadFor + MaxDt >= RespawnDelay
    <3>1. ~AliveAfter(hits) /\ ~Dies(hits)
      BY <2>1 DEF AliveAfter, Dies
    <3>2. Respawns(hits, dt)
      BY <2>1, <3>1, FrameLife
    <3> QED
      BY <1>1, <2>1, <3>1, <3>2, ConstantsAssumption DEF IInv, TypeOK, DeathWaits, Respawns, TimerLeft
  <2> QED
    BY <1>1, <2>1 DEF Next, vars
<1> QED
  BY Inductive, <1>1, PTL DEF Spec, RespawnWaits

-----------------------------------------------------------------------------
(* The magazine never runs out of room *)

\* Of two numbers C apart the greater is in a later band of width C.
LEMMA Bands ==
  ASSUME NEW C \in Nat \ {0}, NEW a \in Nat, NEW b \in Nat, a - b >= C
  PROVE  a \div C >= (b \div C) + 1
<1> DEFINE q == a \div C
           r == b \div C
<1>1. q \in Int /\ r \in Int /\ a = C * q + (a % C) /\ b = C * r + (b % C)
  OBVIOUS
<1>2. a % C \in 0..(C - 1) /\ b % C \in 0..(C - 1)
  OBVIOUS
<1>3. C * (q - r) > 0
  BY <1>1, <1>2
<1>4. q - r > 0
  BY <1>1, <1>3
<1> QED
  BY <1>1, <1>4

\* Whenever the gun is ready one of BulletLife / Cooldown slots is free: the
\* bands of the lives of the bullets in flight are all different.
THEOREM SlotIsFree == Spec => []SlotFree
<1>1. ASSUME IInv PROVE SlotFree
  <2> SUFFICES ASSUME CanFire, Free = {} PROVE FALSE
    BY DEF SlotFree
  <2> USE ConstantsAssumption
  <2> DEFINE last == (BulletLife - 1) \div Cooldown
             band(s) == (life[s] - 1) \div Cooldown
             f == [s \in Slots |-> band(s)]
  <2>1. \A s \in Slots : life[s] \in 1..(BulletLife - Cooldown)
    BY <1>1 DEF IInv, TypeOK, Aged, CanFire, Free
  <2>2. \A s \in Slots : life[s] - 1 \in Nat /\ band(s) \in Nat /\ last \in Nat
    BY <2>1
  <2>3. ASSUME NEW s \in Slots, NEW t \in Slots, life[s] - life[t] >= Cooldown
        PROVE  band(s) >= band(t) + 1
    <3>1. (life[s] - 1) - (life[t] - 1) >= Cooldown
      BY <2>1, <2>3
    <3> QED
      BY <2>2, <3>1, Bands
  <2>4. \A s, t \in Slots : s # t => band(s) # band(t)
    BY <1>1, <2>1, <2>2, <2>3 DEF IInv, BulletsSpaced
  <2>5. \A s \in Slots : band(s) \in 0..(last - 1)
    <3>1. SUFFICES ASSUME NEW s \in Slots PROVE band(s) + 1 <= last
      BY <2>2
    <3>2. BulletLife - 1 \in Nat /\ (BulletLife - 1) - (life[s] - 1) >= Cooldown
      BY <2>1
    <3> QED
      BY <2>2, <3>2, Bands
  <2> HIDE DEF band
  <2>6. f \in Injection(Slots, 0..(last - 1))
    BY <2>4, <2>5 DEF Injection, IsInjective
  <2>7. last \in Nat /\ Cardinality(Slots) > last /\ Cardinality(Slots) \in Nat
    <3>1. BulletLife - 1 \in Nat /\ Cooldown \in Nat \ {0}
      OBVIOUS
    <3> QED
      BY <3>1, FS_CardinalityType
  <2> HIDE DEF last, f
  <2>8. IsFiniteSet(0..(last - 1)) /\ Cardinality(0..(last - 1)) = last
    <3>1. last - 1 \in Int /\ 0 \in Int
      BY <2>7
    <3>2. /\ IsFiniteSet(0..(last - 1))
          /\ Cardinality(0..(last - 1)) = IF 0 > last - 1 THEN 0 ELSE (last - 1) - 0 + 1
      BY <3>1, FS_Interval
    <3> QED
      BY <2>7, <3>2
  <2>9. Cardinality(Slots) <= Cardinality(0..(last - 1))
    BY <2>6, <2>8, FS_Injection
  <2> QED
    BY <2>7, <2>8, <2>9
<1> QED
  BY <1>1, Inductive, PTL

-----------------------------------------------------------------------------
(* The client *)

\* input.fire is a truth value, as the trigger of Ship's Frame must be.
FireTyped == fire \in BOOLEAN

\* No callback and no pass makes it anything else.
LEMMA TriggerTyped == PilotSpec => []FireTyped
<1> USE DEF FireTyped
<1>1. PilotInit => FireTyped
  BY DEF PilotInit, Input!Init
<1>2. ASSUME FireTyped, [PilotNext]_pilotVars PROVE FireTyped'
  <2>1. CASE Callback
    BY <1>2, <2>1 DEF Callback, Input!Callback, Input!PressButton, Input!ReleaseButton,
         Input!PressKey, Input!ReleaseKey, Input!Escape, Input!MoveMouse,
         Input!SetMouseCapture, Input!aimVars, Input!triggerVars
  <2>2. CASE Passes
    BY <1>2, <2>2 DEF Passes, Pass, Input!PumpMouse, Input!triggerVars
  <2>3. CASE UNCHANGED pilotVars
    BY <1>2, <2>3 DEF pilotVars, Input!vars
  <2> QED
    BY <1>2, <2>1, <2>2, <2>3 DEF PilotNext
<1> HIDE DEF FireTyped
<1> QED
  BY <1>1, <1>2, PTL DEF PilotSpec

\* Every behaviour of the client is one of Ship: a pass is a Frame, and the
\* callbacks between passes are stuttering steps.
THEOREM PilotFliesShip == PilotSpec => Spec
<1>1. PilotInit => Init
  BY DEF PilotInit
<1>2. ASSUME FireTyped, [PilotNext]_pilotVars PROVE [Next]_vars
  <2>1. CASE Callback
    BY <2>1 DEF Callback
  <2>2. CASE Passes
    BY <1>2, <2>2, Zenon DEF FireTyped, Passes, Pass, Next
  <2>3. CASE UNCHANGED pilotVars
    BY <2>3 DEF pilotVars
  <2> QED
    BY <1>2, <2>1, <2>2, <2>3 DEF PilotNext
<1> QED
  BY <1>1, <1>2, TriggerTyped, PTL DEF PilotSpec, Spec

-----------------------------------------------------------------------------
(* The controls *)

\* fire is set only by a press, and each release clears it: while it is set,
\* a trigger is held.  The cursor's lastMouseX is current, and steered counts
\* from it, exactly when led says that the cursor has been captured since.
Hand ==
    /\ fire => held # {}
    /\ led <=> (mouseCaptured /\ ~firstMouse)
    /\ steered = IF led THEN x - lastMouseX ELSE 0

ControlsInv == Input!TypeOK /\ Hand

LEMMA ControlsStep == ASSUME ControlsInv, Input!Next PROVE ControlsInv'
<1>i. {x, lastMouseX} \subseteq Int /\ Places \subseteq Int
  BY PlacesAssumption DEF ControlsInv, Input!TypeOK
<1> USE DEF ControlsInv, Hand, Input!TypeOK, Input!Triggers, Input!triggerVars, Input!aimVars
<1>1. CASE Input!PressButton
  BY <1>1 DEF Input!PressButton, Input!SetMouseCapture
<1>2. CASE Input!ReleaseButton
  BY <1>2 DEF Input!ReleaseButton
<1>3. CASE Input!PressKey
  BY <1>3 DEF Input!PressKey
<1>4. CASE Input!ReleaseKey
  BY <1>4 DEF Input!ReleaseKey
<1>5. CASE Input!Escape
  <2>1. /\ UNCHANGED <<lastMouseX, mouseDX, held, fire>>
        /\ x' \in Places /\ steered' = 0
        /\ mouseCaptured' = FALSE /\ led' = FALSE /\ firstMouse' = TRUE
    BY <1>5, Zenon DEF Input!Escape, Input!SetMouseCapture
  <2>2. steered' \in Int
    BY <2>1
  <2> QED
    BY <2>1, <2>2, Zenon
<1>6. CASE Input!MoveMouse
  <2>1. /\ UNCHANGED <<held, fire, mouseCaptured, firstMouse, lastMouseX, mouseDX, led>>
        /\ x' \in Places /\ steered' = IF led THEN steered + (x' - x) ELSE 0
    BY <1>6, Zenon DEF Input!MoveMouse
  <2>2. ASSUME steered = x - lastMouseX, steered' = steered + (x' - x)
        PROVE  steered' \in Int /\ steered' = x' - lastMouseX
    <3>1. {x, x', lastMouseX} \subseteq Int
      BY <1>i, <2>1
    <3> QED
      BY <2>2, <3>1
  <2>3. 0 \in Int
    OBVIOUS
  <2> QED
    BY <2>1, <2>2, <2>3, Zenon
<1>7. CASE Input!PumpMouse
  <2>1. /\ UNCHANGED <<held, fire, mouseCaptured, x>>
        /\ lastMouseX' = x /\ steered' = 0 /\ led' = mouseCaptured /\ firstMouse' = FALSE
        /\ mouseDX' \in {x - x, x - lastMouseX, 0}
    BY <1>7, Zenon DEF Input!PumpMouse
  <2>2. mouseDX' \in Int /\ steered' \in Int /\ x - x = 0
    BY <1>i, <2>1
  <2> QED
    BY <2>1, <2>2, Zenon
<1> QED
  BY <1>1, <1>2, <1>3, <1>4, <1>5, <1>6, <1>7, Zenon DEF Input!Next, Input!Callback

LEMMA ControlsInductive == PilotSpec => []ControlsInv
<1>1. PilotInit => ControlsInv
  BY PlacesAssumption DEF PilotInit, Input!Init, ControlsInv, Input!TypeOK, Input!Triggers, Hand
<1>2. ASSUME ControlsInv, [PilotNext]_pilotVars PROVE ControlsInv'
  <2>1. CASE Callback \/ Passes
    BY <1>2, <2>1, ControlsStep DEF Callback, Passes, Pass, Input!Next
  <2>2. CASE UNCHANGED pilotVars
    BY <1>2, <2>2 DEF pilotVars, Input!vars, ControlsInv, Hand, Input!TypeOK
  <2> QED
    BY <1>2, <2>1, <2>2 DEF PilotNext
<1> QED
  BY <1>1, <1>2, PTL DEF PilotSpec

-----------------------------------------------------------------------------
(* What the run of the client checks, for every value of the constants *)

\* The types, spaced bullets, and a free slot for a ready gun.
THEOREM PilotSafe == PilotSpec => []GunSound
<1>1. TypeOK /\ ControlsInv /\ BulletsSpaced /\ SlotFree => GunSound
  BY DEF ControlsInv, PilotTypeOK, GunSound
<1> QED
  BY <1>1, PilotFliesShip, TypeCorrect, ControlsInductive, BulletsAreSpaced, SlotIsFree, PTL

\* Deaths of the client wait their time.
THEOREM PilotWaits == PilotSpec => []DeathWaits /\ RespawnWaits
  BY PilotFliesShip, DeathIsWaited, RespawnIsWaited, PTL

\* The ship fires only while a trigger is held, and only alive: the timer is
\* raised by a shot alone, and a shot needs fire, which Hand ties to a trigger.
THEOREM FireIsMeant == PilotSpec => NoPhantomFire
<1>1. ASSUME TypeOK, ControlsInv, [PilotNext]_pilotVars, fireTimer' > fireTimer
      PROVE  held # {} /\ alive
  <2>1. CASE Callback
    BY <1>1, <2>1 DEF Callback, vars, TypeOK
  <2>2. ASSUME NEW dt \in 1..MaxDt, NEW hits \in 0..MaxHits, Frame(dt, fire, hits)
        PROVE  fire /\ alive
    <3>1. (fire /\ CanFire) \/ fireTimer' = CountDown(fireTimer, dt)
      BY <2>2, Zenon DEF Frame
    <3>2. CountDown(fireTimer, dt) <= fireTimer
      BY <1>1, ConstantsAssumption DEF CountDown, TypeOK
    <3>3. fireTimer' = CountDown(Cooldown, dt) \/ fireTimer' = CountDown(fireTimer, dt)
      BY <2>2, Zenon DEF Frame
    <3>4. ~(fireTimer' <= fireTimer)
      BY <1>1, <3>3, ConstantsAssumption DEF CountDown, TypeOK
    <3> QED
      BY <3>1, <3>2, <3>4, Zenon DEF CanFire
  <2>3. CASE UNCHANGED pilotVars
    BY <1>1, <2>3 DEF pilotVars, vars, TypeOK
  <2> QED
    BY <1>1, <2>1, <2>2, <2>3 DEF PilotNext, Passes, Pass, ControlsInv, Hand
<1> QED
  BY <1>1, PilotFliesShip, TypeCorrect, ControlsInductive, PTL DEF PilotSpec, NoPhantomFire

\* Only the hand turns the ship.
THEOREM AimIsMeant == PilotSpec => AimIsHand
<1>1. ASSUME ControlsInv, [PilotNext]_pilotVars, mouseDX' # mouseDX PROVE mouseDX' = steered
  <2>1. CASE Callback
    BY <1>1, <2>1 DEF Callback, Input!Callback, Input!PressButton, Input!ReleaseButton,
         Input!PressKey, Input!ReleaseKey, Input!Escape, Input!MoveMouse,
         Input!SetMouseCapture, Input!aimVars
  <2>2. CASE Input!PumpMouse
    <3>1. mouseDX' = IF mouseCaptured /\ ~firstMouse THEN x - lastMouseX
                     ELSE IF mouseCaptured THEN x - x ELSE 0
      BY <2>2, Zenon DEF Input!PumpMouse
    <3>2. x - x = 0
      <4>1. x \in Int
        BY <1>1, PlacesAssumption DEF ControlsInv, Input!TypeOK
      <4> QED
        BY <4>1
    <3>3. mouseDX' = steered
      BY <1>1, <3>1, <3>2, Zenon DEF ControlsInv, Hand
    <3> QED
      BY <3>3
  <2>3. CASE UNCHANGED pilotVars
    BY <1>1, <2>3 DEF pilotVars, Input!vars
  <2> QED
    BY <1>1, <2>1, <2>2, <2>3 DEF PilotNext, Passes, Pass
<1> QED
  BY <1>1, ControlsInductive, PTL DEF PilotSpec, AimIsHand
=============================================================================
