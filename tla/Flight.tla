-------------------------------- MODULE Flight --------------------------------
(***************************************************************************)
(* A bullet of the local pilot against the view of a peer, frame by frame: *)
(* raySphere and the swept test of Arena::update, in the plane and on      *)
(* integers.  In a frame the view is moved (Motion) before the bullet is   *)
(* tested.                                                                 *)
(*                                                                         *)
(* The bullet flies along the line on which the ship moves, or beside it.  *)
(***************************************************************************)
EXTENDS Motion

CONSTANTS
    Radius,  \* Player::kRadius
    Speed,   \* kBulletSpeed, per tick
    Life     \* Bullet::life, in ticks

ASSUME FlightAssumption == {Radius, Speed, Life} \subseteq Nat \ {0}

VARIABLES
    side,    \* how far the ship is beside the bullet's line
    bullet,  \* the bullet
    swept    \* the latest test: its travel, and whether the ship was alive

vars == <<motionVars, side, bullet, swept>>

Dot(u, v) == u[1] * v[1] + u[2] * v[2]
Plus(u, k, v) == <<u[1] + k * v[1], u[2] + k * v[2]>>   \* u + k v
Minus(u, v) == Plus(u, -1, v)

Dir == <<1, 0>>   \* of the bullet's velocity: the arena is symmetric
Center(b) == <<b.pos, side>>

None == [state |-> "none", pos |-> <<0, 0>>, speed |-> 0, life |-> 0]

TypeOK ==
    /\ MotionTypeOK
    /\ side \in 0..(Radius + 1)
    /\ bullet \in [state : {"none", "flying", "hit", "spent"},
                   pos : Int \X {0}, speed : Nat, life : Int]
    /\ swept \in [len : Nat, live : BOOLEAN]

Init ==
    /\ MotionInit
    /\ side \in IF kind = "remote" THEN 0..(Radius + 1) ELSE {0}
    /\ bullet = None
    /\ swept = [len |-> 0, live |-> FALSE]

\* spawnBullet: the shooter's velocity, thrust and not yet damped, is added.  A
\* shooter that flies backward faster than the bullet forward takes it along.
Shots ==
    [state : {"flying"}, pos : Places \X {0}, speed : {Abs(Speed + v) : v \in Speeds}, life : {Life}]

RaySphere_AnyDistance(origin, c, travel) ==
    LET oc   == Minus(origin, c)
        b    == Dot(oc, Dir)
        cc   == Dot(oc, oc) - Radius * Radius
    IN  ~(cc > 0 /\ b > 0) /\ b * b >= cc
RaySphere_PointAfter(origin, c, travel) ==
    LET oc == Minus(Plus(origin, travel, Dir), c) IN Dot(oc, oc) <= Radius * Radius
\* raySphere, and its distance t = -b - sqrt(disc), or 0, within travel.
RaySphere(origin, c, travel) ==
    LET oc   == Minus(origin, c)
        b    == Dot(oc, Dir)
        cc   == Dot(oc, oc) - Radius * Radius
        disc == b * b - cc
        beyond == -b - travel
    IN  /\ ~(cc > 0 /\ b > 0)
        /\ disc >= 0
        /\ beyond <= 0 \/ beyond * beyond <= disc

Spent(l) == l <= 0

\* The bullet's turn in Arena::update, when the view is where body' says.
Tested(shot, living, dt) ==
    LET travel == shot.speed * dt
        aged   == [shot EXCEPT !.life = @ - dt]
        hit    == living /\ RaySphere(shot.pos, Center(body'), travel)
    IN  IF shot.state # "flying"
        THEN bullet' = shot /\ alive' = living /\ UNCHANGED swept
        ELSE /\ swept' = [len |-> travel, live |-> living]
             /\ \/ hit /\ bullet' = [aged EXCEPT !.state = "hit"] /\ alive' \in BOOLEAN
                \/ ~hit /\ Spent(aged.life) /\ bullet' = [aged EXCEPT !.state = "spent"] /\ alive' = living
                \/ /\ ~hit /\ ~Spent(aged.life)
                   /\ bullet' = [aged EXCEPT !.pos = Plus(@, travel, Dir)]
                   /\ alive' = living

Loaded == IF bullet.state = "none" THEN Shots \cup {None} ELSE {bullet}

\* The trigger, the reports that have arrived, of which the last counts, the
\* view's motion and the bullet, until the bullet is gone.
Frame(dt) ==
    /\ bullet.state \in {"none", "flying"}
    /\ \E shot \in Loaded :
       \/ /\ RemoteFrame(dt, body, alive, target)
          /\ Tested(shot, alive, dt)
          /\ UNCHANGED side
       \/ \E r \in Reports :
          /\ RemoteFrame(dt, [body EXCEPT !.vel = r.vel], r.alive, r.pos)
          /\ Tested(shot, r.alive, dt)
          /\ UNCHANGED side

Next ==
    \E dt \in 1..MaxDt :
       \/ Frame(dt)
       \/ LocalFrame(dt) /\ UNCHANGED <<side, bullet, swept>>

Spec == Init /\ [][Next]_vars

-----------------------------------------------------------------------------
(* Properties *)

\* The point of the swept segment that is nearest to the ship.  A bullet that
\* flies on is at its end, one that is gone was left at its start.
Nearest ==
    LET from == IF bullet.state = "flying" THEN Plus(bullet.pos, -swept.len, Dir) ELSE bullet.pos
        t    == Dot(Minus(Center(body), from), Dir)
    IN  Plus(from, Most(0, Least(t, swept.len)), Dir)

\* A bullet is consumed in the first frame in which some point of its path
\* touches a live ship, and in no frame in which none does.
HitIsTouch ==
    /\ TypeOK
    /\ bullet.state # "none" =>
          LET d == Minus(Nearest, Center(body))
          IN  bullet.state = "hit" <=> swept.live /\ Dot(d, d) <= Radius * Radius

Along == Dot(Minus(Center(body), bullet.pos), Dir)
HalfChord2 == Radius * Radius - side * side   \* the square of half the chord

\* A bullet never comes out behind a live ship that was ahead of it, unless
\* the ship has moved toward it by more than the chord that the bullet's line
\* cuts from it, or by more than half of it if it was dead when the bullet was
\* last tested: however far the bullet itself moves in a frame.
NoTunnelling ==
    [][LET moved == body'.pos - body.pos
       IN  bullet.state = "flying" /\ bullet'.state = "flying" /\ alive' /\ Along > 0
              /\ moved * moved <= (IF swept.live THEN 4 ELSE 1) * HalfChord2
           => Along' > 0]_vars
=============================================================================
