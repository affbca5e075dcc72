-------------------------------- MODULE Motion --------------------------------
(***************************************************************************)
(* How a ship moves in a client's arena, along one line: thrust, damping   *)
(* and walls for the pilot's own ship, and for the view of a peer the      *)
(* easing toward its latest report on top of the same physics.             *)
(*                                                                         *)
(* Floats are integers; a product that is no integer is rounded either     *)
(* way.  Damping loses 1/Damping of the velocity per tick, and easing      *)
(* closes 1/Ease of the distance.                                          *)
(***************************************************************************)
EXTENDS Integers

CONSTANTS
    HalfExtent,  \* kHalfExtent
    SpawnExtent, \* of randomSpawnPoint
    Thrust,      \* kThrust * kBoostFactor: velocity gained in a tick at most
    Damping,     \* 1 / linearDamping, in ticks
    Ease,        \* 1 / 12 of a second, in ticks
    MaxDt,       \* kMaxDt
    Places, Speeds  \* bounds: where reported ships are, and how fast

Terminal == Thrust * Damping   \* where thrust and damping cancel
Fastest == Terminal + Thrust * MaxDt   \* between thrust and damping
Inside == (-HalfExtent)..HalfExtent

\* With frames no longer than kMaxDt neither max(0, ..) in damping nor
\* min(1, ..) in easing ever cuts.
ASSUME MotionAssumption ==
    /\ {HalfExtent, Thrust, Damping, Ease, MaxDt} \subseteq Nat \ {0}
    /\ SpawnExtent \in 0..HalfExtent
    /\ MaxDt <= Ease /\ MaxDt <= Damping
    /\ Places \subseteq Inside /\ Speeds \subseteq (-Fastest)..Fastest

VARIABLES
    kind,    \* whose ship: "local" or "remote"
    body,    \* its RigidBody: position and velocity
    alive,
    target   \* targetPos of a remote view

motionVars == <<kind, body, alive, target>>

Least(m, n) == IF m < n THEN m ELSE n
Most(m, n) == IF m < n THEN n ELSE m
Abs(n) == Most(n, -n)

\* n * num / den, rounded down or up.
Scaled(n, num, den) == {(n * num) \div den, -((-(n * num)) \div den)}

\* What the client of a peer sends of its ship: see ShipBounded.
Reports ==
    {r \in [pos : Places, vel : Speeds, alive : BOOLEAN] : r.alive => Abs(r.vel) <= Terminal}

MotionTypeOK ==
    /\ kind \in {"local", "remote"}
    /\ body \in [pos : Inside, vel : Int]
    /\ alive \in BOOLEAN
    /\ target \in Inside

\* main respawns the local ship; a view is made by the first report.
MotionInit ==
    \/ /\ kind = "local"
       /\ \E p \in (-SpawnExtent)..SpawnExtent : body = [pos |-> p, vel |-> 0]
       /\ alive = TRUE
       /\ target = 0
    \/ /\ kind = "remote"
       /\ \E r \in Reports :
             body = [pos |-> r.pos, vel |-> r.vel] /\ alive = r.alive /\ target = r.pos

-----------------------------------------------------------------------------
(* RigidBody *)

AddForce(b, f, dt) == [b EXCEPT !.vel = @ + f * dt]

Damped_PerFrame(v, dt) == Scaled(v, Most(0, Damping - 1), Damping)
Damped(v, dt) == Scaled(v, Most(0, Damping - dt), Damping)

Integrated(b, dt) == {[pos |-> b.pos + b.vel * dt, vel |-> v] : v \in Damped(b.vel, dt)}

\* A dead ship hangs where it died.
Updated(b, living, dt) == IF living THEN Integrated(b, dt) ELSE {b}

KeptInBounds_OneSide(b) ==
    IF b.pos \in Inside THEN {b}
    ELSE {[pos |-> HalfExtent, vel |-> v] : v \in Scaled(-b.vel, 2, 5)}
KeptInBounds(b) ==
    IF b.pos \in Inside THEN {b}
    ELSE {[pos |-> IF b.pos > HalfExtent THEN HalfExtent ELSE -HalfExtent, vel |-> v] :
             v \in Scaled(-b.vel, 2, 5)}

Moved(b, living, dt) == UNION {KeptInBounds(c) : c \in Updated(b, living, dt)}

Eased(b, to, dt) ==
    {[b EXCEPT !.pos = b.pos + d] : d \in Scaled(to - b.pos, Least(dt, Ease), Ease)}

-----------------------------------------------------------------------------
(* frame *)

\* Thrust, the hits that have arrived, physics, walls, and the respawn.
LocalFrame(dt) ==
    /\ kind = "local"
    /\ \E f \in (-Thrust)..Thrust, struck \in BOOLEAN :
          LET pushed == IF alive THEN AddForce(body, f, dt) ELSE body
              living == alive /\ ~struck
          IN  \/ body' \in Moved(pushed, living, dt) /\ alive' = living
              \/ /\ ~alive
                 /\ \E p \in (-SpawnExtent)..SpawnExtent : body' = [pos |-> p, vel |-> 0]
                 /\ alive' = TRUE
    /\ UNCHANGED <<kind, target>>

\* A view that has last been told of report is eased and moved on.  The step
\* leaves alive to the bullets that are tested next.
RemoteFrame(dt, view, living, to) ==
    /\ kind = "remote"
    /\ target' = to
    /\ \E b \in Eased(view, to, dt) : body' \in Moved(b, living, dt)
    /\ UNCHANGED kind

-----------------------------------------------------------------------------
(* Properties *)

\* However frames of uneven length, boosts, bounces, deaths and respawns
\* follow each other, a ship is inside the walls and never faster than thrust
\* and damping allow, but for the last thrust of a ship that died in the frame
\* and was not damped: what a client reports is what views are made for.
ShipBounded ==
    /\ body.pos \in Inside
    /\ Abs(body.vel) <= (IF alive THEN Terminal ELSE Fastest)

\* In a frame a view comes no further from the place last reported than it
\* was, or than the fastest ship flies in the time that easing takes: physics,
\* walls and easing together never drive it away from the ship.
ViewHolds ==
    [][kind = "remote" =>
          Abs(body'.pos - target') <= Most(Abs(body.pos - target'), Terminal * Ease)]_motionVars
=============================================================================
