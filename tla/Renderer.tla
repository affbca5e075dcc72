------------------------------- MODULE Renderer -------------------------------
(***************************************************************************)
(* The renderer, and the half of frame() that draws: the chase camera, the *)
(* frustum it is culled against, the draw calls of Arena::render, and the  *)
(* counters and frame times of the profiler.                               *)
(*                                                                         *)
(* Space is a grid.  The ship turns by quarter turns, and the camera's     *)
(* offsets are chosen so that its line of sight has an integral length:    *)
(* every plane of the frustum is then exact.  Programs, uniforms and       *)
(* shading decide how an object looks, not whether it is drawn, and are    *)
(* left out.                                                               *)
(***************************************************************************)
EXTENDS Profiler

CONSTANTS
    Places,        \* where the ship can be
    Sites,         \* where peers and bullets can be
    Turns,         \* what a frame's input can turn the ship by: quarter turns
    Back, Lift,    \* the camera's place behind and above the ship
    Ahead,         \* how far before the ship it looks
    Norm,          \* the length of its line of sight
    Near, Far,     \* the planes of glm::perspective
    FocalX, FocalY, \* the scales of glm::perspective
    ShipRadius,    \* kShipBoundingRadius
    BulletRadius,  \* kBulletBoundingRadius
    MaxObjects     \* bound: peers and bullets drawn in a frame

ASSUME CameraAssumption ==
    /\ Places \cup Sites \subseteq [1..3 -> Int]
    /\ Turns \subseteq [yaw : -1..1, pitch : -1..1, roll : -1..1]
    /\ {Back, Lift, Ahead, Norm, Near, Far, FocalX, FocalY} \subseteq Int
    /\ (Back + Ahead) * (Back + Ahead) + Lift * Lift = Norm * Norm
    /\ 0 < Near /\ Near < Far /\ 0 < Norm
    /\ {ShipRadius, BulletRadius, MaxObjects} \subseteq Nat \ {0}

VARIABLES
    attitude,  \* the ship's axes: right, up and forward
    pos,       \* its position
    alive,
    culling,   \* cullingEnabled_
    frustum,   \* the planes of frustum_
    counters,
    stage,     \* where the frame stands
    issued,    \* calls of drawLit, drawFlat and drawFlatRaw since the frame began
    skipped    \* the spheres of the objects it has culled

shipVars == <<attitude, pos, alive>>
profileVars == <<samples, cursor>>
viewVars == <<shipVars, culling, frustum, counters, stage, issued, skipped>>
allVars == <<profileVars, viewVars>>

-----------------------------------------------------------------------------
(* Vectors, and planes: the points p with Dot(normal, p) + w = 0 *)

Dot(u, v) == u[1] * v[1] + u[2] * v[2] + u[3] * v[3]
Scaled(k, v) == [i \in 1..3 |-> k * v[i]]
Sum2(j, u, k, v) == [i \in 1..3 |-> j * u[i] + k * v[i]]   \* j u + k v
Row(v, w) == [normal |-> v, w |-> w]
RowSum(r, k, s) == Row(Sum2(1, r.normal, k, s.normal), r.w + k * s.w)

Goto(from, to) == stage = from /\ stage' = to

Identity == [right |-> <<1, 0, 0>>, up |-> <<0, 1, 0>>, forward |-> <<0, 0, -1>>]

NoCounts == [drawCalls |-> 0, culled |-> 0, considered |-> 0]

RenderInit ==
    /\ Init
    /\ attitude = Identity
    /\ pos \in Places
    /\ alive = TRUE
    /\ culling = TRUE
    /\ frustum = {}
    /\ counters = NoCounts
    /\ stage = "update"
    /\ issued = 0
    /\ skipped = {}

-----------------------------------------------------------------------------
(* applyInput: turns about the ship's own axes, one after the other.  A    *)
(* quarter turn of n has cosine 1 - n * n and sine n.                      *)

\* The mouse moved to the right turns the nose to the right.
Yaw(a, n) ==
    [a EXCEPT !.forward = Sum2(1 - n * n, a.forward, n, a.right),
              !.right   = Sum2(1 - n * n, a.right, -n, a.forward)]
\* The mouse moved down turns the nose down.
Pitch(a, n) ==
    [a EXCEPT !.forward = Sum2(1 - n * n, a.forward, -n, a.up),
              !.up      = Sum2(1 - n * n, a.up, n, a.forward)]
\* rollRight turns about the axis that points backwards: it lifts the right wing.
Roll(a, n) ==
    [a EXCEPT !.right = Sum2(1 - n * n, a.right, n, a.up),
              !.up    = Sum2(1 - n * n, a.up, -n, a.right)]

Turned_RollFirst(a, t) == Pitch(Yaw(Roll(a, t.roll), t.yaw), t.pitch)
Turned(a, t) == Roll(Pitch(Yaw(a, t.yaw), t.pitch), t.roll)

\* The update half of frame(): the ship turns and flies, may die, and is put
\* back on its feet when it respawns.
ApplyInput(t) ==
    /\ stage = "update" /\ alive
    /\ attitude' = Turned(attitude, t)
    /\ pos' \in Places
    /\ alive' \in BOOLEAN
    /\ UNCHANGED <<culling, frustum, counters, stage, issued, skipped, profileVars>>

Respawn ==
    /\ stage = "update" /\ ~alive
    /\ attitude' = Identity
    /\ pos' \in Places
    /\ alive' = TRUE
    /\ UNCHANGED <<culling, frustum, counters, stage, issued, skipped, profileVars>>

SetCullingEnabled ==
    /\ stage = "update"
    /\ culling' = ~culling
    /\ UNCHANGED <<shipVars, frustum, counters, stage, issued, skipped, profileVars>>

\* The benchmark starts each of its passes with an empty window.
ResetProfiler ==
    /\ stage = "update" /\ Reset
    /\ UNCHANGED viewVars

-----------------------------------------------------------------------------
(* The camera and its frustum *)

Eye == Sum2(1, pos, 1, Sum2(-Back, attitude.forward, Lift, attitude.up))
Sight == Sum2(Back + Ahead, attitude.forward, -Lift, attitude.up)
Above == Sum2(Lift, attitude.forward, Back + Ahead, attitude.up)

\* The rows of proj * view, all of them times Norm * (Far - Near).
Through(k, v, w) == Row(Scaled(k, v), w - k * Dot(v, Eye))
Row0 == Through((Far - Near) * FocalX * Norm, attitude.right, 0)
Row1 == Through((Far - Near) * FocalY, Above, 0)
Row2 == Through(Far + Near, Sight, -2 * Far * Near * Norm)
Row3 == Through(Far - Near, Sight, 0)

Extract_SwappedFar == {RowSum(r, k, Row3) : r \in {Row0, Row1, Row2}, k \in {1, -1}}
Extract == {RowSum(Row3, k, r) : r \in {Row0, Row1, Row2}, k \in {1, -1}}

\* The signed distance, times the length of the normal, against the radius.
Outside(plane, center, radius) ==
    LET d == Dot(plane.normal, center) + plane.w
    IN  d < 0 /\ d * d > radius * radius * Dot(plane.normal, plane.normal)

ContainsSphere(center, radius) == \A plane \in frustum : ~Outside(plane, center, radius)

BeginFrame(ms) ==
    /\ Goto("update", "backdrop")
    /\ AddSample(ms)
    /\ counters' = NoCounts /\ issued' = 0
    /\ frustum' = Extract
    /\ UNCHANGED <<shipVars, culling, skipped>>

-----------------------------------------------------------------------------
(* Arena::render *)

\* A radius of 0 opts an object out of culling.
Considered(radius) == culling /\ radius > 0

NoteDraws(n) == counters' = [counters EXCEPT !.drawCalls = @ + n] /\ issued' = issued + n

Draw_CountsFirst(center, radius) ==
    /\ issued' = issued + 1
    /\ LET seen == Considered(radius) => ContainsSphere(center, radius)
       IN  /\ counters' = [drawCalls  |-> counters.drawCalls + 1,
                           culled     |-> counters.culled + (IF seen THEN 0 ELSE 1),
                           considered |-> counters.considered + (IF Considered(radius) THEN 1 ELSE 0)]
           /\ skipped' = IF seen THEN skipped ELSE skipped \cup {<<center, radius>>}
\* testVisible, then the draw call: the same for drawLit and drawFlat.
Draw(center, radius) ==
    /\ issued' = issued + 1
    /\ LET seen == Considered(radius) => ContainsSphere(center, radius)
       IN  /\ counters' = [drawCalls  |-> counters.drawCalls + (IF seen THEN 1 ELSE 0),
                           culled     |-> counters.culled + (IF seen THEN 0 ELSE 1),
                           considered |-> counters.considered + (IF Considered(radius) THEN 1 ELSE 0)]
           /\ skipped' = IF seen THEN skipped ELSE skipped \cup {<<center, radius>>}

\* The stars and the arena's shell.
DrawBackdrop ==
    /\ Goto("backdrop", "peers")
    /\ NoteDraws(2)
    /\ UNCHANGED <<shipVars, culling, frustum, skipped, profileVars>>

\* A peer that is dead is passed over, like one that is not there.
DrawPeer(site) ==
    /\ Goto("peers", "peers") /\ issued < MaxObjects + 2
    /\ Draw(site, ShipRadius)
    /\ UNCHANGED <<shipVars, culling, frustum, profileVars>>

DrawOwnShip ==
    /\ Goto("peers", "bullets")
    /\ IF alive THEN Draw(pos, ShipRadius) ELSE UNCHANGED <<counters, issued, skipped>>
    /\ UNCHANGED <<shipVars, culling, frustum, profileVars>>

DrawBullet(site) ==
    /\ Goto("bullets", "bullets") /\ issued < MaxObjects + 2
    /\ Draw(site, BulletRadius)
    /\ UNCHANGED <<shipVars, culling, frustum, profileVars>>

\* One call for the whole pool of particles, and none for an empty one.
DrawParticles ==
    /\ Goto("bullets", "hud")
    /\ \E n \in {0, 1} : NoteDraws(n)
    /\ UNCHANGED <<shipVars, culling, frustum, skipped, profileVars>>

\* The frame is shown.  Its counters stay, for the log line and the exports
\* that read them until the next frame begins; the frustum stays too, but
\* nothing reads it before it is set again, and the model forgets it.
EndFrame ==
    /\ Goto("hud", "update")
    /\ frustum' = {} /\ skipped' = {}
    /\ UNCHANGED <<shipVars, culling, counters, issued, profileVars>>

-----------------------------------------------------------------------------
RenderNext ==
    \/ \E t \in Turns : ApplyInput(t)
    \/ Respawn \/ SetCullingEnabled \/ ResetProfiler
    \/ \E ms \in Samples : BeginFrame(ms)
    \/ DrawBackdrop \/ DrawOwnShip \/ DrawParticles \/ EndFrame
    \/ \E site \in Sites : DrawPeer(site) \/ DrawBullet(site)

RenderSpec == RenderInit /\ [][RenderNext]_allVars

-----------------------------------------------------------------------------
(* Properties *)

\* What the projection makes of a point: whether it lies on the screen and
\* between the near and the far plane.
OnScreen(p) ==
    LET v == Sum2(1, p, -1, Eye)
        depth == Dot(v, Sight)   \* times Norm
        Within(x, y) == -y <= x /\ x <= y
    IN  /\ Near * Norm <= depth /\ depth <= Far * Norm
        /\ Within(FocalX * Norm * Dot(v, attitude.right), depth)
        /\ Within(FocalY * Dot(v, Above), depth)

Ball(radius) ==
    LET side == -radius..radius
    IN  {v \in side \X side \X side : Dot(v, v) <= radius * radius}

\* Culling never pops geometry out of existence: whatever the attitude and the
\* order of turns, no point of a culled sphere projects onto the screen.
CulledIsInvisible ==
    \A s \in skipped : \A v \in Ball(s[2]) : ~OnScreen(Sum2(1, s[1], 1, v))

\* A barrel roll does not invert the controls: in every attitude the mouse
\* turns the nose to what the screen of the frame before shows at the right or
\* below, and no roll key held in the same frame changes where it comes to
\* point.  (The yaw comes first: what the pitch leaves of it is its cosine.)
RollKeepsControls ==
    [][\A t \in Turns : ApplyInput(t) =>
          LET level == 1 - t.pitch * t.pitch IN
          /\ Dot(attitude'.forward, attitude.right) = level * t.yaw
          /\ Dot(attitude'.forward, attitude.up) = -t.pitch
          /\ Dot(attitude'.forward, attitude.forward) = level * (1 - t.yaw * t.yaw)]_viewVars

\* README: with culling on or off the counters speak of the same scene.  Each
\* object is either drawn or culled, also when the counters are read after the
\* frame; none is culled without a test, and while a frame is drawn with
\* culling switched off none is tested.
CountersAddUp ==
    /\ counters.drawCalls + counters.culled = issued
    /\ stage # "update" /\ ~culling => counters.considered = 0
    /\ counters.culled <= counters.considered /\ Cardinality(skipped) <= counters.culled
=============================================================================
