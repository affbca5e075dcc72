# TLA+ specifications of 3d-space-arena

This directory models the parts of *3d-space-arena* in which state is shared, arrives late, or is
counted: the matchmaker, the WebSocket relay, their composition with browser tabs and restarts,
combat between clients, the ship's timers and controls, its motion and the views of peers, accounts
and tokens with the page that signs in, the swept bullet test, the particle pool, the drawing of a
frame with its culling and frame times, and the ownership and shape of meshes. TLC checks every model
on small instances; TLAPS proves, for every value of the constants, every safety property that the
passing runs check, the refinements included. Liveness is model-checked only.

Contents: [the system](#1-the-system) · [modules](#2-modules) · [runs](#3-runs) ·
[findings](#4-findings) · [bounds](#5-bounds) · [fairness](#6-fairness-and-deadlock) ·
[proofs](#7-proofs) · [abstractions](#8-abstractions) · [not modelled](#9-not-modelled) ·
[plan](#10-plan)

Paths are relative to the repository's root. The Java sources are under
`backend/src/main/java/com/arena/`, written `…/` below.

## 1. The system

A pilot opens a web page, signs in, is sent to an *arena* (a room of at most eight pilots), and flies
in the browser. Clients simulate; the server matches, relays and keeps books.

```
 web/shell.html --REST--> AuthController, MatchmakingController --> TokenService, MatchmakingService
      |  callMain(url, callsign)                                          ^ leaveArena
      v                                                                   |
 main.cpp frame() <--WebSocket frames--> GameWebSocketHandler ------------+--> users (kills)
   Player, Arena, NetworkClient, ParticleSystem, Profiler, Renderer
```

| Component | State it keeps | Operations | Meets | What is hard |
|---|---|---|---|---|
| Matchmaker (`…/service/MatchmakingService.java`) | `arenaMembers`: arena id → set of names | `joinArena` (synchronized), `leaveArena`, `playersIn` (not) | request threads; the relay calls `leaveArena` when a socket closes | unlocked leaves run between the steps of a locked join; a save may fail halfway; seats nobody takes |
| Relay (`…/websocket/GameWebSocketHandler.java`) | `arenas`: id → set of sessions, `sessionArena`, `sessionPlayer` | connect, text frame (state, shot, hit, kill), close, `broadcast`, `recordKill` | container threads, one callback per session at a time; clients; the `users` table | no lock: a room is dropped while another session enters it; a farewell must reach survivors, though a peer may close while it is written to; counts are read, then written, by queries that may fail |
| Client (`src/main.cpp`, `src/network/client.cpp`, `src/game/arena.cpp`) | own ship, `remoteViews`, `bullets_`, inbox | `frame()`: input, fire, poll, interpolate, update, report | other clients, through frames that arrive late | the victim owns its health and the shooter resolves hits: two clients disagree for a while |
| Ship (`src/game/player.cpp`, `arena.cpp`) | health, `alive_`, `fireTimer_`, `respawnTimer_`, bullets' lives | fire, `takeDamage`, `update`, `respawn` | frames of uneven length | timers that pass zero by part of a frame |
| Accounts (`…/controller/AuthController.java`, `…/service/TokenService.java`) | `users` rows, `tokenToUsername` | register, login, logout, resolve | request threads, restarts of the process | check-then-insert; tokens and rows lost at different times |
| Page (`web/shell.html`) | form, `started`, click handlers | submit (three awaited requests), solo, launch, click | backend, engine start-up | everything that happens between two awaits |
| Input (`src/main.cpp`) | `input`, `mouseCaptured`, `firstMouse`, `lastMouseX/Y` | key, button, `setMouseCapture`, `pumpMouse` | window system | stale flags and cursor places |
| Physics (`include/engine/physics.h`, `math.h`, `arena.cpp`) | position and velocity of ships and bullets, `targetPos` of a view | `addForce`, `RigidBody::update`, `keepInBounds`, `interpolateRemotes`, `raySphere` | frame length, reports that arrive late | fast objects, discrete steps, a view that is both eased and simulated |
| Particles (`src/engine/particles.cpp`) | `live_`, a vector up to `capacity` | `burst`, `update` | the vertex buffer | swap-and-pop while iterating |
| Profiler (`include/engine/profiler.h`) | ring of samples, cursor | `addSample`, `stats`, `reset` | `frame()` | wrap-around, ranks at small sizes |
| Renderer (`src/engine/renderer.cpp`, `include/engine/frustum.h`, `src/game/player.cpp`) | attitude of the ship, frustum, counters | `applyInput`, `beginFrame`, `testVisible`, `drawLit`, `drawFlat`, `drawFlatRaw`, `setCullingEnabled` | the profiler | signs and orders in 3D, in attitudes nobody looks at |
| Mesh (`src/engine/mesh.cpp`) | OpenGL names, what was uploaded | upload, move, destroy, `primitives::make…` | OpenGL | double deletion, leaks, stale index flags, flipped triangles |
| Shaders, start-up; leaderboard; rows; wiring; tests | | | | see [not modelled](#9-not-modelled) |

What makes each correct:

* **Matchmaker** – no arena is overfilled; a seat that was given stays until it is given back; an
  empty arena does not stay listed; no pilot is sent to a room that is no longer listed.
* **Relay** – a closed session is in no room and its ship is gone from every client of the room;
  a kill that is reported is counted, once.
* **Both with the tabs** – they agree on who is in a room, through reloads, lost answers and
  restarts, and no room holds more than the matchmaker lets in.
* **Client** – a shot hurts at most once and damage is applied once, at its owner; views settle.
* **Ship** – cooldown and respawn delay are honoured whatever the frame lengths; the dead return.
* **Physics** – ships stay inside the walls and below the speed that the bullet test and the views
  presuppose; a view does not run away from its ship; a bullet is consumed just when its path touches.
* **Accounts and page** – first come keeps the callsign; logout is revocation; one game, under a
  callsign that has a seat and is this pilot's; the form does not lock up.
* **Input** – no fire without a trigger held; only the hand's motion turns the ship.
* **Renderer, profiler** – nothing on the screen is culled; the counters add up; the ring of frame
  times is a sliding window.
* **Particles, mesh** – each element aged once; names owned once; what is drawn is whole.

`PROJECT.json` lists the hazards behind these, each at its line, with the properties aimed at it.

## 2. Modules

Every component has a module whose variables carry the source's names where they can, and one
action per operation, or per atomic step of an operation that other threads can interrupt. A module
`MCx` extends `x` with the values its configurations assign. Operators named `Action_SomeBug`, placed
before the action they vary, are wrong versions of it (a dropped guard, a missing reset); no
specification uses them. They exist to show that a property can fail.

| Module | Models | State ↔ code | Actions ↔ code |
|---|---|---|---|
| `Matchmaking` | `MatchmakingService` | `listed`, `members` = keys and values of `arenaMembers`; `monitor` = the object's lock; `pc`, `at`, `todo` = where a thread is, its arena, its iterator | `Enter`…`SaveMatch` = `joinArena`; `Answer` = `playersIn` in the controller; `Leave`, `RemoveMember`, `CheckEmpty`, `DropArena` = `leaveArena`; `Abandon` = a seat whose socket never named its pilot |
| `Seats` | what matchmaking promises | `seat` = the arena each pilot has been told | `Sit`, `Rise` |
| `Relay` | `GameWebSocketHandler` | `arenas`, `sessionArena`, `sessionPlayer` as in the code; `room` = the contents of a set *object*, since a thread may hold one that is no longer in the map; `todo`, `dest` = the iterator of a broadcast and the peer it writes to; `claimed` = kill frames received; `ships` = what each client shows | `Register`, `AddSession`, `LogJoin` = `afterConnectionEstablished`; `ReceiveState`, `ReceiveKill`, `ReceiveOther` = `handleTextMessage`; `FindUser`, `SaveUser`, `RecordFails` = `recordKill` with an account, without one, and with a query that throws; `Lookup`, `NextPeer` (the iterator and `isOpen`), `SendTo`, `SendFails` (`sendMessage`, and its unchecked exception), `EndBroadcast` = `broadcast`; `Closed`…`Leave` = `afterConnectionClosed` |
| `Backend` | `Matchmaking` with the relay's rooms, the tabs and the process | `page`, `wire` = a tab, and where the server stands with its socket; `arenas`, `room`, `ref`, `named`, `open` as in `Relay`; `restarts` | `Ask`, `Serve`, `GiveBack` = the steps of `Matchmaking`; `Connect`, `AddSession`, `LogJoin` = `afterConnectionEstablished`; `SendFrame` = the first frame; `Closed`, `RemoveSession`, `CheckRoom`, `DropRoom`, `Depart` = `afterConnectionClosed`; `Arrive`, `Lose`, `FlyAlone`, `Sever`, `Shut`, `Restart` = what happens around them |
| `Combat` | `frame()` of several clients | `view` = health in `remoteViews`; `bullets` = `bullets_`, each with the shot it came from; `net` = frames under way | one `Frame` = one pass of `frame()`; `Disconnect` = the socket closes |
| `Ship` | `Player`, bullet lives | the fields, in ticks; `life` = lives of the ship's bullets | `Frame` = fire, `takeDamage`, `Player::update`, the respawn test, ageing |
| `Controls` | `onKey`, `onMouseButton`, `setMouseCapture`, `pumpMouse` | the fields of `g_app` | one action per callback |
| `Pilot` | one client's pass of `frame()` with the callbacks between passes | the variables of `Ship` and of `Controls` | `Pass` = `pumpMouse`, then `Ship!Frame` with `input.fire` as its trigger; `Callback` = those of `Controls` |
| `Motion` | `RigidBody`, `keepInBounds`, the thrust of `applyInput`, `interpolateRemotes` | `body`, `alive`, `target` of one ship on one axis, on integers | `LocalFrame` = a pass for the own ship; `RemoteFrame` = a pass for the view of a peer |
| `Flight` | `raySphere` and its use in `Arena::update`, over `Motion` | `bullet`, `side` = how far the ship is from its line | `Frame` = reports, motion of the view, the bullet's turn |
| `Auth` | `AuthController`, `TokenService` | `passwordOf` = the `users` table, `tokenTo` = `tokenToUsername` | `Exists`, `Save` = register; `Find` = login; `Issue`, `Revoke`, `Resolve` = `TokenService`; `Restart` = the process |
| `Launch` | the page's script | `pc` = the request the submit handler awaits; `onClick` = handlers on the panel | `Submit`, `LoggedIn`, `Registered`, `Refused`, `Joined`, `Lost`, `FlySolo`, `Ready`, `ClickPanel` |
| `SignIn` | `Launch` and `Auth` together | `call` = the request the page awaits | every step of the page joined with the request it sends or the answer it gets; `Serve` = threads and other clients |
| `Sweep` | `ParticleSystem::update`, `burst` | `live`, `at` = the loop index `i` | `Spawn`, and one action per branch of the loop body |
| `Profiler`, `SlidingWindow` | `Profiler` | `samples_`, `cursor_` | `AddSample`, `Reset`; `Rank`, `Pick` = the percentile lambda of `stats` |
| `Renderer` | the turning of the ship, `Frustum`, the draws of a frame, over `Profiler` | `attitude` = the ship's axes; `frustum`, `counters` as in the code; `stage` = where the frame is | `ApplyInput`, `Respawn`; `BeginFrame` with `Extract`; one action per kind of draw of `Arena::render` |
| `Primitives`, `Mesh` | `primitives::make…`, `Mesh` | vertices and triangles; `vao_`, `vbo_`, `ebo_`, `count_ > 0`, `indexed_` | constructor, `upload`, `uploadPositions`, move assignment and construction, destructor |
| `…Proofs` | theorems about the module of that name; those about `Ship` are in `PilotProofs` | | |
| `EngineProofs` | theorems about `Sweep`, `Profiler`, `Renderer`, `Mesh` and `Primitives` | parts that share no state, each with a specification of its own | |

Abstract specifications. `Seats` says that a pilot is told one arena at a time and an arena to at most
`MaxPerArena` pilots. `Matchmaking` implements it, for tabs with an account each, under the mapping
that takes a pilot's seat to the arena it was answered (`ImplementsSeats`). `SlidingWindow` is a
sequence of the latest samples, with no ring and no cursor; `Profiler` implements it under `Latest`,
the ring read from the cursor on (`SlidesOver`). `Ship` is in the same way the specification that
`Pilot` implements: to it a trigger is any truth value.

How the models meet. `Backend` extends `Matchmaking` and puts it in one state with the rooms of the
relay and the tabs that use both. A step of `joinArena` or `leaveArena` in it *is* that of
`Matchmaking`, and a callback changes the rooms in the same steps as in `Relay`: nothing that
interleaves in the code is merged. What sessions say to one another – `broadcast`, kills, ships – is left
to `Relay`. In `Relay` the action `Leave` marks the call of `leaveArena`; in `Matchmaking` that call
starts with `Leave`, and a close without a name is `Abandon`. `Combat` takes from `Relay` that frames of one sender keep their order and are not
repeated, and that the leave frame comes last; of a farewell it takes that it arrives, since when it does
not is `Relay`'s subject. `Ship` details what `Combat` reduces to `wakes` (the
respawn timer has run out) and `fire` (the gun is ready). `SignIn` is the conjunction of steps of
`Launch` and `Auth`; of the matchmaker it keeps that a join with a live token succeeds. `Flight` is
the bullet of a pilot at a view that `Motion` moves, and `Motion` also gives the reports such views
are made from: `ShipBounded` is what makes `Reports` what a peer can send.

## 3. Runs

Passing runs.

| Run | Instance | Shows |
|---|---|---|
| `mm_rooms` | 4 tabs with accounts of their own, 3 arenas of 2 | `CapacityBound`: no set passes `MAX_PER_ARENA`, though the test and the add are apart. `SeatKept`: a pilot stays in its set until its own leave, even in an arena that was unlisted. `EmptyArenaIsDropped`: none is stranded. `ImplementsSeats`: the refinement |
| `relay_rooms` | 3 sessions, 2 of them tabs of one pilot, in one arena; any number of state frames, 1 kill frame of a callsign without an account and 2 of one with an account | over every interleaving of map operations, sends and queries: `RoomsClean`: a closed session is in no room, and no empty room is stranded. `FarewellHeard`: a client in its room shows no ship of a pilot who has gone, unless a farewell broke off before it came to that client. `KillsCredited`: never more than was reported, none for an unknown callsign, and for an account with one session every one, but the last if recording it failed |
| `backend_trips` | 3 tabs with an account each, 2 arenas of 2, a restart | over every interleaving of the operations of both services: `RoomFits`: a room holds no more sockets than `MAX_PER_ARENA`, which the relay never counts. `CountedTogether`: the matchmaker counts every session in the room of an arena it lists |
| `combat_duel` | 2 clients, 2 shots and 1, one hit kills | `EachShotHitsOnce`, `DamageAccounted`, `DepartedForgotten` through deaths, respawns and disconnections; `ViewsSettle`: views come to agree with the owners' health |
| `pilot_frames` | cooldown 3, delay 4, life 5, frames of 1–2 ticks, up to 2 hits a frame, 3 cursor places | `GunSound`, `RespawnWaits` of the ship; `NoPhantomFire`, `AimIsHand` of the controls; `DeadReturns` of both |
| `signin_page` | the page, another client, 2 requests, callsigns, passwords and tokens, a restart, a database that survives it or does not | `OneGame`, `NoLockOut`, `CallsignSeated` of the page; `FirstComeKeeps`, `RevokedForGood`, `TokensHaveAccounts` of the backend it talks to |
| `flight_swept` | walls at ±9, thrust 1, damping and easing over 3 and 2 ticks, radius 3, bullet speed 4 plus the shooter's | `ShipBounded`: inside the walls and below terminal speed. `ViewHolds`: a view never runs away from its report. `HitIsTouch`: a bullet is consumed in exactly the first frame whose segment touches. `NoTunnelling`: while a ship moves less than the chord that the bullet's line cuts from it, a bullet never comes out behind it; half the chord if the ship was dead when the bullet was last tested |
| `sweep_pool` | up to 3 particles of 4 ids, lives up to 3 | `PoolSound`, `SweepsAll`, and that the loop, which does not always advance its index, ends (`SweepEnds`) |
| `render_frames` | all 24 attitudes, 5 sites ahead, beside, above, behind and far, window of 3 | `CulledIsInvisible`: no point of a culled sphere projects onto the screen. `RollKeepsControls`: in turns about one, two or three axes the nose comes to where the screen before showed what the mouse asked for, whatever was rolled before or in the same frame. `CountersAddUp`: every object is drawn or culled, with culling on or off, and the counters say so until the next frame begins; `SlidesOver`, `PercentilesOrdered` of the frame times |
| `mesh_moves` | 3 objects, 6 names, the shapes with the code's coordinates | `NamesOwned`, `DrawsWhole` |

For every property of a passing run `PROJECT.json` names a mutant: a definition and a wrong version
of it under which TLC finds that property violated.

## 4. Findings

Two runs show a statement of the repository violated by what the code does.

| Run | Statement | What happens |
|---|---|---|
| `mm_deadroom` | `leaveArena`: drop empty arenas "so joinArena doesn't hand out a dead room" | a leave finds the set empty, a join adds its pilot to that set, the leave removes the arena: the pilot is sent to a room that is not listed, is told of 0 players, and will be met by nobody who joins later |
| `relay_ships` | "Tell the survivors to drop the ship, or it hangs in the arena" | two sessions join while the last leaver drops their set from the map; when one of them leaves in turn its farewell finds no set, or a newer one, and the other keeps its ship |

`RoomsClean`, `FarewellHeard` and `EmptyArenaIsDropped` say what does hold beside these:
`FarewellHeard`, for instance, is the farewell property for clients that are in the room the map
lists.

The models, or the reading they took, also show these, for which no run is kept.

*Matchmaking and relay.*
* `joinArena` takes the first arena with a free slot; README and class comment say the emptiest.
* A reservation that never becomes a named session is not given back; if the answer to a join is lost
  and the join is repeated, the first name can stay counted for good.
* Two tabs of one account take one seat, and the first that closes gives it back: a room can then
  hold more sessions than `MAX_PER_ARENA`. `RoomFits` is stated for one tab per account.
* Two sessions of one account that report a kill at once both read the same count and one credit is
  lost: `recordKill` has no transaction. `KillsCredited` is exact for pilots with one session only.
* Kills of a callsign without an account are lost silently, as `main.cpp` says. A query of `recordKill`
  that throws loses its kill too, keeps the frame from being relayed, and has the container close the
  session; the victim's client hears nothing of it.
* A peer that closes between `isOpen` and `sendMessage` makes the latter throw an
  `IllegalStateException`, which `catch (IOException)` does not catch: the rest of the room does not get
  the frame, and its sender is closed. When the frame was a farewell, the survivors it missed keep the ship.
  `FarewellHeard` leaves out just these survivors.
* The farewell of a reloaded page's old socket may come after the new one has shown its ship, which is
  then gone from all views until the next state frame.
* A join whose token was resolved before a logout still takes its seat.
* Of two simultaneous registrations the loser is answered 500, not the 409 of the README's table.

*Client.*
* A shooter also damages its own copy of a peer. A state report sent before the hit arrived revives
  the copy, which can be killed, and the kill reported, a second time for one death.
* The view of a peer that has died and respawned is eased across the arena to the new place, and can
  be hit on the way.
* Only the bullet is swept. At full boost a ship moves by about six units in a frame of 50 ms, three
  times its diameter, and can jump over a bullet it flies towards; `NoTunnelling` has the exact
  condition under which the swept test suffices.
* Terminal speed is about 119 units per second, one less than a bullet's own: a ship that is shot
  after thrusting keeps its undamped speed, and one that flies backward at that speed makes its
  bullet stand still or follow it.
* When the browser ends pointer lock itself, `mouseCaptured` stays true until Escape or the next
  capture.

*Page and drawing.*
* A click on the panel before the runtime is ready uses the one-shot handler up without a launch.
* `frustum.h` calls its plane normals outward-facing; they point inward, as `containsSphere` needs.
* `rollRight` turns about the axis that points backwards and so lifts the right wing.
* `makeSphere` is wound inward, which nothing notices since its bullets are drawn unlit; `makeCube`
  is not used.
* If one of a program's two shaders does not compile, `link` leaks the other; a renderer that fails
  to initialise returns without `glfwTerminate`; native meshes outlive the context; `Arena::init`
  reseeds `rand` with 1337.

## 5. Bounds

| Bound | Where | Why it is enough |
|---|---|---|
| `Arenas` (3) | `Matchmaking` | an id no map, thread or tab refers to is used again; `Enter` waits while none is free, which only happens while abandoned seats hold all of them |
| `MaxPerArena` (2; 8 in the code) | `Matchmaking`, `Backend` | an arena can be empty, have one slot left, and be full with a third tab to turn away; the proofs cover every bound |
| `Arenas` (2), `Rooms` (2), `MaxRestarts` (1) | `Backend` | an arena from before the restart and one from after it; a set object in the map and an orphaned one that a callback still holds. A request waits while no id is free, a connection while no set object is; three set objects make 5.7 million states and show no more |
| `Rooms` (3) | `Relay` | a set object nothing refers to is used again; there are as many as sessions |
| `MaxKills` (1 and 2) | `Relay` | the second kill reads what the first has written; state frames are not bounded. Proved for every bound |
| 3 or 4 sessions, tabs | | two that collide, a third that changes the map between them, and one to be turned away |
| `MaxShots` (2 and 1), `MaxQueue` (1) | `Combat` | one frame under way per pair is enough to be late; two shots of one client can be in flight together, and the second can meet a ship that has respawned |
| `MaxHealth` 1, `Damage` 2 | `Combat` | the hit overshoots zero, which the floor of `takeDamage` is for, and death is one hit, where the interleavings matter |
| ticks; `MaxHealth` 3, `Damage` 2; `MaxHits` (2) | `Ship` | durations are small and do not divide one another; two hits kill and overshoot; the second of a frame may meet a dead ship. The proofs cover all others |
| `Places` (3) | `Controls` | two differences that are not equal, so a jump and a motion cannot be confused |
| 2 requests, `MaxRestarts` (1) | `SignIn` | the page's request and a racing one; a served request's slot is used again, so either side sends any number |
| one axis; `Places`, `Speeds` | `Motion`, `Flight` | a bullet and a ship that moves along its line or beside it span a plane; the offsets 0…R+1 include centre, grazing and miss; reported places are at a wall, near it and inside |
| `Capacity` (3), `Ids` (4) | `Sweep` | three elements give a first, a middle and a last; the fourth id meets a full pool |
| `Window` (3), 2 samples | `Profiler` | partial and full window, wrap-around, reset in between, and ranks that round both ways |
| quarter turns; `MaxObjects` (2) | `Renderer` | every attitude of the group is reached, so a wrong sign or order shows in one of them; two objects beside the own ship |
| 6 names, 3 objects | `Mesh` | two full meshes and a third to move through |

Symmetry is used for identities that no constant distinguishes (tabs with accounts of their own, the
two tabs of one pilot, arenas, rooms, requests, tokens and OpenGL names), and never in a run with a
liveness property.

## 6. Fairness and deadlock

Liveness is checked only under fairness that the runtime gives:

* `Combat!FairSpec`: the browser keeps calling `frame()`, so that a pass that drains a waiting frame,
  one whose timers have run out and one that reports the state come again and again.
* `Pilot!PilotFairSpec`: weak fairness of `Passes`, for the same reason. No callback has to come.
* `FairPoolSpec` of `Sweep`: a loop that runs goes on.

Liveness of `Matchmaking`, `Relay`, `Backend` and `SignIn` is not checked. That the ship of a pilot who
stays is shown again after a stale farewell, and that a severed socket leads to its farewell in the end, needs the
relay's own grain and a restart of the container's callbacks under fairness, with more states than TLC's
liveness check can take; the cut and misdirected farewells of section 4 show that the second does not hold
of every survivor.

`CHECK_DEADLOCK FALSE` stands where the system may stop: sessions are finite (`relay_*`), a tab's
requests and clicks end (`signin_page`), a bullet's flight ends (`flight_swept`), and abandoned seats may
use up the arena ids (`mm_*`, `backend_trips`). All
other runs check for deadlock.

## 7. Proofs

Everything here is proved for every value of the constants that satisfies the module's named
assumptions, which the runs evaluate.

**`MatchmakingProofs`.** Assumed: accounts are finitely many, `MaxPerArena` is positive, each tab has
an account. `CapacityBound` is not inductive, because the size test of `joinArena` and its add are
different steps. The invariant `IInv` adds what holds in between: whoever is inside `joinArena` holds
the monitor (`Exclusion`), the arena a thread works on is one (`WorkKnown`), and the set of the thread
that is about to add still has a slot (`SlotKept`) – leaves only remove, and no other join runs.
`SeatKept` is inductive beside it, since a step of another pilot removes another name, or
remakes a set that no seated pilot has, its id being fresh. `SeatsImplemented` is the refinement: an
answer is a `Sit` because the pilots seated in an arena map one to one to their names, all of which
are members of a set that `CapacityBound` bounds. Also `TypeCorrect`, `EmptyArenasDropped`.

**`RelayProofs`.** Assumed: each session has an arena and a pilot. No lock orders the callbacks, so
the invariant says what a step may still find in a set object it has looked up earlier. `Known` and
`Joined`: a set object serves one arena, and a session is put into one set, once. `CloseInv`: a
session that is in its listed room when it closes removes itself from that very set, and an empty
listed room has a callback that holds *that* set or is about to drop it – without the reference the
statement is not inductive, since a callback may hold an orphaned set of the same arena. `CastInv`: whom
a running broadcast has still to reach, or to write to, is in no other set (`Owed`). `ShowInv`: a client that
shows a ship, and is in its room, has a session of that pilot still to hear of: one that has named itself
and not closed, one whose farewell has still to reach it, or one whose farewell was cut off before it
(`CutInv`: at a peer that had closed). A late frame of one tab that undoes the farewell of the other
is no exception, since the late frame has a session behind it. From these `RoomsAreClean` and
`FarewellsHeard`. `KillsAreCredited` counts the callbacks that are recording a kill of the player
(`Recorders`): the ledger, and any count that one of them has read, plus their number never exceeds what was claimed,
so a stale write never goes too far (`KillInv`); with one session there is one recorder at most, what it
has read is what stands, and only a recording that fails, and closes the session, leaves the ledger
one behind (`SoleInv`).

**`BackendProofs`.** Assumed: `MaxPerArena` is positive. The relay does not count, and a seat is given
back after the session has left its room, so `RoomFits` follows from who *may come* to be in a room:
the tabs that hold its URL, in the room or not (`Holders`). Each arena's holders are either all counted by
the matchmaker (`Counted`), or left over from before a restart, few, and never joined by others, since
no map lists the arena and no running request can still add to it (`Shunned`). That a pilot may be seated in an
arena while it is unlisted breaks neither: its name is in the set it was added to. `HoldersInv` says this of
`Matchmaking` alone, whose steps the trips only restrict (`SeatSteps`), so the theorems of
`MatchmakingProofs` carry over. `TripInv` ties rooms to seats: who is in a listed room holds its URL and has
still to remove itself, from that very set object if it has looked one up. Holders that are counted map one
to one to names, of which there are at most `MaxPerArena`. Theorems `RoomsFit` and `TogetherCounted`.

**`SignInProofs`.** Assumed: `None` is no name, password, token, status or request. `RequestInv` and
`TokenInv` say what a request may be trusted with at each of its stages, and that a token names an
existing account; `CallInv` ties the page's state to the request it awaits: the token of an answered
sign-in is one that stands, or once stood, for the name the handler read, with this pilot's password.
Theorems: all six properties of the run.

**`PilotProofs`** (`Ship` and `Pilot`). Assumed: positive durations, `MaxDt < RespawnDelay` (0.05 s and 3 s in
the code; a longer frame would end the delay in one step), more slots than (life − 1) ÷ cooldown, and
that the cursor has integral places. Spacing needs the age of the youngest bullet when the gun
fires again: `Aged` says that no bullet is younger than the time the gun has been cooling.
`SlotIsFree` counts bullets in bands one cooldown wide, each of which holds at most one.
`RespawnIsWaited` is an action property: the timer and the time since death add up to the delay
(`DeathWaits`). `PilotFliesShip` is the refinement: a pass is a `Frame` of `Ship`, a callback a
stuttering step; `PilotSafe` and `PilotWaits` carry the theorems over to the client. `FireIsMeant`
rests on `Hand`, that `input.fire` implies a trigger held, and `AimIsMeant` on the agreement of
`lastMouseX` with what the hand has moved while the cursor is captured.

**`FlightProofs`.** Assumed: frames no longer than the damping and easing times (1.67 s and 83 ms
against 50 ms), places inside the walls. `SpeedsBounded`: damping takes away at least what thrust adds
at terminal speed, (D + t)(D − t) ≤ D², however frames are cut; rounding either way stays within an
integral bound. `ViewsHold`: easing closes at least as much of a large distance as the fastest ship
opens in the same time. `HitsAreTouches`: `raySphere` solves a quadratic, the property measures the
distance to the nearest point of a segment; `RayIsTouch` shows that the discriminant and the two ends
of the interval say the same, over the integers, in each of the cases centre behind, beside and ahead.
`NothingTunnels`: a bullet that comes out behind a ship without a hit is more than half the chord behind it;
if it was tested in the pass before as well, it was more than half the chord in front of it then
(`MissedAhead`), so the ship's own motion has covered the whole chord (`Crossing`). After a pass in which
the ship was dead, and the bullet not tested, only the second half is certain.

**`CombatProofs`.** `ShotsHitOnce`: only its own client resolves a shot, and holds it once. A frame that
shows a shot comes from its shooter and never to it (`OwnFrames`), so no frame puts a resolved shot
back; what a client still holds, and what it has yet to fire, is unreported (`ShotInv`). The proof also
gives the type invariant of `Combat`. `DepartedAreForgotten`: while a peer that has left is still
shown, its farewell is the last frame of its queue (`FarewellInv`). `DamageIsAccounted`: deaths, lost health and the hit frames still
under way (`Comings`) never exceed the hits reported (`AccountInv`). Every pass of a client comes down to one
form (`Booked`): it puts at most one hit under way, on the victim it counts, and takes at most one
off the head of a queue, which costs its victim one hit of health, or nothing if it is dead or another; that the
queue has one hit less then is a bijection of its places. A victim that is away gets none.

**`EngineProofs`.** Assumed of the renderer: vectors have integral coordinates, turns are quarter turns,
the line of sight has an integral length, and `0 < Near < Far`. Of the other parts, which share no state with it: positive `MaxLife`, `MaxDt` and `Capacity`; `Zero` is no
name; positive sizes, at least 2 rings and 3 sectors. `WholeIsDrawn` has the hypothesis `Reaches`: the bounding
radii (1.8 and 0.3) are not below the ship's nose (1.6) and the sphere's radius (0.28).

* *Pool* (`PoolIsSound`, `SweepIsWhole`). Swap-and-pop is followed slot by slot in `PoolInv`: the slots
  before the cursor are aged, those from it on are not, and an id that is in no slot had no more life
  left than the tick. Without the last part the second theorem would not follow from the first.
* *Meshes* (`NamesAreOwned`, `WholeIsDrawn`). `GpuInv`: handles of different objects are disjoint, the names
  in use are all handles, and an object with a shape has the handles its draw call reads. That the shapes
  are whole is no fact about states: `ClosedIf` counts the edges by a bijection with triangles × sides. Ship and
  cube are finite case splits, the cube with corners at ±`Half` for a symbolic `Half`, its triangles
  spanning tetrahedra of equal, positive volume with the origin. The sphere is proved for every number
  of rings and sectors: indices are first turned into places on the grid, poles and seam included (`SphereIs`),
  then every edge is given the triangle on its other side (`SphereBacked`) and no two are equal.
* *Profiler* (`RingSlides`, `PercentilesAreOrdered`). The ring read from its cursor is a step of the
  window for an append, for an overwrite and for a reset; this needs that a ring that is not yet full has its
  cursor at its end (`RingInv`). That a sorted copy exists at all (`Sorted` is a CHOOSE) is an induction over
  the length by insertion; a value is then at or above as many samples in the copy as in the ring.
* *Renderer* (`CountersAgree`, `RollKeeps`, `CullingIsSafe`). `RenderInv`: the axes of the ship have integral
  coordinates, length one and right angles between them (`Square`), and what has been skipped in this frame is
  outside one of the planes extracted from this frame's camera (`SkippedOutside`). `RollKeeps` needs the right
  angles: only through them is the nose's place along the old axes what the turns put there, and a turn
  keeps them (`SpinKeeps`). Each plane is a sum of two rows of the matrix, and non-negative on every point that the
  projection puts between −w and w; by Cauchy-Schwarz a sphere that `Outside` rejects is outside with all its points.

**Only model-checked.** The liveness properties – `ViewsSettle`, `DeadReturns`,
`SweepEnds` – since fairness and `ENABLED` are out of the prover's reach here. Where a proof
needs induction over the numbers, it argues by the least element of a set of counterexamples (`LeastNat`,
`AllNat`), which needs no operator as a parameter. No module declares a RECURSIVE operator.

## 8. Abstractions

* `UUID.randomUUID().toString().substring(0, 8)` never repeats an id in use; `SecureRandom` never
  repeats a token that has been drawn.
* The container runs the callbacks of one session one after the other, as Spring's standard WebSocket
  container does by default.
* A frame counts as shown when it is sent: a socket delivers in order, and a client that has closed
  shows nothing. Lateness of frames is `Combat`'s subject.
* `Relay` lets a broadcast skip a peer that has left the set since the lookup and be given one that
  has entered it, as weakly consistent iteration allows.
* The Match row is written and never read; only the failure of the write matters.
* `sendMessage` to a socket that has closed either delivers nothing (an `IOException`, caught) or throws an
  unchecked exception; to one that is open it delivers. A callback that ends in an exception has its session
  closed by the container, except `afterConnectionClosed`, whose session is closed already.
* In `Backend` a tab that is shut is used for another visit once the server has forgotten its session, so a
  page that is reloaded while its old socket closes is a second tab; each tab has an account of its own,
  without which `RoomFits` fails (section 4). The page takes no notice of how a join was answered but for the
  arena.
* In `Combat` positions are left out: a bullet may strike any ship that is alive in its shooter's
  view, or none. A pass drains at most one frame and resolves at most one bullet.
* The wire format is one value per frame: the client's `pluck` and the handler's regular expressions
  are taken to read what was written.
* Seconds are ticks, and a comparison of floats is one of integers. Where the code multiplies by a
  fraction (damping, easing, the bounce) the product may be rounded either way.
* `Flight` replaces the square root by the comparison of squares it is equivalent to.
* `Renderer` turns the ship by quarter turns and places the camera so that its line of sight has an
  integral length: every plane is then exact, and only orders and signs are tested. Between frames it forgets
  the frustum, which nothing reads before it is set again, and keeps the counters, which are read.
* Passwords and their hashes are one value: BCrypt is external.

## 9. Not modelled

* **Shaders and start-up** (`include/engine/shaders.h`, `initGraphics`, `Renderer::init`, `shutdown`):
  one sequential pass of calls into GLFW and OpenGL, whose failures end the program, and what the GPU
  makes of the sources.
* **Unused geometry**: `rayAABB`, `sphereSphere` and angular velocity are not called or never set.
* **Leaderboard** (`…/controller/LeaderboardController.java`): one sorted query with a clamped limit.
* **Rows** (`…/entity`, `…/repository`): getters, setters and derived queries; what matters of them
  is in `Auth` and `Relay`. A match's winner and end, and a user's wins, are never written.
* **Wiring** (`ArenaApplication`, `WebSocketConfig`, properties, Docker, nginx): configuration.
* **Native transport**: `NetworkClient::connect` is a stub in the native build.
* **Tests, benchmark and the exported test surface** (`arena_test_*`): they drive the code modelled.

## 10. Plan

1. A liveness model of one room at the relay's grain, small enough to show under which closes a farewell
   reaches everybody and a ship that was taken away wrongly is shown again.
2. The wire format: a field whose name occurs in a value, a callsign with a quote in it.
3. The leaderboard's clamp and start-up, as operators, should they grow.
