-------------------------------- MODULE Pilot --------------------------------
(***************************************************************************)
(* One client's pass of frame() with the callbacks between passes: the     *)
(* controls (Controls) steer and fire the ship (Ship).                     *)
(*                                                                         *)
(* A pass pumps the mouse, fires if input.fire is set and the gun is       *)
(* ready, applies the hits that have arrived and runs Arena::update.       *)
(* Callbacks run between passes, in any order and number.                  *)
(***************************************************************************)
EXTENDS Ship

CONSTANTS Places, Origin   \* as in Controls

ASSUME PlacesAssumption == {0, Origin} \subseteq Places /\ Places \subseteq Int

VARIABLES held, fire, mouseCaptured, firstMouse, x, lastMouseX, mouseDX, led, steered

Input == INSTANCE Controls

pilotVars == <<vars, Input!vars>>

PilotTypeOK == TypeOK /\ Input!TypeOK

PilotInit == Init /\ Input!Init

Callback == Input!Callback /\ UNCHANGED vars

Pass(dt, hits) ==
    /\ Input!PumpMouse
    /\ Frame(dt, fire, hits)

Passes == \E dt \in 1..MaxDt, hits \in 0..MaxHits : Pass(dt, hits)

PilotNext == Callback \/ Passes

PilotSpec == PilotInit /\ [][PilotNext]_pilotVars

\* The browser, or the native loop, keeps calling frame().
PilotFairSpec == PilotSpec /\ WF_pilotVars(Passes)

-----------------------------------------------------------------------------
(* Properties *)

\* The gun keeps its cooldown and finds a slot for every bullet, whatever the
\* controls do to the trigger.
GunSound == PilotTypeOK /\ BulletsSpaced /\ SlotFree

\* The ship never fires by itself, nor when it is dead: the gun is set to
\* cool down only while a trigger is held, whatever order presses, releases
\* and Escape came in before.
NoPhantomFire == [][fireTimer' > fireTimer => held # {} /\ alive]_pilotVars

\* A frame turns the ship by what the hand moved since the last frame if the
\* cursor has been captured all that time, and not at all otherwise: neither
\* a jump of the cursor nor motion made while it was free turns the ship.
AimIsHand == [][mouseDX' # mouseDX => mouseDX' = steered]_pilotVars

\* A dead ship always flies again, whatever the pilot does meanwhile.
DeadReturns == ~alive ~> alive
=============================================================================
