------------------------------- MODULE Controls -------------------------------
(***************************************************************************)
(* The input callbacks of main.cpp and pumpMouse: the trigger, the capture *)
(* of the cursor, and the turn a frame hands to the ship.                  *)
(*                                                                         *)
(* Callbacks run between frames.  Only the key and the button that fire    *)
(* and the Escape key are kept: the other keys are flags that each follow  *)
(* one key.  The cursor's place is one coordinate.  When the capture       *)
(* changes, the window system may put the cursor elsewhere.                *)
(***************************************************************************)
EXTENDS Integers

CONSTANTS
    Places,  \* where the cursor can be
    Origin   \* where it is at the start

VARIABLES
    held,           \* which of the two triggers are held down
    fire,           \* input.fire
    mouseCaptured,
    firstMouse,
    x,              \* the cursor
    lastMouseX,
    mouseDX,        \* input.mouseDX, set by the latest pumpMouse
    led,            \* whether the cursor has been captured since the latest pumpMouse
    steered         \* motion by hand since then, as long as it has

vars == <<held, fire, mouseCaptured, firstMouse, x, lastMouseX, mouseDX, led, steered>>
triggerVars == <<held, fire>>
aimVars == <<mouseCaptured, firstMouse, x, lastMouseX, mouseDX, led, steered>>

Triggers == {"button", "key"}

TypeOK ==
    /\ held \in SUBSET Triggers
    /\ {fire, mouseCaptured, firstMouse, led} \subseteq BOOLEAN
    /\ {x, lastMouseX} \subseteq Places
    /\ {mouseDX, steered} \subseteq Int

Init ==
    /\ held = {}
    /\ fire = FALSE
    /\ mouseCaptured = FALSE /\ firstMouse = TRUE
    /\ x = Origin /\ lastMouseX = 0
    /\ mouseDX = 0
    /\ led = FALSE /\ steered = 0

SetMouseCapture_KeepsLast(on) ==
    /\ mouseCaptured' = on
    /\ x' \in Places
    /\ led' = FALSE /\ steered' = 0
    /\ UNCHANGED <<firstMouse, lastMouseX, mouseDX>>
SetMouseCapture(on) ==
    /\ mouseCaptured' = on
    /\ firstMouse' = TRUE
    /\ x' \in Places
    /\ led' = FALSE /\ steered' = 0
    /\ UNCHANGED <<lastMouseX, mouseDX>>

\* The first click arms the controls, the others fire.
PressButton ==
    /\ "button" \notin held
    /\ held' = held \cup {"button"}
    /\ IF mouseCaptured
         THEN fire' = TRUE /\ UNCHANGED aimVars
         ELSE SetMouseCapture(TRUE) /\ UNCHANGED fire

ReleaseButton_WhenCaptured ==
    /\ "button" \in held
    /\ held' = held \ {"button"}
    /\ fire' = IF mouseCaptured THEN FALSE ELSE fire
    /\ UNCHANGED aimVars
ReleaseButton ==
    /\ "button" \in held
    /\ held' = held \ {"button"}
    /\ fire' = FALSE
    /\ UNCHANGED aimVars

\* A key that is held repeats, and a repeat counts as a press.
PressKey ==
    /\ held' = held \cup {"key"}
    /\ fire' = TRUE
    /\ UNCHANGED aimVars

ReleaseKey ==
    /\ "key" \in held
    /\ held' = held \ {"key"}
    /\ fire' = FALSE
    /\ UNCHANGED aimVars

Escape == SetMouseCapture(FALSE) /\ UNCHANGED triggerVars

MoveMouse ==
    /\ x' \in Places
    /\ steered' = IF led THEN steered + (x' - x) ELSE 0
    /\ UNCHANGED <<triggerVars, mouseCaptured, firstMouse, lastMouseX, mouseDX, led>>

PumpMouse ==
    /\ LET last == IF firstMouse THEN x ELSE lastMouseX
       IN  mouseDX' = IF mouseCaptured THEN x - last ELSE 0
    /\ firstMouse' = FALSE
    /\ lastMouseX' = x
    /\ led' = mouseCaptured /\ steered' = 0
    /\ UNCHANGED <<triggerVars, mouseCaptured, x>>

Callback ==
    PressButton \/ ReleaseButton \/ PressKey \/ ReleaseKey \/ Escape \/ MoveMouse

Next == Callback \/ PumpMouse

Spec == Init /\ [][Next]_vars
=============================================================================
