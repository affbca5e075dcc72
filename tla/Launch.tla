-------------------------------- MODULE Launch --------------------------------
(***************************************************************************)
(* The page that carries the game (shell.html): sign-in, matchmaking and   *)
(* the start of the engine.                                                *)
(*                                                                         *)
(* The submit handler awaits three requests one after another; between     *)
(* them the pilot may edit the form or fly solo, and the engine may get    *)
(* ready.  A request or its answer may be lost.  Here every answer is      *)
(* possible: SignIn says which ones the backend gives.                     *)
(***************************************************************************)
EXTENDS Integers, Sequences

CONSTANTS
    Names,  \* callsigns
    Solo    \* the empty callsign of a solo flight

ASSUME ConstantsAssumption == Solo \notin Names

VARIABLES
    field,     \* what the callsign field holds now
    username,  \* what the running handler read from it
    pc,        \* the request the handler awaits, or "idle"
    disabled,  \* playBtn.disabled
    started,
    panel,     \* the overlay that is shown: the form, the launch panel, or none
    onClick,   \* the launches whose click handlers the panel holds
    ready,     \* whether the engine's runtime is initialised
    mains      \* the callsigns main has been called with

pageVars == <<started, panel, onClick>>
formVars == <<field, username, pc, disabled, pageVars, ready, mains>>

TypeOK ==
    /\ {field, username} \subseteq Names
    /\ pc \in {"idle", "login", "register", "join"}
    /\ {disabled, started, ready} \subseteq BOOLEAN
    /\ panel \in {"login", "launch", "none"}
    /\ onClick \in Seq(Names \cup {Solo})
    /\ mains \in Seq(Names \cup {Solo})

Init ==
    /\ field \in Names
    /\ username = field
    /\ pc = "idle"
    /\ disabled = FALSE /\ started = FALSE /\ ready = FALSE
    /\ panel = "login"
    /\ onClick = <<>> /\ mains = <<>>

Goto(from, to) == pc = from /\ pc' = to

Launch_Unguarded(callsign) ==
    /\ started' = TRUE
    /\ panel' = "launch"
    /\ onClick' = Append(onClick, callsign)
\* launch: the first call wins.
Launch(callsign) ==
    IF started THEN UNCHANGED pageVars
    ELSE /\ started' = TRUE
         /\ panel' = "launch"
         /\ onClick' = Append(onClick, callsign)

Edit ==
    /\ panel = "login"
    /\ field' \in Names \ {field}
    /\ UNCHANGED <<username, pc, disabled, pageVars, ready, mains>>

Submit ==
    /\ panel = "login" /\ ~disabled
    /\ Goto("idle", "login")
    /\ disabled' = TRUE
    /\ username' = field
    /\ UNCHANGED <<field, pageVars, ready, mains>>

\* post: the request is lost, or its answer is; fetch rejects either way.
Lost_StaysDisabled ==
    /\ pc # "idle" /\ pc' = "idle"
    /\ UNCHANGED <<field, username, disabled, pageVars, ready, mains>>
Lost ==
    /\ pc # "idle" /\ pc' = "idle"
    /\ disabled' = FALSE
    /\ UNCHANGED <<field, username, pageVars, ready, mains>>

\* A refusal, or any other status that is not ok, leads to register.
LoggedIn(ok) ==
    /\ Goto("login", IF ok THEN "join" ELSE "register")
    /\ UNCHANGED <<field, username, disabled, pageVars, ready, mains>>

Registered ==
    /\ Goto("register", "join")
    /\ UNCHANGED <<field, username, disabled, pageVars, ready, mains>>

\* register or join answers with an error status.
Refused ==
    /\ pc \in {"register", "join"} /\ pc' = "idle"
    /\ disabled' = FALSE
    /\ UNCHANGED <<field, username, pageVars, ready, mains>>

Joined_FieldNow ==
    /\ Goto("join", "idle")
    /\ Launch(field)
    /\ UNCHANGED <<field, username, disabled, ready, mains>>
Joined ==
    /\ Goto("join", "idle")
    /\ Launch(username)
    /\ UNCHANGED <<field, username, disabled, ready, mains>>

\* The solo button works while the handler awaits an answer, too.
FlySolo ==
    /\ panel = "login"
    /\ Launch(Solo)
    /\ UNCHANGED <<field, username, pc, disabled, ready, mains>>

Ready ==
    /\ ~ready /\ ready' = TRUE
    /\ UNCHANGED <<field, username, pc, disabled, pageVars, mains>>

\* The handlers run once.  callMain throws before the runtime is ready.
ClickPanel ==
    /\ panel = "launch" /\ panel' = "none"
    /\ onClick' = <<>>
    /\ mains' = IF ready THEN mains \o onClick ELSE mains
    /\ UNCHANGED <<field, username, pc, disabled, started, ready>>

\* What the page does without the backend.
Page == Edit \/ FlySolo \/ Ready \/ ClickPanel

Next ==
    \/ Page \/ Submit \/ Lost \/ Registered \/ Refused \/ Joined
    \/ \E ok \in BOOLEAN : LoggedIn(ok)

Spec == Init /\ [][Next]_formVars

-----------------------------------------------------------------------------
(* Properties *)

\* main is called at most once, however the solo button, a handler that is
\* still awaiting its answers and the clicks on the panel fall.
OneGame == Len(mains) + Len(onClick) <= 1

\* The form never locks the pilot out: unless a request is under way or a
\* game has been launched, the button can be pressed.
NoLockOut == disabled => pc # "idle" \/ started
=============================================================================
