------------------------------- MODULE SignIn --------------------------------
(***************************************************************************)
(* The page of Launch and the backend of Auth together: the three requests *)
(* of the submit handler are served like any other, while other clients    *)
(* send what they like, and answers get lost.                              *)
(*                                                                         *)
(* A request whose answer is lost may still be served.  The page does not  *)
(* time out: it gives up when fetch rejects, which it may do at any time.  *)
(***************************************************************************)
EXTENDS Launch, FiniteSets

CONSTANTS
    Requests, Passwords, Tokens, MaxRestarts, None,   \* as in Auth
    Mine                                              \* what this pilot types

VARIABLES
    passwordOf, tokenTo, issued, revoked, stage, req, answer, persistent, restarts,
    call,    \* the request the page awaits, or None
    seated   \* history: the accounts the page's joins were let in with

Backend == INSTANCE Auth WITH pc <- stage

ASSUME SignInAssumption == Backend!ConstantsFit /\ Mine \in Passwords /\ None \notin Requests

backendVars ==
    <<passwordOf, tokenTo, issued, revoked, stage, req, answer, persistent, restarts>>
vars == <<formVars, backendVars, call, seated>>

SignInInit == Init /\ Backend!Init /\ call = None /\ seated = {}

SignInTypeOK == TypeOK /\ Backend!TypeOK /\ call \in Requests \cup {None} /\ seated \subseteq Names

-----------------------------------------------------------------------------
(* post, and what the page makes of its answers *)

Ask(body) == \E r \in Requests \ {call} : Backend!Post(r, body) /\ call' = r
AskLogin == Ask(Backend!Credentials("login", field, Mine))
AskRegister == Ask(Backend!Credentials("register", username, Mine))
AskJoin == Ask(Backend!Bearing("join", req[call].token))

Answered(codes) == call # None /\ answer[call] \in codes

SubmitForm == Submit /\ AskLogin /\ UNCHANGED seated

LoginOk == Answered({200}) /\ LoggedIn(TRUE) /\ AskJoin /\ UNCHANGED seated
LoginRefused == Answered({401}) /\ LoggedIn(FALSE) /\ AskRegister /\ UNCHANGED seated
RegisterOk == Answered({200}) /\ Registered /\ AskJoin /\ UNCHANGED seated

JoinOk ==
    /\ Answered({200}) /\ Joined
    /\ seated' = seated \cup {req[call].name}
    /\ call' = None
    /\ UNCHANGED backendVars

GiveBack ==
    /\ Answered({401, 409, 500}) /\ Refused
    /\ call' = None
    /\ UNCHANGED <<backendVars, seated>>

\* The request has not arrived, or it is served all the same.
FetchRejects ==
    /\ Lost
    /\ \/ UNCHANGED stage
       \/ stage[call] \in {"find", "exists", "resolve"} /\ stage' = [stage EXCEPT ![call] = "done"]
    /\ call' = None
    /\ UNCHANGED <<passwordOf, tokenTo, issued, revoked, req, answer, persistent, restarts, seated>>

-----------------------------------------------------------------------------
\* The form and the panel are used while the backend works.
Visit == Page /\ UNCHANGED <<backendVars, call, seated>>

Serve ==
    /\ \/ Backend!Restart
       \/ \E r \in Requests : Backend!Handle(r)
       \/ \E r \in Requests \ {call} : Backend!Send(r) \/ Backend!Recycle(r)
    /\ UNCHANGED <<formVars, call, seated>>

SignInNext ==
    \/ Visit \/ Serve
    \/ SubmitForm \/ LoginOk \/ LoginRefused \/ RegisterOk \/ JoinOk \/ GiveBack \/ FetchRejects

SignInSpec == SignInInit /\ [][SignInNext]_vars

-----------------------------------------------------------------------------
(* Properties *)

\* main.cpp: argv[2] must match the account name.  A game that is not solo
\* flies under the callsign its seat was reserved for, even when the form was
\* edited meanwhile; and that account is this pilot's, whoever else tried to
\* register it, for as long as the database lives.
CallsignSeated ==
    /\ SignInTypeOK
    /\ \A i \in DOMAIN mains :
          \/ mains[i] = Solo
          \/ mains[i] \in seated /\ (persistent => passwordOf[mains[i]] = Mine)

\* Of Auth, with the page among its clients.
RevokedForGood == Backend!RevokedForGood
TokensHaveAccounts == Backend!TokensHaveAccounts
FirstComeKeeps == Backend!FirstComeKeeps
=============================================================================
