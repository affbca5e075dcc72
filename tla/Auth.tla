-------------------------------- MODULE Auth --------------------------------
(***************************************************************************)
(* AuthController and TokenService: accounts, and the bearer tokens that   *)
(* stand for them.                                                         *)
(*                                                                         *)
(* Each request is served by a thread of its own.  The users table is a    *)
(* database with a unique index on username; tokens live in a concurrent   *)
(* map of the one backend process, which may restart at any moment and     *)
(* then drops the requests under way.                                      *)
(***************************************************************************)
EXTENDS Integers, FiniteSets

CONSTANTS
    Requests,    \* HTTP requests
    Names,       \* callsigns
    Passwords,
    Tokens,      \* the values SecureRandom returns, never one twice
    MaxRestarts, \* bound: restarts of the process
    None

Codes == {200, 204, 401, 409, 500}   \* HTTP statuses

\* What the constants must satisfy, for the modules that take an instance.
ConstantsFit ==
    /\ None \notin Names \cup Passwords \cup Tokens \cup Codes
    /\ MaxRestarts \in Nat

VARIABLES
    passwordOf,  \* the users table: the password of each row, or None
    tokenTo,     \* tokenToUsername
    issued,      \* the random values that have been drawn
    revoked,     \* the tokens a logout has been answered for
    pc,          \* where each request stands
    req,         \* its kind, name, password and token
    answer,      \* its HTTP status, or None
    persistent,  \* TRUE with the docker profile's MySQL, FALSE with H2 in memory
    restarts

vars == <<passwordOf, tokenTo, issued, revoked, pc, req, answer, persistent, restarts>>

Kinds == {"register", "login", "logout", "join"}
Bodies == [kind : Kinds, name : Names \cup {None}, password : Passwords \cup {None},
           token : Tokens \cup {None}]
NoBody == [kind |-> "join", name |-> None, password |-> None, token |-> None]

TypeOK ==
    /\ passwordOf \in [Names -> Passwords \cup {None}]
    /\ tokenTo \in [Tokens -> Names \cup {None}]
    /\ issued \in SUBSET Tokens
    /\ revoked \in SUBSET Tokens
    /\ pc \in [Requests -> {"unsent", "exists", "save", "find", "issue",
                            "revoke", "resolve", "done"}]
    /\ req \in [Requests -> Bodies]
    /\ answer \in [Requests -> Codes \cup {None}]
    /\ persistent \in BOOLEAN
    /\ restarts \in 0..MaxRestarts

Init ==
    /\ passwordOf = [n \in Names |-> None]
    /\ tokenTo = [t \in Tokens |-> None]
    /\ issued = {} /\ revoked = {}
    /\ pc = [r \in Requests |-> "unsent"]
    /\ req = [r \in Requests |-> NoBody]
    /\ answer = [r \in Requests |-> None]
    /\ persistent \in BOOLEAN
    /\ restarts = 0

Goto(r, from, to) == pc[r] = from /\ pc' = [pc EXCEPT ![r] = to]
Answer(r, from, code) == Goto(r, from, "done") /\ answer' = [answer EXCEPT ![r] = code]

First == [register |-> "exists", login |-> "find", logout |-> "revoke", join |-> "resolve"]

Post(r, body) ==
    /\ Goto(r, "unsent", First[body.kind])
    /\ req' = [req EXCEPT ![r] = body]
    /\ UNCHANGED <<passwordOf, tokenTo, issued, revoked, answer, persistent, restarts>>

Credentials(kind, n, p) == [kind |-> kind, name |-> n, password |-> p, token |-> None]
Bearing(kind, t) == [kind |-> kind, name |-> None, password |-> None, token |-> t]

\* A client sends what it likes, but knows no token before it is issued.
Send(r) ==
    \/ \E kind \in {"register", "login"}, n \in Names, p \in Passwords :
          Post(r, Credentials(kind, n, p))
    \/ \E kind \in {"logout", "join"}, t \in issued \cup {None} : Post(r, Bearing(kind, t))

\* The thread of a request that has been answered, or dropped by a restart,
\* serves another.
Recycle(r) ==
    /\ Goto(r, "done", "unsent")
    /\ req' = [req EXCEPT ![r] = NoBody]
    /\ answer' = [answer EXCEPT ![r] = None]
    /\ UNCHANGED <<passwordOf, tokenTo, issued, revoked, persistent, restarts>>

-----------------------------------------------------------------------------
(* register *)

Exists(r) ==
    /\ pc[r] = "exists"
    /\ IF passwordOf[req[r].name] # None
         THEN Answer(r, "exists", 409)
         ELSE Goto(r, "exists", "save") /\ UNCHANGED answer
    /\ UNCHANGED <<passwordOf, tokenTo, issued, revoked, req, persistent, restarts>>

Save_Upserts(r) ==
    /\ Goto(r, "save", "issue")
    /\ passwordOf' = [passwordOf EXCEPT ![req[r].name] = req[r].password]
    /\ UNCHANGED <<tokenTo, issued, revoked, req, answer, persistent, restarts>>
\* The unique index refuses a second row: the exception is answered 500.
Save(r) ==
    /\ pc[r] = "save"
    /\ \/ /\ passwordOf[req[r].name] = None
          /\ Goto(r, "save", "issue")
          /\ passwordOf' = [passwordOf EXCEPT ![req[r].name] = req[r].password]
          /\ UNCHANGED answer
       \/ /\ passwordOf[req[r].name] # None
          /\ Answer(r, "save", 500)
          /\ UNCHANGED passwordOf
    /\ UNCHANGED <<tokenTo, issued, revoked, req, persistent, restarts>>

-----------------------------------------------------------------------------
(* login *)

Find(r) ==
    /\ pc[r] = "find"
    /\ IF passwordOf[req[r].name] = req[r].password
         THEN Goto(r, "find", "issue") /\ UNCHANGED answer
         ELSE Answer(r, "find", 401)
    /\ UNCHANGED <<passwordOf, tokenTo, issued, revoked, req, persistent, restarts>>

-----------------------------------------------------------------------------
(* TokenService *)

Issue_Reuses(r) ==
    /\ Answer(r, "issue", 200)
    /\ \E t \in Tokens :
          /\ tokenTo[t] = None
          /\ tokenTo' = [tokenTo EXCEPT ![t] = req[r].name]
          /\ issued' = issued \cup {t}
          /\ req' = [req EXCEPT ![r].token = t]
    /\ UNCHANGED <<passwordOf, revoked, persistent, restarts>>
\* The answer carries the token.
Issue(r) ==
    /\ Answer(r, "issue", 200)
    /\ \E t \in Tokens \ issued :
          /\ tokenTo' = [tokenTo EXCEPT ![t] = req[r].name]
          /\ issued' = issued \cup {t}
          /\ req' = [req EXCEPT ![r].token = t]
    /\ UNCHANGED <<passwordOf, revoked, persistent, restarts>>

Revoke(r) ==
    /\ Answer(r, "revoke", 204)
    /\ IF req[r].token = None
         THEN UNCHANGED <<tokenTo, revoked>>
         ELSE /\ tokenTo' = [tokenTo EXCEPT ![req[r].token] = None]
              /\ revoked' = revoked \cup {req[r].token}
    /\ UNCHANGED <<passwordOf, issued, req, persistent, restarts>>

\* join goes on to the matchmaker with the name it finds.
Resolve(r) ==
    /\ LET name == IF req[r].token = None THEN None ELSE tokenTo[req[r].token]
       IN  /\ Answer(r, "resolve", IF name = None THEN 401 ELSE 200)
           /\ req' = [req EXCEPT ![r].name = name]
    /\ UNCHANGED <<passwordOf, tokenTo, issued, revoked, persistent, restarts>>

-----------------------------------------------------------------------------
Restart_KeepsTokens ==
    /\ restarts < MaxRestarts
    /\ restarts' = restarts + 1
    /\ passwordOf' = IF persistent THEN passwordOf ELSE [n \in Names |-> None]
    /\ pc' = [r \in Requests |-> IF pc[r] = "unsent" THEN "unsent" ELSE "done"]
    /\ UNCHANGED <<tokenTo, issued, revoked, req, answer, persistent>>
Restart ==
    /\ restarts < MaxRestarts
    /\ restarts' = restarts + 1
    /\ tokenTo' = [t \in Tokens |-> None]
    /\ passwordOf' = IF persistent THEN passwordOf ELSE [n \in Names |-> None]
    /\ pc' = [r \in Requests |-> IF pc[r] = "unsent" THEN "unsent" ELSE "done"]
    /\ UNCHANGED <<issued, revoked, req, answer, persistent>>

Handle(r) ==
    Exists(r) \/ Save(r) \/ Find(r) \/ Issue(r) \/ Revoke(r) \/ Resolve(r)

Next == Restart \/ \E r \in Requests : Send(r) \/ Recycle(r) \/ Handle(r)

Spec == Init /\ [][Next]_vars

-----------------------------------------------------------------------------
(* Properties *)

\* Two registrations that race for a callsign never both succeed, nor does
\* the loser change the winner's password: a row is written once and keeps
\* its password until the database itself is lost.
FirstComeKeeps ==
    [][\A n \in Names : passwordOf[n] # None =>
          \/ passwordOf'[n] = passwordOf[n]
          \/ ~persistent /\ restarts' > restarts]_vars

\* A token always stands for an account that exists: none outlives the row
\* it was issued for, across restarts and lost databases.
TokensHaveAccounts ==
    \A t \in Tokens : tokenTo[t] # None => passwordOf[tokenTo[t]] # None

\* Logout is revocation: once it is answered the token never stands for
\* anybody again.
RevokedForGood == \A t \in revoked : tokenTo[t] = None
=============================================================================
