----------------------------- MODULE SignInProofs -----------------------------
(***************************************************************************)
(* Proofs about the page and the accounts together, for any number of      *)
(* requests, callsigns, passwords, tokens and restarts.                    *)
(*                                                                         *)
(* OneGame and NoLockOut follow from the page alone, the properties of     *)
(* accounts and tokens from the backend alone.  CallsignSeated needs both: *)
(* CallInv says what the request that the page awaits stands for.          *)
(***************************************************************************)
EXTENDS SignIn, TLAPS

-----------------------------------------------------------------------------
(* The backend *)

\* What is true of each request while it is served: a body that names an
\* account until the answer, the right password once it is let in, and no
\* token that has not been issued.
RequestInv ==
    \A r \in Requests :
        /\ stage[r] # "done" => answer[r] = None
        /\ req[r].token \in issued \cup {None}
        /\ stage[r] \in {"exists", "save", "find", "issue"} =>
              req[r].name \in Names /\ req[r].password \in Passwords
        /\ stage[r] = "issue" => passwordOf[req[r].name] = req[r].password

TokenInv ==
    /\ \A t \in Tokens : tokenTo[t] # None => t \in issued /\ passwordOf[tokenTo[t]] # None
    /\ \A t \in revoked : t \in issued /\ tokenTo[t] = None

AuthInv == Backend!TypeOK /\ RequestInv /\ TokenInv

\* A body that a client can send.
Fit(body) ==
    /\ body \in Backend!Bodies
    /\ body.token \in issued \cup {None}
    /\ body.kind \in {"register", "login"} => body.name \in Names /\ body.password \in Passwords

LEMMA BodiesFit ==
  ASSUME AuthInv
  PROVE  /\ \A kind \in {"register", "login"}, n \in Names, p \in Passwords :
               Fit(Backend!Credentials(kind, n, p))
         /\ \A kind \in {"logout", "join"}, t \in issued \cup {None} : Fit(Backend!Bearing(kind, t))
  BY DEF AuthInv, Backend!TypeOK, Fit, Backend!Bodies, Backend!Kinds, Backend!Credentials, Backend!Bearing

LEMMA PostKeeps ==
  ASSUME AuthInv, NEW r \in Requests, NEW body, Fit(body), Backend!Post(r, body)
  PROVE  AuthInv'
  BY DEF AuthInv, Backend!TypeOK, RequestInv, TokenInv, Fit, Backend!Post, Backend!Goto, Backend!First,
         Backend!Bodies, Backend!Kinds

LEMMA RecycleKeeps ==
  ASSUME AuthInv, NEW r \in Requests, Backend!Recycle(r)
  PROVE  AuthInv'
  BY DEF AuthInv, Backend!TypeOK, RequestInv, TokenInv, Backend!Recycle, Backend!Goto, Backend!NoBody,
         Backend!Bodies, Backend!Kinds

LEMMA RestartKeeps ==
  ASSUME AuthInv, Backend!Restart
  PROVE  AuthInv'
  BY SignInAssumption DEF AuthInv, Backend!TypeOK, RequestInv, TokenInv, Backend!Restart, Backend!ConstantsFit

LEMMA HandleKeeps ==
  ASSUME AuthInv, NEW r \in Requests, Backend!Handle(r)
  PROVE  AuthInv'
<1> USE SignInAssumption DEF AuthInv, Backend!TypeOK, RequestInv, TokenInv, Backend!ConstantsFit, Backend!Codes,
        Backend!Goto, Backend!Answer, Backend!Bodies, Backend!Kinds
<1>1. CASE Backend!Exists(r)
  BY <1>1 DEF Backend!Exists
<1>2. CASE Backend!Save(r)
  BY <1>2 DEF Backend!Save
<1>3. CASE Backend!Find(r)
  BY <1>3 DEF Backend!Find
<1>4. CASE Backend!Issue(r)
  BY <1>4 DEF Backend!Issue
<1>5. CASE Backend!Revoke(r)
  BY <1>5 DEF Backend!Revoke
<1>6. CASE Backend!Resolve(r)
  BY <1>6 DEF Backend!Resolve
<1> QED
  BY <1>1, <1>2, <1>3, <1>4, <1>5, <1>6 DEF Backend!Handle

-----------------------------------------------------------------------------
(* The page *)

LEMMA LaunchTyped ==
  ASSUME TypeOK, NEW c \in Names \cup {Solo}, Launch(c)
  PROVE  started' = TRUE /\ panel' \in {"login", "launch", "none"} /\ onClick' \in Seq(Names \cup {Solo})
<1>1. CASE started
  <2>1. started = TRUE
    BY <1>1, Zenon DEF TypeOK
  <2> QED
    BY <1>1, <2>1, Zenon DEF TypeOK, Launch, pageVars
<1>2. CASE ~started
  <2>1. onClick \in Seq(Names \cup {Solo})
    BY DEF TypeOK
  <2>2. Append(onClick, c) \in Seq(Names \cup {Solo})
    BY <2>1
  <2> QED
    BY <1>2, <2>2, Zenon DEF Launch
<1> QED
  BY <1>1, <1>2

LEMMA PageTyped == ASSUME TypeOK, Next PROVE TypeOK'
<1>1. CASE Edit
  BY <1>1, Zenon DEF TypeOK, Edit, pageVars
<1>2. CASE FlySolo
  <2>1. started' = TRUE /\ panel' \in {"login", "launch", "none"} /\ onClick' \in Seq(Names \cup {Solo})
    BY <1>2, LaunchTyped DEF FlySolo
  <2> QED
    BY <1>2, <2>1, Zenon DEF TypeOK, FlySolo
<1>3. CASE Ready
  BY <1>3, Zenon DEF TypeOK, Ready, pageVars
<1>4. CASE ClickPanel
  <2>1. onClick \in Seq(Names \cup {Solo}) /\ mains \in Seq(Names \cup {Solo})
    BY DEF TypeOK
  <2>2. mains \o onClick \in Seq(Names \cup {Solo}) /\ <<>> \in Seq(Names \cup {Solo})
    BY <2>1
  <2>3. mains' \in Seq(Names \cup {Solo})
    BY <1>4, <2>1, <2>2, Zenon DEF ClickPanel
  <2> QED
    BY <1>4, <2>2, <2>3, Zenon DEF TypeOK, ClickPanel
<1>5. CASE Submit
  BY <1>5, Zenon DEF TypeOK, Submit, Goto, pageVars
<1>6. CASE Lost
  BY <1>6, Zenon DEF TypeOK, Lost, pageVars
<1>7. CASE Registered
  BY <1>7, Zenon DEF TypeOK, Registered, Goto, pageVars
<1>8. CASE Refused
  BY <1>8, Zenon DEF TypeOK, Refused, pageVars
<1>9. CASE Joined
  <2>1. started' = TRUE /\ panel' \in {"login", "launch", "none"} /\ onClick' \in Seq(Names \cup {Solo})
    <3>1. username \in Names \cup {Solo}
      BY Zenon DEF TypeOK
    <3> QED
      BY <1>9, <3>1, LaunchTyped DEF Joined
  <2> QED
    BY <1>9, <2>1, Zenon DEF TypeOK, Joined, Goto
<1>10. ASSUME NEW ok \in BOOLEAN, LoggedIn(ok) PROVE TypeOK'
  BY <1>10, Zenon DEF TypeOK, LoggedIn, Goto, pageVars
<1> QED
  BY <1>1, <1>2, <1>3, <1>4, <1>5, <1>6, <1>7, <1>8, <1>9, <1>10, Zenon DEF Next, Page

\* Handlers are put on the panel by one launch alone, and run at most once.
OnceInv == OneGame /\ (~started => Len(mains) + Len(onClick) = 0)

LEMMA PageOnce == ASSUME TypeOK, OnceInv, [Next]_formVars PROVE OnceInv'
<1>1. Len(mains) \in Nat /\ Len(onClick) \in Nat /\ onClick \in Seq(Names \cup {Solo}) /\ mains \in Seq(Names \cup {Solo})
  BY DEF TypeOK
<1>2. ASSUME NEW c, Launch(c), UNCHANGED mains PROVE OnceInv'
  <2>1. CASE started
    BY <1>2, <2>1, Zenon DEF OnceInv, OneGame, Launch, pageVars
  <2>2. CASE ~started
    <3>1. Len(Append(onClick, c)) = Len(onClick) + 1
      BY <1>1
    <3>2. Len(mains) + Len(onClick) = 0
      BY <2>2, Zenon DEF OnceInv
    <3>3. Len(mains') + Len(onClick') <= 1
      BY <1>1, <1>2, <2>2, <3>1, <3>2 DEF Launch
    <3>4. started' = TRUE
      BY <1>2, <2>2, Zenon DEF Launch
    <3> QED
      BY <3>3, <3>4, Zenon DEF OnceInv, OneGame
  <2> QED
    BY <2>1, <2>2
<1>3. CASE ClickPanel
  <2>1. Len(mains \o onClick) = Len(mains) + Len(onClick) /\ Len(<<>>) = 0
    BY <1>1
  <2>2. onClick' = <<>> /\ mains' \in {mains, mains \o onClick} /\ UNCHANGED started
    BY <1>3, Zenon DEF ClickPanel
  <2>3. Len(mains') + Len(onClick') <= Len(mains) + Len(onClick) /\ Len(mains') + Len(onClick') \in Nat
    BY <1>1, <2>1, <2>2
  <2>4. OneGame'
    BY <1>1, <2>3 DEF OneGame, OnceInv
  <2>5. ASSUME ~started PROVE Len(mains') + Len(onClick') = 0
    <3>1. Len(mains) + Len(onClick) = 0
      BY <2>5, Zenon DEF OnceInv
    <3> QED
      BY <2>3, <3>1
  <2> QED
    BY <2>2, <2>4, <2>5, Zenon DEF OnceInv
<1>4. CASE UNCHANGED <<pageVars, mains>>
  BY <1>4, Zenon DEF OnceInv, OneGame, pageVars
<1> QED
  BY <1>2, <1>3, <1>4, Zenon DEF Next, Page, formVars, Edit, FlySolo, Ready, Submit, Lost, Registered,
     Refused, Joined, LoggedIn

LEMMA PageUnlocks == ASSUME TypeOK, NoLockOut, [Next]_formVars PROVE NoLockOut'
<1>1. CASE FlySolo \/ Joined
  <2>1. started' = TRUE
    <3>1. username \in Names \cup {Solo}
      BY Zenon DEF TypeOK
    <3> QED
      BY <1>1, <3>1, LaunchTyped DEF FlySolo, Joined
  <2> QED
    BY <2>1, Zenon DEF NoLockOut
<1>2. CASE ~(FlySolo \/ Joined)
  BY <1>2, Zenon DEF NoLockOut, Next, Page, formVars, pageVars, Goto, Edit, Ready, ClickPanel, Submit,
     Lost, Registered, Refused, LoggedIn
<1> QED
  BY <1>1, <1>2

-----------------------------------------------------------------------------
(* The two together *)

\* The callsign is this pilot's, for as long as the database lives.
Own(n) == persistent => passwordOf[n] = Mine

\* A token that the page has been handed: nobody else can make it stand for
\* another account.
Granted(t) == t \in issued /\ tokenTo[t] \in {username, None} /\ Own(username)

\* What the request that the page awaits stands for.
CallInv ==
    /\ pc = "idle" <=> call = None
    /\ pc \in {"login", "register"} =>
          /\ req[call].name = username /\ req[call].password = Mine
          /\ stage[call] \in {"find", "exists", "save", "issue", "done"}
          /\ answer[call] = 200 => Granted(req[call].token)
    /\ pc = "join" =>
          /\ stage[call] \in {"resolve", "done"}
          /\ Granted(req[call].token)
          /\ answer[call] = 200 => req[call].name = username

\* A launch is solo, or under a callsign that was let in.
Fair(c) == c = Solo \/ (c \in seated /\ Own(c))

SeatInv ==
    /\ \A j \in DOMAIN onClick : Fair(onClick[j])
    /\ \A j \in DOMAIN mains : Fair(mains[j])

IInv == SignInTypeOK /\ AuthInv /\ OnceInv /\ NoLockOut /\ CallInv /\ SeatInv

LEMMA PageMoves == ASSUME [SignInNext]_vars PROVE [Next]_formVars
<1>1. CASE Visit
  BY <1>1, Zenon DEF Visit, Next
<1>2. CASE Serve \/ UNCHANGED vars
  BY <1>2, Zenon DEF Serve, vars
<1>3. CASE SubmitForm \/ LoginOk \/ LoginRefused \/ RegisterOk \/ JoinOk \/ GiveBack \/ FetchRejects
  BY <1>3, Zenon DEF SubmitForm, LoginOk, LoginRefused, RegisterOk, JoinOk, GiveBack, FetchRejects, Next
<1> QED
  BY <1>1, <1>2, <1>3, Zenon DEF SignInNext

LEMMA CallKnown == ASSUME IInv, pc # "idle" PROVE call \in Requests
  BY Zenon DEF IInv, CallInv, SignInTypeOK

\* What the page asks is a body that a client can send.
LEMMA AsksFit ==
  ASSUME IInv
  PROVE  /\ Fit(Backend!Credentials("login", field, Mine))
         /\ Fit(Backend!Credentials("register", username, Mine))
         /\ pc # "idle" => Fit(Backend!Bearing("join", req[call].token))
<1>1. field \in Names /\ username \in Names /\ Mine \in Passwords /\ AuthInv
  BY SignInAssumption, Zenon DEF IInv, SignInTypeOK, TypeOK
<1>2. pc # "idle" => req[call].token \in issued \cup {None}
  BY <1>1, CallKnown, Zenon DEF AuthInv, RequestInv
<1>3. None \in issued \cup {None}
  OBVIOUS
<1>4. "login" \in {"register", "login"} /\ "register" \in {"register", "login"} /\ "join" \in {"logout", "join"}
  OBVIOUS
<1> QED
  BY <1>1, <1>2, <1>3, <1>4, BodiesFit, Zenon

LEMMA AuthStep == ASSUME IInv, [SignInNext]_vars PROVE AuthInv'
<1> USE DEF IInv
<1>1. CASE Visit \/ JoinOk \/ GiveBack \/ UNCHANGED vars
  <2>1. UNCHANGED backendVars
    BY <1>1, Zenon DEF Visit, JoinOk, GiveBack, vars
  <2> QED
    BY <2>1, Zenon DEF AuthInv, Backend!TypeOK, RequestInv, TokenInv, backendVars
<1>2. CASE Serve
  <2>1. ASSUME NEW r \in Requests, Backend!Send(r) PROVE AuthInv'
    <3>1. PICK body : Backend!Post(r, body) /\ Fit(body)
      <4>1. CASE \E kind \in {"register", "login"}, n \in Names, p \in Passwords :
                    Backend!Post(r, Backend!Credentials(kind, n, p))
        BY <4>1, BodiesFit, Zenon
      <4>2. CASE \E kind \in {"logout", "join"}, t \in issued \cup {None} :
                    Backend!Post(r, Backend!Bearing(kind, t))
        BY <4>2, BodiesFit, Zenon
      <4> QED
        BY <2>1, <4>1, <4>2, Zenon DEF Backend!Send
    <3> QED
      BY <3>1, PostKeeps
  <2> QED
    BY <1>2, <2>1, RecycleKeeps, RestartKeeps, HandleKeeps, Zenon DEF Serve
<1>3. CASE SubmitForm \/ LoginOk \/ LoginRefused \/ RegisterOk
  <2>1. SubmitForm \/ pc # "idle"
    BY <1>3, Zenon DEF LoginOk, LoginRefused, RegisterOk, LoggedIn, Registered, Goto
  <2>2. PICK r \in Requests : \E body : Backend!Post(r, body) /\ Fit(body)
    BY <1>3, <2>1, AsksFit, Zenon DEF SubmitForm, LoginOk, LoginRefused, RegisterOk, AskLogin, AskRegister,
       AskJoin, Ask
  <2>3. PICK body : Backend!Post(r, body) /\ Fit(body)
    BY <2>2
  <2> QED
    BY <2>3, PostKeeps
<1>4. CASE FetchRejects
  <2>1. call \in Requests
    BY <1>4, CallKnown DEF FetchRejects, Lost
  <2> QED
    BY <1>4, <2>1 DEF FetchRejects, AuthInv, Backend!TypeOK, RequestInv, TokenInv
<1> QED
  BY <1>1, <1>2, <1>3, <1>4, Zenon DEF SignInNext

\* What happens to accounts and tokens while the page waits: no account that
\* is taken changes hands, and no token that was issued.
LEMMA Others ==
  ASSUME IInv, [SignInNext]_vars
  PROVE  /\ \A t \in issued : t \in issued' /\ tokenTo'[t] \in {tokenTo[t], None}
         /\ \A n \in Names : Own(n) => Own(n)'
<1> USE DEF Own
<1>0. AuthInv /\ Backend!TypeOK /\ Mine # None
  BY SignInAssumption, Zenon DEF IInv, AuthInv, Backend!ConstantsFit
<1>1. CASE UNCHANGED <<passwordOf, tokenTo, issued, persistent>>
  BY <1>1, Zenon
<1>2. CASE Backend!Restart
  BY <1>0, <1>2 DEF Backend!Restart, Backend!TypeOK
<1>3. ASSUME NEW r \in Requests, Backend!Handle(r)
      PROVE  /\ persistent' = persistent
             /\ \A t \in issued : t \in issued' /\ tokenTo'[t] \in {tokenTo[t], None}
             /\ \A n \in Names : passwordOf[n] # None => passwordOf'[n] = passwordOf[n]
  BY <1>0, <1>3 DEF Backend!Handle, Backend!Exists, Backend!Save, Backend!Find, Backend!Issue,
     Backend!Revoke, Backend!Resolve, Backend!TypeOK
<1>4. CASE Serve
  <2>1. CASE \E r \in Requests : Backend!Send(r) \/ Backend!Recycle(r)
    BY <1>1, <2>1, Zenon DEF Backend!Send, Backend!Recycle, Backend!Post
  <2>2. CASE \E r \in Requests : Backend!Handle(r)
    BY <1>0, <1>3, <2>2, Zenon
  <2> QED
    BY <1>2, <1>4, <2>1, <2>2, Zenon DEF Serve
<1>5. CASE ~Serve
  BY <1>1, <1>5, Zenon DEF SignInNext, vars, backendVars, Visit, JoinOk, GiveBack, FetchRejects,
     SubmitForm, LoginOk, LoginRefused, RegisterOk, AskLogin, AskRegister, AskJoin, Ask, Backend!Post
<1> QED
  BY <1>4, <1>5

LEMMA StillGranted ==
  ASSUME IInv, [SignInNext]_vars, username' = username, NEW t \in Tokens \cup {None}, Granted(t)
  PROVE  Granted(t)'
<1>1. username \in Names
  BY Zenon DEF IInv, SignInTypeOK, TypeOK
<1>2. /\ t \in issued' /\ tokenTo'[t] \in {tokenTo[t], None}
      /\ \A n \in Names : Own(n) => Own(n)'
  BY Others DEF Granted
<1> QED
  BY <1>1, <1>2, Zenon DEF Granted

\* An answer to the request that the page awaits.
LEMMA CallHandled ==
  ASSUME IInv, pc # "idle", Backend!Handle(call), UNCHANGED <<formVars, call, seated>>
  PROVE  CallInv'
<1>t. PICK t : t = req[call].token
  OBVIOUS
<1>1. /\ call \in Requests /\ Backend!TypeOK /\ CallInv /\ username \in Names
      /\ pc \in {"login", "register", "join"}
      /\ None \notin Backend!Codes /\ None # username /\ None \notin Tokens
      /\ UNCHANGED <<pc, call, username>>
  BY CallKnown, SignInAssumption, Zenon DEF IInv, AuthInv, Backend!ConstantsFit, SignInTypeOK, TypeOK, formVars
<1>2. [SignInNext]_vars
  BY <1>1, Zenon DEF SignInNext, Serve
<1>3. /\ stage[call] # "done" => answer[call] = None
      /\ stage[call] = "issue" => passwordOf[req[call].name] = req[call].password
      /\ t \in Tokens \cup {None}
  BY <1>t, <1>1, Zenon DEF IInv, AuthInv, RequestInv, Backend!TypeOK
<1>4. /\ stage[call] # "done"
      /\ req'[call].password = req[call].password
      /\ stage[call] # "resolve" => req'[call].name = req[call].name
  BY <1>1 DEF Backend!Handle, Backend!Exists, Backend!Save, Backend!Find, Backend!Issue, Backend!Revoke,
     Backend!Resolve, Backend!Answer, Backend!Goto, Backend!TypeOK, Backend!Bodies
<1>5. CASE pc # "join"
  <2>1. /\ stage[call] \in {"find", "exists", "save", "issue"}
        /\ req[call].name = username /\ req[call].password = Mine
    BY <1>1, <1>4, <1>5 DEF CallInv
  <2>2. CASE stage[call] = "issue"
    <3>1. /\ stage'[call] = "done" /\ UNCHANGED <<passwordOf, persistent>>
          /\ req'[call].token \in issued' /\ tokenTo'[req'[call].token] = username
      BY <1>1, <2>1, <2>2 DEF Backend!Handle, Backend!Exists, Backend!Save, Backend!Find, Backend!Issue,
         Backend!Revoke, Backend!Resolve, Backend!Answer, Backend!Goto, Backend!TypeOK, Backend!Bodies
    <3>2. Own(username)'
      BY <1>1, <1>3, <2>1, <2>2, <3>1 DEF Own
    <3>3. Granted(req[call].token)'
      BY <1>1, <3>1, <3>2 DEF Granted
    <3> QED
      BY <1>1, <1>4, <1>5, <2>1, <2>2, <3>1, <3>3 DEF CallInv
  <2>3. CASE stage[call] # "issue"
    <3>1. /\ stage'[call] \in {"save", "issue", "done"}
          /\ answer'[call] \in {None, 409, 500, 401} /\ answer'[call] # 200
      BY <1>1, <1>3, <1>4, <2>1, <2>3 DEF Backend!Handle, Backend!Exists, Backend!Save, Backend!Find,
         Backend!Issue, Backend!Revoke, Backend!Resolve, Backend!Answer, Backend!Goto, Backend!TypeOK,
         Backend!Codes
    <3> QED
      BY <1>1, <1>4, <1>5, <2>1, <3>1 DEF CallInv
  <2> QED
    BY <2>2, <2>3
<1>6. CASE pc = "join"
  <2>1. stage[call] = "resolve" /\ Granted(t)
    BY <1>t, <1>1, <1>4, <1>6 DEF CallInv
  <2>2. t \in Tokens /\ tokenTo[t] \in {username, None}
    BY <1>1, <2>1 DEF Granted, Backend!TypeOK
  <2>3. /\ stage'[call] = "done" /\ req'[call].token = t
        /\ answer'[call] = 200 => req'[call].name = username
    BY <1>t, <1>1, <2>1, <2>2 DEF Backend!Handle, Backend!Exists, Backend!Save, Backend!Find,
       Backend!Issue, Backend!Revoke, Backend!Resolve, Backend!Answer, Backend!Goto, Backend!TypeOK,
       Backend!Bodies
  <2>4. Granted(t)'
    BY <1>1, <1>2, <1>3, <2>1, StillGranted
  <2>5. Granted(req[call].token)'
    BY <1>1, <2>3, <2>4 DEF Granted
  <2> QED
    BY <1>1, <1>6, <2>3, <2>5 DEF CallInv
<1> QED
  BY <1>5, <1>6

\* What others do leaves the request that the page awaits as it is.
LEMMA CallAwaited ==
  ASSUME IInv, [SignInNext]_vars, UNCHANGED <<pc, call, username>>,
         pc # "idle" => /\ req'[call] = req[call] /\ answer'[call] = answer[call]
                        /\ stage'[call] \in {stage[call], "done"}
  PROVE  CallInv'
<1>1. CallInv
  BY DEF IInv
<1>2. CASE pc = "idle"
  BY <1>1, <1>2 DEF CallInv
<1>3. CASE pc # "idle"
  <2>1. PICK t : t = req[call].token
    OBVIOUS
  <2>2. t \in Tokens \cup {None}
    <3>1. call \in Requests /\ Backend!TypeOK
      BY <1>3, CallKnown DEF IInv, AuthInv
    <3> QED
      BY <2>1, <3>1 DEF Backend!TypeOK, Backend!Bodies
  <2>3. Granted(t) => Granted(t)'
    BY <2>2, StillGranted
  <2>4. Granted(req[call].token) => Granted(req[call].token)'
    BY <1>3, <2>1, <2>3 DEF Granted
  <2> QED
    BY <1>1, <1>3, <2>4 DEF CallInv
<1> QED
  BY <1>2, <1>3

\* A request that the page sends is another one than it has awaited, and has
\* no answer yet.
LEMMA CallSent ==
  ASSUME IInv, NEW r \in Requests \ {call}, NEW body, Backend!Post(r, body), call' = r
  PROVE  /\ req'[call'] = body /\ stage'[call'] = Backend!First[body.kind] /\ answer'[call'] = None
         /\ None # 200 /\ call' # None /\ UNCHANGED <<tokenTo, issued, passwordOf, persistent>>
<1>1. AuthInv /\ Backend!TypeOK /\ None \notin Backend!Codes /\ None \notin Requests
  BY SignInAssumption, Zenon DEF IInv, AuthInv, Backend!ConstantsFit
<1> QED
  BY <1>1 DEF Backend!Post, Backend!Goto, Backend!TypeOK, AuthInv, RequestInv, Backend!Codes

LEMMA CallStep == ASSUME IInv, [SignInNext]_vars PROVE CallInv'
<1>1. CallInv /\ Backend!TypeOK /\ call \in Requests \cup {None}
  BY Zenon DEF IInv, AuthInv, SignInTypeOK
<1>2. CASE UNCHANGED vars \/ Visit
  <2>1. UNCHANGED <<pc, call, username, stage, req, answer>>
    BY <1>2, Zenon DEF vars, formVars, backendVars, Visit, Page, Edit, FlySolo, Ready, ClickPanel
  <2> QED
    BY <2>1, CallAwaited
<1>3. CASE Serve
  <2>1. UNCHANGED <<pc, call, username>>
    BY <1>3, Zenon DEF Serve, formVars
  <2>2. CASE Backend!Restart
    <3>1. pc # "idle" => stage'[call] \in {stage[call], "done"}
      BY <1>1, <2>2, CallKnown DEF Backend!Restart, Backend!TypeOK
    <3>2. UNCHANGED <<req, answer>>
      BY <2>2, Zenon DEF Backend!Restart
    <3> QED
      BY <2>1, <3>1, <3>2, CallAwaited
  <2>3. ASSUME NEW r \in Requests, Backend!Handle(r), r # call PROVE CallInv'
    <3>1. pc # "idle" => /\ req'[call] = req[call] /\ answer'[call] = answer[call]
                         /\ stage'[call] = stage[call]
      BY <1>1, <2>3, CallKnown DEF Backend!Handle, Backend!Exists, Backend!Save, Backend!Find,
         Backend!Issue, Backend!Revoke, Backend!Resolve, Backend!Answer, Backend!Goto, Backend!TypeOK
    <3> QED
      BY <2>1, <3>1, CallAwaited
  <2>4. ASSUME Backend!Handle(call), call \in Requests PROVE CallInv'
    <3>1. pc # "idle"
      BY <1>1, <2>4, SignInAssumption DEF CallInv
    <3>2. UNCHANGED <<formVars, call, seated>>
      BY <1>3, Zenon DEF Serve
    <3> QED
      BY <2>4, <3>1, <3>2, CallHandled
  <2>5. ASSUME NEW r \in Requests \ {call}, Backend!Send(r) \/ Backend!Recycle(r) PROVE CallInv'
    <3>1. pc # "idle" => /\ req'[call] = req[call] /\ answer'[call] = answer[call]
                         /\ stage'[call] = stage[call]
      BY <1>1, <2>5, CallKnown DEF Backend!Send, Backend!Recycle, Backend!Post, Backend!Goto, Backend!TypeOK
    <3> QED
      BY <2>1, <3>1, CallAwaited
  <2> QED
    BY <1>3, <2>2, <2>3, <2>4, <2>5, Zenon DEF Serve
<1>4. CASE SubmitForm
  <2>1. PICK r \in Requests \ {call} : Backend!Post(r, Backend!Credentials("login", field, Mine)) /\ call' = r
    BY <1>4, Zenon DEF SubmitForm, AskLogin, Ask
  <2>2. pc' = "login" /\ username' = field
    BY <1>4, Zenon DEF SubmitForm, Submit, Goto
  <2>3. /\ req'[call'] = Backend!Credentials("login", field, Mine)
        /\ stage'[call'] = Backend!First["login"] /\ answer'[call'] = None /\ None # 200 /\ call' # None
    BY <2>1, CallSent DEF Backend!Credentials
  <2> QED
    BY <2>2, <2>3 DEF CallInv, Backend!Credentials, Backend!First
<1>5. CASE LoginRefused
  <2>1. PICK r \in Requests \ {call} :
           Backend!Post(r, Backend!Credentials("register", username, Mine)) /\ call' = r
    BY <1>5, Zenon DEF LoginRefused, AskRegister, Ask
  <2>2. pc' = "register" /\ username' = username
    BY <1>5, Zenon DEF LoginRefused, LoggedIn, Goto
  <2>3. /\ req'[call'] = Backend!Credentials("register", username, Mine)
        /\ stage'[call'] = Backend!First["register"] /\ answer'[call'] = None /\ None # 200 /\ call' # None
    BY <2>1, CallSent DEF Backend!Credentials
  <2> QED
    BY <2>2, <2>3 DEF CallInv, Backend!Credentials, Backend!First
<1>6. CASE LoginOk \/ RegisterOk
  <2>1. PICK r \in Requests \ {call} :
           Backend!Post(r, Backend!Bearing("join", req[call].token)) /\ call' = r
    BY <1>6, Zenon DEF LoginOk, RegisterOk, AskJoin, Ask
  <2>2. pc' = "join" /\ username' = username /\ pc \in {"login", "register"} /\ answer[call] = 200
    BY <1>6, Zenon DEF LoginOk, RegisterOk, LoggedIn, Registered, Goto, Answered
  <2>3. /\ req'[call'] = Backend!Bearing("join", req[call].token)
        /\ stage'[call'] = Backend!First["join"] /\ answer'[call'] = None /\ None # 200 /\ call' # None
        /\ UNCHANGED <<tokenTo, issued, passwordOf, persistent>>
    BY <2>1, CallSent DEF Backend!Bearing
  <2>4. Granted(req[call].token)
    BY <1>1, <2>2 DEF CallInv
  <2>5. Granted(req[call].token)' 
    BY <2>2, <2>3, <2>4 DEF Granted, Own, Backend!Bearing
  <2> QED
    BY <2>2, <2>3, <2>5 DEF CallInv, Backend!First
<1>7. CASE JoinOk \/ GiveBack \/ FetchRejects
  <2>1. pc' = "idle" /\ call' = None
    BY <1>7, Zenon DEF JoinOk, GiveBack, FetchRejects, Joined, Refused, Lost, Goto
  <2> QED
    BY <2>1 DEF CallInv
<1> QED
  BY <1>2, <1>3, <1>4, <1>5, <1>6, <1>7, Zenon DEF SignInNext

LEMMA SeatStep == ASSUME IInv, [SignInNext]_vars PROVE SeatInv'
<1>1. /\ onClick \in Seq(Names \cup {Solo}) /\ mains \in Seq(Names \cup {Solo})
      /\ \A j \in DOMAIN onClick : Fair(onClick[j])
      /\ \A j \in DOMAIN mains : Fair(mains[j])
  BY Zenon DEF IInv, SignInTypeOK, TypeOK, SeatInv
<1>2. \A c \in Names \cup {Solo} : Fair(c) => Fair(c)'
  <2>1. seated \subseteq seated'
    BY Zenon DEF SignInNext, vars, backendVars, formVars, Visit, Serve, SubmitForm, LoginOk, LoginRefused, RegisterOk,
       JoinOk, GiveBack, FetchRejects
  <2> QED
    BY <2>1, Others, Zenon DEF Fair
<1>3. ASSUME NEW c \in Names \cup {Solo}, Launch(c), UNCHANGED mains, Fair(c)' PROVE SeatInv'
  <2>1. CASE onClick' = onClick
    BY <1>1, <1>2, <1>3, <2>1 DEF SeatInv
  <2>2. CASE onClick' = Append(onClick, c)
    BY <1>1, <1>2, <1>3, <2>2 DEF SeatInv
  <2> QED
    BY <1>3, <2>1, <2>2, Zenon DEF Launch, pageVars
<1>4. CASE FlySolo /\ Visit
  <2>1. Fair(Solo)'
    BY DEF Fair
  <2> QED
    BY <1>3, <1>4, <2>1, Zenon DEF FlySolo
<1>5. CASE ClickPanel
  <2>1. mains' \in {mains, mains \o onClick} /\ onClick' = <<>>
    BY <1>5, Zenon DEF ClickPanel
  <2> QED
    BY <1>1, <1>2, <2>1 DEF SeatInv
<1>6. CASE JoinOk
  <2>1. pc = "join" /\ answer[call] = 200 /\ Launch(username) /\ UNCHANGED <<mains, username, backendVars>>
        /\ seated' = seated \cup {req[call].name}
    BY <1>6, Zenon DEF JoinOk, Joined, Goto, Answered
  <2>2. req[call].name = username /\ Own(username)
    BY <2>1 DEF IInv, CallInv, Granted
  <2>3. Fair(username)' /\ username \in Names \cup {Solo}
    BY <2>1, <2>2, Zenon DEF Fair, Own, backendVars, IInv, SignInTypeOK, TypeOK
  <2> QED
    BY <1>3, <2>1, <2>3
<1>7. CASE UNCHANGED <<onClick, mains>>
  BY <1>1, <1>2, <1>7 DEF SeatInv
<1> QED
  BY <1>4, <1>5, <1>6, <1>7, Zenon DEF SignInNext, vars, formVars, pageVars, Visit, Page, Edit, Ready, Serve, SubmitForm,
     LoginOk, LoginRefused, RegisterOk, GiveBack, FetchRejects, Submit, LoggedIn, Registered, Refused, Lost

LEMMA TypeStep == ASSUME IInv, [SignInNext]_vars PROVE SignInTypeOK'
<1>1. TypeOK /\ AuthInv /\ call \in Requests \cup {None} /\ seated \subseteq Names
  BY Zenon DEF IInv, SignInTypeOK
<1>2. TypeOK'
  <2>1. CASE UNCHANGED formVars
    BY <1>1, <2>1, Zenon DEF TypeOK, formVars, pageVars
  <2> QED
    BY <1>1, <2>1, PageMoves, PageTyped, Zenon
<1>3. Backend!TypeOK'
  BY AuthStep, Zenon DEF AuthInv
<1>4. call' \in Requests \cup {None}
  BY <1>1, Zenon DEF SignInNext, vars, Visit, Serve, SubmitForm, LoginOk, LoginRefused, RegisterOk, JoinOk, GiveBack,
     FetchRejects, AskLogin, AskRegister, AskJoin, Ask
<1>5. seated' \subseteq Names
  <2>1. CASE JoinOk
    <3>1. pc = "join" /\ answer[call] = 200 /\ seated' = seated \cup {req[call].name}
      BY <2>1, Zenon DEF JoinOk, Joined, Goto, Answered
    <3>2. req[call].name = username /\ username \in Names
      BY <3>1, Zenon DEF IInv, CallInv, SignInTypeOK, TypeOK
    <3> QED
      BY <1>1, <3>1, <3>2
  <2>2. CASE ~JoinOk
    <3>1. UNCHANGED seated
      BY <2>2, Zenon DEF SignInNext, vars, Visit, Serve, SubmitForm, LoginOk, LoginRefused, RegisterOk, GiveBack,
         FetchRejects
    <3> QED
      BY <1>1, <3>1
  <2> QED
    BY <2>1, <2>2
<1> QED
  BY <1>2, <1>3, <1>4, <1>5, Zenon DEF SignInTypeOK

LEMMA IInvInit == SignInInit => IInv
<1> SUFFICES ASSUME SignInInit PROVE IInv
  OBVIOUS
<1>1. Init /\ Backend!Init /\ call = None /\ seated = {}
  BY DEF SignInInit
<1>2. TypeOK
  <2>1. <<>> \in Seq(Names \cup {Solo})
    OBVIOUS
  <2> QED
    BY <1>1, <2>1, Zenon DEF Init, TypeOK
<1>3. AuthInv
  BY <1>1, SignInAssumption DEF AuthInv, Backend!Init, Backend!TypeOK, RequestInv, TokenInv, Backend!NoBody,
     Backend!Bodies, Backend!Kinds, Backend!ConstantsFit
<1>4. OnceInv
  BY <1>1 DEF Init, OnceInv, OneGame
<1>5. NoLockOut
  BY <1>1, Zenon DEF Init, NoLockOut
<1>6. CallInv /\ SeatInv
  BY <1>1 DEF Init, CallInv, SeatInv
<1>7. SignInTypeOK
  BY <1>1, <1>2, <1>3, Zenon DEF SignInTypeOK, AuthInv
<1> QED
  BY <1>3, <1>4, <1>5, <1>6, <1>7, Zenon DEF IInv

LEMMA Inductive == SignInSpec => []IInv
<1>1. ASSUME IInv, [SignInNext]_vars PROVE IInv'
  <2>1. TypeOK /\ OnceInv /\ NoLockOut
    BY <1>1, Zenon DEF IInv, SignInTypeOK
  <2>2. OnceInv' /\ NoLockOut'
    BY <1>1, <2>1, PageMoves, PageOnce, PageUnlocks, Zenon
  <2> QED
    BY <1>1, <2>2, TypeStep, AuthStep, CallStep, SeatStep, Zenon DEF IInv
<1> QED
  BY <1>1, IInvInit, PTL DEF SignInSpec

-----------------------------------------------------------------------------
(* What the run checks, for every value of the constants *)

\* One visit starts one game at most, whatever is clicked and awaited.
THEOREM GameIsOne == SignInSpec => []OneGame
<1>1. IInv => OneGame
  BY Zenon DEF IInv, OnceInv
<1> QED
  BY <1>1, Inductive, PTL

\* The form never stays locked without a request under way.
THEOREM FormUnlocks == SignInSpec => []NoLockOut
<1>1. IInv => NoLockOut
  BY Zenon DEF IInv
<1> QED
  BY <1>1, Inductive, PTL

\* A game that is not solo flies under a callsign that the backend let in, and
\* that is this pilot's as long as the database lives.
THEOREM CallsignIsSeated == SignInSpec => []CallsignSeated
<1>1. IInv => CallsignSeated
  BY Zenon DEF IInv, SeatInv, Fair, Own, CallsignSeated
<1> QED
  BY <1>1, Inductive, PTL

\* A token that has been revoked stands for nobody, ever.
THEOREM LogoutIsFinal == SignInSpec => []RevokedForGood
<1>1. IInv => RevokedForGood
  BY Zenon DEF IInv, AuthInv, TokenInv, RevokedForGood, Backend!RevokedForGood
<1> QED
  BY <1>1, Inductive, PTL

\* A token stands for an account that exists.
THEOREM TokensAreOwned == SignInSpec => []TokensHaveAccounts
<1>1. IInv => TokensHaveAccounts
  BY Zenon DEF IInv, AuthInv, TokenInv, TokensHaveAccounts, Backend!TokensHaveAccounts
<1> QED
  BY <1>1, Inductive, PTL

\* The first registration keeps the callsign, with its password, until the
\* database itself is lost.
THEOREM FirstKeeps == SignInSpec => FirstComeKeeps
<1> DEFINE Kept == \A n \in Names : passwordOf[n] # None =>
                      \/ passwordOf'[n] = passwordOf[n]
                      \/ ~persistent /\ restarts' > restarts
<1>1. ASSUME IInv, [SignInNext]_vars PROVE Kept
  <2>1. Backend!TypeOK
    BY <1>1, Zenon DEF IInv, AuthInv
  <2>2. CASE UNCHANGED passwordOf
    BY <2>2
  <2>3. CASE Backend!Restart
    <3>1. restarts' > restarts
      BY <2>1, <2>3, SignInAssumption DEF Backend!Restart, Backend!TypeOK, Backend!ConstantsFit
    <3>2. persistent => UNCHANGED passwordOf
      BY <2>3, Zenon DEF Backend!Restart
    <3> QED
      BY <3>1, <3>2, Zenon
  <2>4. ASSUME NEW r \in Requests, Backend!Save(r) PROVE Kept
    BY <2>1, <2>4 DEF Backend!Save, Backend!TypeOK
  <2> QED
    BY <1>1, <2>2, <2>3, <2>4, Zenon DEF SignInNext, vars, backendVars, Visit, Serve, SubmitForm, LoginOk,
       LoginRefused, RegisterOk, JoinOk, GiveBack, FetchRejects, AskLogin, AskRegister, AskJoin, Ask, Backend!Post,
       Backend!Send, Backend!Recycle, Backend!Handle, Backend!Exists, Backend!Find, Backend!Issue, Backend!Revoke,
       Backend!Resolve
<1>2. ASSUME IInv, [SignInNext]_vars PROVE [Kept]_Backend!vars
  BY <1>1, <1>2
<1> HIDE DEF Kept
<1> QED
  BY <1>2, Inductive, PTL DEF SignInSpec, FirstComeKeeps, Backend!FirstComeKeeps, Kept
=============================================================================
