-------------------------------- MODULE Combat --------------------------------
(***************************************************************************)
(* The clients of one arena: who is hit, who dies, and what each client    *)
(* believes of the others.                                                 *)
(*                                                                         *)
(* A client is single-threaded: frame() fires, drains the inbox, respawns, *)
(* moves the bullets and reports its state, in that order and without      *)
(* interruption, so one Frame is one step.  A pass drains at most one      *)
(* frame and has at most one bullet strike or expire: a pass in which more *)
(* of that happens is as good as several, since nothing else that a client *)
(* does depends on how many passes it took.  A client resolves the hits of *)
(* its own bullets against its view of the other ships and reports them;   *)
(* the victim applies them.  Kill frames are credited by the server (see   *)
(* Relay); clients ignore them.  Between two clients frames travel in      *)
(* order and may be late; those of different senders meet in any order.    *)
(* Where ships are is left out: a bullet may hit any ship that is alive in *)
(* the shooter's view, or none.                                            *)
(***************************************************************************)
EXTENDS Integers, Sequences, FiniteSets

CONSTANTS
    Clients,
    MaxHealth,   \* kMaxHealth
    Damage,      \* kBulletDamage
    MaxShots,    \* bound: shots each client fires
    MaxQueue,    \* bound: frames under way from one client to another
    None

ASSUME ConstantsAssumption ==
    /\ MaxHealth \in Nat \ {0} /\ Damage \in Nat \ {0}
    /\ MaxShots \in [Clients -> Nat] /\ MaxQueue \in Nat
    /\ None \notin Clients /\ None \notin 0..MaxHealth

VARIABLES
    health,   \* each client's own health; it is alive while this is positive
    view,     \* remoteViews: the health a client shows for each peer, or None
    bullets,  \* bullets_, each the shot it came from
    fired,    \* shots each client has fired
    net,      \* net[c][d]: frames from c that d has not drained
    online,   \* the clients whose socket is up
    reported, \* hit frames sent for each shot
    hurt,     \* hit frames sent that name each victim
    deaths    \* times each client died

vars == <<health, view, bullets, fired, net, online, reported, hurt, deaths>>

Shots == UNION {{c} \X (1..MaxShots[c]) : c \in Clients}
Msgs ==
    [type : {"state"}, hp : 0..MaxHealth] \cup [type : {"hit"}, victim : Clients]
        \cup [type : {"shot"}, shot : Shots] \cup [type : {"leave"}]

TypeOK ==
    /\ health \in [Clients -> 0..MaxHealth]
    /\ view \in [Clients -> [Clients -> 0..MaxHealth \cup {None}]]
    /\ bullets \in [Clients -> SUBSET Shots]
    /\ fired \in [Clients -> Nat]
    /\ net \in [Clients -> [Clients -> Seq(Msgs)]]
    /\ online \in SUBSET Clients
    /\ reported \in [Shots -> Nat]
    /\ {hurt, deaths} \subseteq [Clients -> Nat]

Init ==
    /\ health = [c \in Clients |-> MaxHealth]
    /\ view = [c \in Clients |-> [d \in Clients |-> None]]
    /\ bullets = [c \in Clients |-> {}]
    /\ fired = [c \in Clients |-> 0]
    /\ net = [c \in Clients |-> [d \in Clients |-> <<>>]]
    /\ online = Clients
    /\ reported = [s \in Shots |-> 0]
    /\ hurt = [c \in Clients |-> 0]
    /\ deaths = hurt

Floor0(n) == IF n < 0 THEN 0 ELSE n

\* takeDamage: health stops at zero, and a dead ship stays there.
TakeDamage(h) == Floor0(h - Damage)

\* How many hits a ship of health h takes before it is dead.
HitsLeft(h) == (h + Damage - 1) \div Damage

Push_Echoes(q, c, ms) ==
    [q EXCEPT ![c] = [d \in Clients |->
        IF d # c /\ {c, d} \subseteq online THEN q[c][d] \o ms \o ms ELSE q[c][d]]]
\* Frames of c reach every other client whose socket is up.
Push(q, c, ms) ==
    [q EXCEPT ![c] = [d \in Clients |->
        IF d # c /\ {c, d} \subseteq online THEN q[c][d] \o ms ELSE q[c][d]]]

-----------------------------------------------------------------------------
(* poll *)

\* A hit frame counts for the client it names; a dead ship takes no damage.
OnHit(c, st, m) == IF m.victim = c THEN [st EXCEPT !.hp = TakeDamage(@)] ELSE st

OnState_DeadStaysDead(st, s, m) == IF st.view[s] = 0 THEN st ELSE [st EXCEPT !.view[s] = m.hp]
\* setHealth: the ship is alive again when the report says so.
OnState(st, s, m) == [st EXCEPT !.view[s] = m.hp]

\* What draining a frame m of sender s makes of the state st of client c.
Apply(c, st, s, m) ==
    CASE m.type = "state" -> OnState(st, s, m)
      [] m.type = "hit"   -> OnHit(c, st, m)
      [] m.type = "shot"  -> [st EXCEPT !.bullets = @ \cup {m.shot}]
      [] m.type = "leave" -> [st EXCEPT !.view[s] = None]

-----------------------------------------------------------------------------
(* Arena::update *)

Resolves_All(c, b) == TRUE
\* isLocalShot: the shots of peers are theirs to resolve.
Resolves(c, b) == b[1] = c

\* Ships a bullet may hit: alive, and not the shooter's own.
Targets(c, b, st) ==
    {d \in Clients \ {b[1]} :
        IF d = c THEN st.hp > 0 ELSE st.view[d] # None /\ st.view[d] > 0}

\* A bullet in flight goes on, expires, or strikes a target.
Fates(c, st) ==
    {[bullet |-> None, target |-> None]}
        \cup {[bullet |-> b, target |-> None] : b \in st.bullets}
        \cup UNION {{[bullet |-> b, target |-> d] : d \in Targets(c, b, st)} :
                        b \in {x \in st.bullets : Resolves(c, x)}}

Strike(c, st, fate) ==
    LET gone == [st EXCEPT !.bullets = @ \ {fate.bullet}]
    IN  CASE fate.target = None -> gone
          [] fate.target = c    -> [gone EXCEPT !.hp = TakeDamage(@)]
          [] OTHER              -> [gone EXCEPT !.view[fate.target] = TakeDamage(@)]

Room(c) == \A d \in Clients : Len(net[c][d]) < MaxQueue

When(cond, m) == IF cond THEN <<m>> ELSE <<>>

\* One pass of frame(): fire, whether the trigger is held and the gun ready;
\* s, the sender whose next frame has arrived, or None; wakes, whether the
\* respawn timer has run out; tick, whether a report is due.
Frame(c, fire, s, wakes, tick) ==
    LET shot    == <<c, fired[c] + 1>>
        start   == [hp |-> health[c], view |-> view[c],
                    bullets |-> bullets[c] \cup (IF fire THEN {shot} ELSE {})]
        polled  == IF s = None THEN start ELSE Apply(c, start, s, Head(net[s][c]))
        ready   == IF wakes THEN [polled EXCEPT !.hp = MaxHealth] ELSE polled
    IN
    /\ fire => health[c] > 0 /\ fired[c] < MaxShots[c] /\ Room(c)
    /\ s # None => net[s][c] # <<>>
    /\ wakes => health[c] = 0
    /\ tick => Room(c)
    /\ \E fate \in Fates(c, ready) :
        LET end  == Strike(c, ready, fate)
            v    == fate.target
            hit  == v # None
        IN
        /\ health' = [health EXCEPT ![c] = end.hp]
        /\ view' = [view EXCEPT ![c] = end.view]
        /\ bullets' = [bullets EXCEPT ![c] = end.bullets]
        /\ fired' = [fired EXCEPT ![c] = IF fire THEN @ + 1 ELSE @]
        /\ net' = Push(IF s = None THEN net ELSE [net EXCEPT ![s][c] = Tail(@)], c,
                       When(fire, [type |-> "shot", shot |-> shot])
                           \o When(hit, [type |-> "hit", victim |-> v])
                           \o When(tick, [type |-> "state", hp |-> end.hp]))
        /\ reported' = IF hit THEN [reported EXCEPT ![fate.bullet] = @ + 1] ELSE reported
        /\ hurt' = IF hit /\ {c, v} \subseteq online THEN [hurt EXCEPT ![v] = @ + 1] ELSE hurt
        /\ deaths' = [deaths EXCEPT ![c] = IF health[c] > 0 /\ polled.hp = 0 THEN @ + 1 ELSE @]
    /\ UNCHANGED online

\* The socket closes.  The server puts the leave frame behind what it has
\* relayed of the session (Relay has when that reaches a peer); the client
\* itself takes no notice of onClose and flies on among the ships it last saw.
Disconnect_JumpsQueue(c) ==
    /\ c \in online
    /\ online' = online \ {c}
    /\ net' = [s \in Clients |-> [d \in Clients |->
                  CASE s = c /\ d \in online \ {c} -> <<[type |-> "leave"]>> \o net[s][d]
                    [] d = c -> <<>>
                    [] OTHER -> net[s][d]]]
    /\ UNCHANGED <<health, view, bullets, fired, reported, hurt, deaths>>
Disconnect(c) ==
    /\ c \in online
    /\ online' = online \ {c}
    /\ net' = [s \in Clients |-> [d \in Clients |->
                  CASE s = c /\ d \in online \ {c} -> Append(net[s][d], [type |-> "leave"])
                    [] d = c -> <<>>
                    [] OTHER -> net[s][d]]]
    /\ UNCHANGED <<health, view, bullets, fired, reported, hurt, deaths>>

Senders == Clients \cup {None}

Next == \E c \in Clients :
    \/ \E fire, wakes, tick \in BOOLEAN, s \in Senders : Frame(c, fire, s, wakes, tick)
    \/ Disconnect(c)

Spec == Init /\ [][Next]_vars

\* The browser keeps calling frame(), frames arrive in the end, the respawn
\* timer runs out and the report of the state falls due again and again.
Wakes(c) == \E fire, tick \in BOOLEAN, s \in Senders : Frame(c, fire, s, TRUE, tick)
Ticks(c) == \E fire, wakes \in BOOLEAN, s \in Senders : Frame(c, fire, s, wakes, TRUE)
Drains(c, s) == \E fire, wakes, tick \in BOOLEAN : Frame(c, fire, s, wakes, tick)
FairSpec ==
    /\ Spec
    /\ \A c \in Clients : WF_vars(Wakes(c)) /\ WF_vars(Ticks(c))
    /\ \A c, s \in Clients : WF_vars(Drains(c, s))

-----------------------------------------------------------------------------
(* Properties *)

\* Every shot is drawn by every client and may be seen to strike on each,
\* yet it is reported as a hit at most once.
EachShotHitsOnce == \A s \in Shots : reported[s] <= 1

\* Hits on their way to d, as counts.
Coming(d) ==
    Cardinality(UNION {{<<c, i>> : i \in {j \in DOMAIN net[c][d] :
        net[c][d][j] = [type |-> "hit", victim |-> d]}} : c \in Clients})

\* A client loses health only to hits that were reported on it, each once:
\* its deaths, what it has lost since the last and what is still under way
\* never add up to more.
DamageAccounted ==
    TypeOK /\ \A d \in Clients :
        deaths[d] * HitsLeft(MaxHealth)
            + (IF health[d] > 0 THEN HitsLeft(MaxHealth) - HitsLeft(health[d]) ELSE 0)
            + Coming(d) <= hurt[d]

\* A client that has drained the frames of a peer that left shows no ship of
\* it, whatever reports were still under way when the peer left.
DepartedForgotten ==
    \A c, d \in Clients :
        c \in online /\ d \notin online /\ net[d][c] = <<>> => view[c][d] = None

\* Once shooting has ended every client comes to show the health that each
\* online peer really has, and keeps it so.
ViewsSettle ==
    <>[](\A c, d \in Clients : c # d /\ {c, d} \subseteq online => view[c][d] = health[d])
=============================================================================
