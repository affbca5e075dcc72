------------------------------- MODULE Backend -------------------------------
(***************************************************************************)
(* The whole trip of a browser tab through the backend: it reserves a seat *)
(* over REST, opens a WebSocket to the arena of the answer, names itself   *)
(* with its first frame, flies, and is closed, severed, or cut off by a    *)
(* restart of the process, which keeps seats and rooms in memory only.     *)
(*                                                                         *)
(* The two services of the process meet in this trip alone.  The steps of  *)
(* MatchmakingService are those of Matchmaking, with a tab for each pilot; *)
(* the steps of GameWebSocketHandler are those that change its rooms, as   *)
(* fine as in Relay, with what a session says to its peers left out.       *)
(*                                                                         *)
(* In Matchmaking's terms a tab is seated from the answer to joinArena     *)
(* until its socket has left the room, and at is the arena of the answer   *)
(* and of the socket's URL.  A tab is used for another visit only when the *)
(* server has forgotten the one before.                                    *)
(***************************************************************************)
EXTENDS Matchmaking

CONSTANTS
    Rooms,       \* the set objects computeIfAbsent can allocate
    NoRoom,
    MaxRestarts  \* bound: restarts of the process

Tabs == Pilots

ASSUME TripAssumption == NoRoom \notin Rooms /\ MaxRestarts \in Nat

VARIABLES
    page,      \* what each tab shows
    wire,      \* where the server stands with the tab's WebSocket
    open,      \* the sockets whose isOpen() is true
    named,     \* sessionPlayer: those that have sent a frame
    arenas,    \* GameWebSocketHandler.arenas
    room,      \* what each set object holds
    ref,       \* the set object a callback has looked up
    restarts

seatVars == vars   \* of Matchmaking
wireVars == <<wire, open, named>>
roomVars == <<arenas, room, ref>>
tripVars == <<seatVars, page, wireVars, roomVars, restarts>>

Stages == {"none", "add", "log", "idle", "unlist", "remove", "check", "drop", "leave"}

TripTypeOK ==
    /\ TypeOK
    /\ page \in [Tabs -> {"form", "panel", "game"}]
    /\ wire \in [Tabs -> Stages]
    /\ open \in SUBSET Tabs
    /\ named \in SUBSET Tabs
    /\ arenas \in [Arenas -> Rooms \cup {NoRoom}]
    /\ room \in [Rooms -> SUBSET Tabs]
    /\ ref \in [Tabs -> Rooms \cup {NoRoom}]
    /\ restarts \in 0..MaxRestarts

TripInit ==
    /\ Init
    /\ page = [t \in Tabs |-> "form"]
    /\ wire = [t \in Tabs |-> "none"]
    /\ open = {} /\ named = {}
    /\ arenas = [a \in Arenas |-> NoRoom]
    /\ room = [r \in Rooms |-> {}]
    /\ ref = [t \in Tabs |-> NoRoom]
    /\ restarts = 0

Show(t, from, to) == page[t] = from /\ page' = [page EXCEPT ![t] = to]
Turn(t, from, to) == wire[t] = from /\ wire' = [wire EXCEPT ![t] = to]
Hold(t, r) == ref' = [ref EXCEPT ![t] = r]
Listed(t) == arenas[at[t]]   \* arenas.get(arenaId)

\* A set object nothing refers to is as good as a new one.
FreshRooms == {r \in Rooms : /\ \A a \in Arenas : arenas[a] # r
                             /\ \A t \in Tabs : ref[t] # r}

-----------------------------------------------------------------------------
(* The matchmaking request: joinArena, and the way of its answer *)

Ask(t) ==
    /\ page[t] = "form" /\ wire[t] = "none" /\ Enter(t)
    /\ UNCHANGED <<page, wireVars, roomVars, restarts>>

Serve(t) ==
    /\ Join(t) \/ Answer(t)
    /\ UNCHANGED <<page, wireVars, roomVars, restarts>>

Arrive(t) ==
    /\ pc[t] = "seated" /\ wire[t] = "none"
    /\ Show(t, "form", "panel")
    /\ UNCHANGED <<seatVars, wireVars, roomVars, restarts>>

\* The answer is lost: the name is counted, the form stays.
Lose(t) ==
    /\ page[t] = "form" /\ wire[t] = "none" /\ Abandon(t)
    /\ UNCHANGED <<page, wireVars, roomVars, restarts>>

-----------------------------------------------------------------------------
(* The launch, and afterConnectionEstablished *)

\* The click on the panel runs main, which opens the socket: computeIfAbsent.
Connect(t) ==
    /\ Show(t, "panel", "game")
    /\ Turn(t, "none", "add")
    /\ open' = open \cup {t}
    /\ \/ Listed(t) # NoRoom /\ Hold(t, Listed(t)) /\ UNCHANGED <<arenas, room>>
       \/ /\ Listed(t) = NoRoom
          /\ \E r \in FreshRooms :
                /\ arenas' = [arenas EXCEPT ![at[t]] = r]
                /\ room' = [room EXCEPT ![r] = {}]
                /\ Hold(t, r)
    /\ UNCHANGED <<seatVars, named, restarts>>

\* Or the connection fails, and the client flies alone.
FlyAlone(t) ==
    /\ Show(t, "panel", "game")
    /\ UNCHANGED <<seatVars, wireVars, roomVars, restarts>>

AddSession(t) ==
    /\ Turn(t, "add", "log")
    /\ room' = [room EXCEPT ![ref[t]] = @ \cup {t}]
    /\ Hold(t, NoRoom)
    /\ UNCHANGED <<seatVars, page, open, named, arenas, restarts>>

\* The log line dereferences arenas.get(arenaId), and closes the session when
\* that is null.
LogJoin(t) ==
    /\ Turn(t, "log", "idle")
    /\ open' = IF Listed(t) = NoRoom THEN open \ {t} ELSE open
    /\ UNCHANGED <<seatVars, page, named, roomVars, restarts>>

\* The first frame names the session.
SendFrame(t) ==
    /\ wire[t] = "idle" /\ t \in open \ named
    /\ named' = named \cup {t}
    /\ UNCHANGED <<seatVars, page, wire, open, roomVars, restarts>>

-----------------------------------------------------------------------------
(* The end of the visit, and afterConnectionClosed *)

\* The connection fails, or the server closes it on an exception.  The client
\* flies on and does not connect again.
Sever(t) ==
    /\ t \in open
    /\ open' = open \ {t}
    /\ UNCHANGED <<seatVars, page, wire, named, roomVars, restarts>>

\* The tab is closed or left.  A seat without a socket is not given back.
Shut(t) ==
    /\ page[t] \in {"panel", "game"}
    /\ page' = [page EXCEPT ![t] = "form"]
    /\ open' = open \ {t}
    /\ IF wire[t] = "none" /\ pc[t] = "seated" THEN Abandon(t) ELSE UNCHANGED seatVars
    /\ UNCHANGED <<wire, named, roomVars, restarts>>

Closed(t) ==
    /\ t \notin open
    /\ Turn(t, "idle", IF Listed(t) = NoRoom THEN "leave" ELSE "remove")
    /\ Hold(t, Listed(t))
    /\ UNCHANGED <<seatVars, page, open, named, arenas, room, restarts>>

RemoveSession_Forgotten(t) ==
    /\ Turn(t, "remove", "check")
    /\ UNCHANGED <<seatVars, page, open, named, arenas, room, ref, restarts>>
RemoveSession(t) ==
    /\ Turn(t, "remove", "check")
    /\ room' = [room EXCEPT ![ref[t]] = @ \ {t}]
    /\ UNCHANGED <<seatVars, page, open, named, arenas, ref, restarts>>

CheckRoom(t) ==
    /\ Turn(t, "check", IF room[ref[t]] = {} THEN "drop" ELSE "leave")
    /\ Hold(t, NoRoom)
    /\ UNCHANGED <<seatVars, page, open, named, arenas, room, restarts>>

DropRoom(t) ==
    /\ Turn(t, "drop", "leave")
    /\ arenas' = [arenas EXCEPT ![at[t]] = NoRoom]
    /\ UNCHANGED <<seatVars, page, open, named, room, ref, restarts>>

\* A session that has not named itself does not call leaveArena.
Depart(t) ==
    /\ Turn(t, "leave", "none")
    /\ IF t \in named THEN Leave(t) ELSE Abandon(t)
    /\ named' = named \ {t}
    /\ UNCHANGED <<page, open, roomVars, restarts>>

\* leaveArena
GiveBack(t) ==
    /\ RemoveMember(t) \/ CheckEmpty(t) \/ DropArena(t)
    /\ UNCHANGED <<page, wireVars, roomVars, restarts>>

-----------------------------------------------------------------------------
\* Requests, callbacks and sockets end with the process, and its maps are lost.
\* A tab that flies never asks again; one whose answer has come or is on its way
\* keeps the URL.
Keeps(t) == pc[t] = "seated" /\ wire[t] = "none" /\ page[t] # "game"
Restart ==
    /\ restarts < MaxRestarts /\ restarts' = restarts + 1
    /\ listed' = {} /\ members' = [a \in Arenas |-> {}] /\ monitor' = NoPilot
    /\ pc' = [t \in Tabs |-> IF Keeps(t) THEN "seated" ELSE "lobby"]
    /\ at' = [t \in Tabs |-> IF Keeps(t) THEN at[t] ELSE NoArena]
    /\ todo' = [t \in Tabs |-> {}]
    /\ wire' = [t \in Tabs |-> "none"]
    /\ open' = {} /\ named' = {}
    /\ arenas' = [a \in Arenas |-> NoRoom]
    /\ room' = [r \in Rooms |-> {}]
    /\ ref' = [t \in Tabs |-> NoRoom]
    /\ UNCHANGED page

Request(t) == Ask(t) \/ Serve(t) \/ Arrive(t) \/ Lose(t)
Visit(t) ==
    \/ Connect(t) \/ FlyAlone(t) \/ AddSession(t) \/ LogJoin(t) \/ SendFrame(t)
    \/ Sever(t) \/ Shut(t)
Close(t) ==
    \/ Closed(t) \/ RemoveSession(t) \/ CheckRoom(t) \/ DropRoom(t)
    \/ Depart(t) \/ GiveBack(t)

TripNext == Restart \/ \E t \in Tabs : Request(t) \/ Visit(t) \/ Close(t)

TripSpec == TripInit /\ [][TripNext]_tripVars

-----------------------------------------------------------------------------
(* Properties *)

OneTabPerUser == \A s, t \in Tabs : Callsign[s] = Callsign[t] => s = t

\* The sessions a broadcast to the arena goes to.
Flying(a) == IF arenas[a] = NoRoom THEN {} ELSE room[arenas[a]]

\* MAX_PER_ARENA bounds the sockets in a room as well, though the relay never
\* counts them: a session is out of its room before its seat is given back, a
\* seat taken in an arena that is being unlisted is one of its seats, and a URL
\* from before a restart leads to an arena nobody else is sent to.
RoomFits ==
    /\ TripTypeOK
    /\ OneTabPerUser => \A a \in Arenas : Cardinality(Flying(a)) <= MaxPerArena

\* The two services agree on the arenas that pilots are sent to: the
\* matchmaker counts every session that is in the room of an arena it lists.
CountedTogether ==
    OneTabPerUser =>
        \A a \in listed : \A t \in Flying(a) : Callsign[t] \in members[a]
=============================================================================
