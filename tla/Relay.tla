-------------------------------- MODULE Relay --------------------------------
(***************************************************************************)
(* GameWebSocketHandler: the rooms the server relays frames in, the kill   *)
(* ledger, and the farewell of a closed session.                           *)
(*                                                                         *)
(* A session is one WebSocket.  The container runs the callbacks of one    *)
(* session one after the other, and those of different sessions at the     *)
(* same time; the handler takes no lock, so sessions meet in the single    *)
(* operations of its ConcurrentHashMaps, each of which is one step.        *)
(* A frame is taken for shown when it is sent: a socket keeps the order.   *)
(* An exception that leaves a callback ends it; the container closes the   *)
(* session when it leaves one other than afterConnectionClosed.            *)
(***************************************************************************)
EXTENDS Integers, FiniteSets

CONSTANTS
    Sessions,   \* WebSockets, each used for one connection
    Arenas,     \* the arena ids of the sessions' URLs
    ArenaOf,    \* arenaOf(session)
    Players,    \* the ids that frames carry
    PlayerOf,   \* the id in a session's frames: its callsign
    Accounts,   \* the players users.findByUsername finds
    Rooms,      \* the set objects computeIfAbsent can allocate
    NoRoom,
    NoSession,
    MaxKills    \* bound: kill frames of each player

ASSUME ConstantsAssumption ==
    /\ ArenaOf \in [Sessions -> Arenas]
    /\ PlayerOf \in [Sessions -> Players]
    /\ Accounts \subseteq Players
    /\ NoRoom \notin Rooms
    /\ NoSession \notin Sessions
    /\ MaxKills \in [Players -> Nat]

VARIABLES
    arenas,         \* arenaId -> the set of its sessions, if any
    room,           \* what each set object holds
    sessionArena,   \* the sessions with an entry in the map of that name
    sessionPlayer,  \* likewise
    open,           \* the sessions whose isOpen() is true
    pc,             \* where each session's callback stands
    ref,            \* the set object that callback has looked up
    todo,           \* peers the iterator of its broadcast has still to return
    dest,           \* the peer it is sending to
    frame,          \* the frame it handles or broadcasts
    kills,          \* users.kills
    read,           \* the count a recordKill has read
    claimed,        \* kill frames received of each player
    ships           \* the ships each session's client shows

roomVars  == <<arenas, room>>
ownVars   == <<sessionArena, sessionPlayer>>
castVars  == <<todo, dest>>
killVars  == <<kills, read, claimed>>
vars == <<roomVars, ownVars, open, pc, ref, castVars, frame, killVars, ships>>

Frames == {"none", "state", "kill", "other", "leave"}
Labels == {"new", "add", "log", "idle", "find", "save", "lookup", "send", "write",
           "unlist", "remove", "check", "drop", "leave", "gone"}

TypeOK ==
    /\ arenas \in [Arenas -> Rooms \cup {NoRoom}]
    /\ room \in [Rooms -> SUBSET Sessions]
    /\ sessionArena \in SUBSET Sessions
    /\ sessionPlayer \in SUBSET Sessions
    /\ open \in SUBSET Sessions
    /\ pc \in [Sessions -> Labels]
    /\ ref \in [Sessions -> Rooms \cup {NoRoom}]
    /\ todo \in [Sessions -> SUBSET Sessions]
    /\ dest \in [Sessions -> Sessions \cup {NoSession}]
    /\ frame \in [Sessions -> Frames]
    /\ kills \in [Players -> Nat]
    /\ read \in [Sessions -> Nat]
    /\ claimed \in [Players -> Nat]
    /\ ships \in [Sessions -> SUBSET Players]

Init ==
    /\ arenas = [a \in Arenas |-> NoRoom]
    /\ room = [r \in Rooms |-> {}]
    /\ sessionArena = {} /\ sessionPlayer = {} /\ open = {}
    /\ pc = [s \in Sessions |-> "new"]
    /\ ref = [s \in Sessions |-> NoRoom]
    /\ todo = [s \in Sessions |-> {}]
    /\ dest = [s \in Sessions |-> NoSession]
    /\ frame = [s \in Sessions |-> "none"]
    /\ kills = [p \in Players |-> 0]
    /\ read = [s \in Sessions |-> 0]
    /\ claimed = [p \in Players |-> 0]
    /\ ships = [s \in Sessions |-> {}]

Goto(s, from, to) == pc[s] = from /\ pc' = [pc EXCEPT ![s] = to]
Hold(s, r) == ref' = [ref EXCEPT ![s] = r]
Listed(s) == arenas[ArenaOf[s]]   \* arenas.get(arenaId)

\* A set object nothing refers to is as good as a new one.
FreshRooms == {r \in Rooms : /\ \A a \in Arenas : arenas[a] # r
                             /\ \A s \in Sessions : ref[s] # r}

Casting(s) == pc[s] \in {"send", "write"}

-----------------------------------------------------------------------------
(* afterConnectionEstablished *)

Register(s) ==
    /\ Goto(s, "new", "add")
    /\ open' = open \cup {s}
    /\ \/ Listed(s) # NoRoom /\ Hold(s, Listed(s)) /\ UNCHANGED roomVars
       \/ /\ Listed(s) = NoRoom
          /\ \E r \in FreshRooms :
                /\ arenas' = [arenas EXCEPT ![ArenaOf[s]] = r]
                /\ room' = [room EXCEPT ![r] = {}]
                /\ Hold(s, r)
    /\ UNCHANGED <<ownVars, castVars, frame, killVars, ships>>

\* An iterator running over the set may or may not return the new element.
AddSession(s) ==
    /\ Goto(s, "add", "log")
    /\ room' = [room EXCEPT ![ref[s]] = @ \cup {s}]
    /\ \E late \in SUBSET {q \in Sessions : Casting(q) /\ ref[q] = ref[s]} :
          todo' = [q \in Sessions |-> todo[q] \cup (IF q \in late THEN {s} ELSE {})]
    /\ sessionArena' = sessionArena \cup {s}
    /\ Hold(s, NoRoom)
    /\ UNCHANGED <<arenas, sessionPlayer, open, dest, frame, killVars, ships>>

\* The log line dereferences arenas.get(arenaId); when that is null the
\* exception makes the container close the session.
LogJoin(s) ==
    /\ Goto(s, "log", "idle")
    /\ open' = IF Listed(s) = NoRoom THEN open \ {s} ELSE open
    /\ UNCHANGED <<roomVars, ownVars, ref, castVars, frame, killVars, ships>>

-----------------------------------------------------------------------------
(* handleTextMessage *)

\* "state" stands for the relayed types state, shot and hit; "other" for a
\* frame that names its sender and is of no known type.
ReceiveState(s) ==
    /\ s \in open /\ Goto(s, "idle", "lookup")
    /\ sessionPlayer' = sessionPlayer \cup {s}
    /\ frame' = [frame EXCEPT ![s] = "state"]
    /\ UNCHANGED <<roomVars, sessionArena, open, ref, castVars, killVars, ships>>

ReceiveKill(s) ==
    /\ s \in open /\ Goto(s, "idle", "find")
    /\ sessionPlayer' = sessionPlayer \cup {s}
    /\ frame' = [frame EXCEPT ![s] = "kill"]
    /\ claimed[PlayerOf[s]] < MaxKills[PlayerOf[s]]
    /\ claimed' = [claimed EXCEPT ![PlayerOf[s]] = @ + 1]
    /\ UNCHANGED <<roomVars, sessionArena, open, ref, castVars, kills, read, ships>>

ReceiveOther(s) ==
    /\ s \in open /\ pc[s] = "idle"
    /\ sessionPlayer' = sessionPlayer \cup {s}
    /\ UNCHANGED <<roomVars, sessionArena, open, pc, ref, castVars, frame, killVars, ships>>

\* recordKill of a callsign without an account does nothing.
FindUser(s) ==
    /\ IF PlayerOf[s] \in Accounts
         THEN Goto(s, "find", "save") /\ read' = [read EXCEPT ![s] = kills[PlayerOf[s]]]
         ELSE Goto(s, "find", "lookup") /\ UNCHANGED read
    /\ UNCHANGED <<roomVars, ownVars, open, ref, castVars, frame, kills, claimed, ships>>

SaveUser(s) ==
    /\ Goto(s, "save", "lookup")
    /\ kills' = [kills EXCEPT ![PlayerOf[s]] = read[s] + 1]
    /\ read' = [read EXCEPT ![s] = 0]
    /\ UNCHANGED <<roomVars, ownVars, open, ref, castVars, frame, claimed, ships>>

RecordFails_Swallowed(s) ==
    /\ pc[s] \in {"find", "save"}
    /\ pc' = [pc EXCEPT ![s] = "idle"]
    /\ frame' = [frame EXCEPT ![s] = "none"] /\ read' = [read EXCEPT ![s] = 0]
    /\ UNCHANGED <<roomVars, ownVars, open, ref, castVars, kills, claimed, ships>>
\* Either query of recordKill can throw: the kill is neither counted nor
\* relayed, and the session is closed.
RecordFails(s) ==
    /\ pc[s] \in {"find", "save"}
    /\ pc' = [pc EXCEPT ![s] = "idle"]
    /\ frame' = [frame EXCEPT ![s] = "none"] /\ read' = [read EXCEPT ![s] = 0]
    /\ open' = open \ {s}
    /\ UNCHANGED <<roomVars, ownVars, ref, castVars, kills, claimed, ships>>

-----------------------------------------------------------------------------
(* broadcast *)

\* The callback ends, and with it the use of the set it has looked up.
Bidding(s) == frame[s] = "leave"
Return(s) ==
    /\ pc' = [pc EXCEPT ![s] = IF Bidding(s) THEN "gone" ELSE "idle"]
    /\ frame' = [frame EXCEPT ![s] = IF Bidding(s) THEN "leave" ELSE "none"]
    /\ Hold(s, NoRoom)

Lookup(s) ==
    /\ pc[s] = "lookup"
    /\ IF Listed(s) = NoRoom
         THEN Return(s) /\ UNCHANGED todo
         ELSE /\ Goto(s, "lookup", "send")
              /\ Hold(s, Listed(s))
              /\ todo' = [todo EXCEPT ![s] = room[Listed(s)] \ {s}]
              /\ UNCHANGED frame
    /\ UNCHANGED <<roomVars, ownVars, open, dest, killVars, ships>>

\* The iterator returns a peer, and isOpen() is asked.  A peer that is closed
\* is passed over; one that has left the set since may be.
NextPeer(s) ==
    /\ pc[s] = "send"
    /\ \E peer \in todo[s] :
          /\ todo' = [todo EXCEPT ![s] = @ \ {peer}]
          /\ \/ peer \in open /\ Goto(s, "send", "write") /\ dest' = [dest EXCEPT ![s] = peer]
             \/ (peer \notin open \/ peer \notin room[ref[s]]) /\ UNCHANGED <<pc, dest>>
    /\ UNCHANGED <<roomVars, ownVars, open, ref, frame, killVars, ships>>

\* What a client makes of a frame: a state frame shows the sender's ship, a
\* leave frame drops it.  Frames with the client's own id are not shown.
Shown(peer, s) ==
    CASE frame[s] = "state" /\ PlayerOf[s] # PlayerOf[peer] -> ships[peer] \cup {PlayerOf[s]}
      [] frame[s] = "leave" -> ships[peer] \ {PlayerOf[s]}
      [] OTHER -> ships[peer]

\* sendMessage.  A peer that has closed since isOpen() was asked may make it
\* throw an IOException, which is caught.
SendTo(s) ==
    /\ Goto(s, "write", "send")
    /\ ships' = IF dest[s] \in open THEN [ships EXCEPT ![dest[s]] = Shown(dest[s], s)] ELSE ships
    /\ dest' = [dest EXCEPT ![s] = NoSession]
    /\ UNCHANGED <<roomVars, ownVars, open, ref, todo, frame, killVars>>

\* Or an IllegalStateException, which is not: the rest of the room is not
\* reached.  Of a farewell todo and dest keep whom it missed, and why.
SendFails(s) ==
    /\ pc[s] = "write" /\ dest[s] \notin open
    /\ Return(s)
    /\ IF Bidding(s)
         THEN UNCHANGED <<open, castVars>>
         ELSE /\ open' = open \ {s}
              /\ todo' = [todo EXCEPT ![s] = {}]
              /\ dest' = [dest EXCEPT ![s] = NoSession]
    /\ UNCHANGED <<roomVars, ownVars, killVars, ships>>

EndBroadcast(s) ==
    /\ pc[s] = "send" /\ todo[s] = {}
    /\ Return(s)
    /\ UNCHANGED <<roomVars, ownVars, open, castVars, killVars, ships>>

-----------------------------------------------------------------------------
(* The tab closes or its connection fails, then afterConnectionClosed *)

CloseSocket(s) ==
    /\ s \in open /\ pc[s] # "new"
    /\ open' = open \ {s}
    /\ UNCHANGED <<roomVars, ownVars, pc, ref, castVars, frame, killVars, ships>>

Closed(s) ==
    /\ s \notin open
    /\ Goto(s, "idle", "unlist")
    /\ sessionArena' = sessionArena \ {s}
    /\ sessionPlayer' = sessionPlayer \ {s}
    /\ frame' = [frame EXCEPT ![s] = IF s \in sessionPlayer THEN "leave" ELSE "none"]
    /\ UNCHANGED <<roomVars, open, ref, castVars, killVars, ships>>

Unlist(s) ==
    /\ Goto(s, "unlist", IF Listed(s) = NoRoom THEN "leave" ELSE "remove")
    /\ Hold(s, Listed(s))
    /\ UNCHANGED <<roomVars, ownVars, open, castVars, frame, killVars, ships>>

RemoveSession(s) ==
    /\ Goto(s, "remove", "check")
    /\ room' = [room EXCEPT ![ref[s]] = @ \ {s}]
    /\ UNCHANGED <<arenas, ownVars, open, ref, castVars, frame, killVars, ships>>

CheckEmpty_LastOne(s) ==
    /\ Goto(s, "check", IF Cardinality(room[ref[s]]) = 1 THEN "drop" ELSE "leave")
    /\ Hold(s, NoRoom)
    /\ UNCHANGED <<roomVars, ownVars, open, castVars, frame, killVars, ships>>
CheckEmpty(s) ==
    /\ Goto(s, "check", IF room[ref[s]] = {} THEN "drop" ELSE "leave")
    /\ Hold(s, NoRoom)
    /\ UNCHANGED <<roomVars, ownVars, open, castVars, frame, killVars, ships>>

DropRoom(s) ==
    /\ Goto(s, "drop", "leave")
    /\ arenas' = [arenas EXCEPT ![ArenaOf[s]] = NoRoom]
    /\ UNCHANGED <<room, ownVars, open, ref, castVars, frame, killVars, ships>>

Leave_Unannounced(s) ==
    /\ Goto(s, "leave", "gone")
    /\ UNCHANGED <<roomVars, ownVars, open, ref, castVars, frame, killVars, ships>>
\* matchmaking.leaveArena is called here, for a session that named itself.
Leave(s) ==
    /\ Goto(s, "leave", IF frame[s] = "leave" THEN "lookup" ELSE "gone")
    /\ UNCHANGED <<roomVars, ownVars, open, ref, castVars, frame, killVars, ships>>

-----------------------------------------------------------------------------
Callback(s) ==
    \/ AddSession(s) \/ LogJoin(s)
    \/ FindUser(s) \/ SaveUser(s) \/ RecordFails(s)
    \/ Lookup(s) \/ NextPeer(s) \/ SendTo(s) \/ SendFails(s) \/ EndBroadcast(s)
    \/ Closed(s) \/ Unlist(s) \/ RemoveSession(s) \/ CheckEmpty(s) \/ DropRoom(s) \/ Leave(s)

Receive(s) == ReceiveState(s) \/ ReceiveKill(s) \/ ReceiveOther(s)

Next == \E s \in Sessions : Register(s) \/ Receive(s) \/ CloseSocket(s) \/ Callback(s)

Spec == Init /\ [][Next]_vars

-----------------------------------------------------------------------------
(* Properties *)

InRoom(s) == Listed(s) # NoRoom /\ s \in room[Listed(s)]
SolePlayer(s) == \A q \in Sessions \ {s} : PlayerOf[q] # PlayerOf[s]
Leaving(s) ==
    \/ pc[s] \in {"check", "drop", "leave", "gone"}
    \/ Bidding(s) /\ (pc[s] = "lookup" \/ Casting(s))

\* A session whose close has removed it from its room is in no room that
\* broadcast can find, even when rooms are dropped and made again meanwhile.
NoGhostSession == \A s \in Sessions : Leaving(s) => ~InRoom(s)

\* A listed room without sessions has a callback about to fill or drop it:
\* no empty room is stranded in the map.
EmptyRoomIsDropped ==
    \A a \in Arenas :
        arenas[a] # NoRoom /\ room[arenas[a]] = {} =>
            \E s \in Sessions : /\ ArenaOf[s] = a
                                /\ pc[s] \in {"add", "remove", "check", "drop"}

\* The cleanup of a closed session leaves nothing behind in the map of rooms.
RoomsClean == TypeOK /\ NoGhostSession /\ EmptyRoomIsDropped

\* The farewell of s ended before it came to r, at a peer that had closed.
CutOff(s, r) == pc[s] = "gone" /\ r \in todo[s] /\ dest[s] \in Sessions \ open

\* Every session of the player has closed and been announced.
Gone(p) == \A s \in Sessions : PlayerOf[s] = p => pc[s] \in {"new", "gone"}
Missed(p, r) == \E s \in Sessions : PlayerOf[s] = p /\ CutOff(s, r)

\* An open client that is in its arena's room shows no ship of a pilot who has
\* gone, however the frames and farewells of the pilot's tabs were under way:
\* unless a farewell was cut off before it came to this client, which takes
\* another peer that closed while it was being written to.
FarewellHeard ==
    \A r \in Sessions : \A p \in Players :
        r \in open /\ InRoom(r) /\ Gone(p) /\ ~Missed(p, r) => p \notin ships[r]

\* README: kill frames are credited.  The ledger never holds more kills than
\* were reported, and none of an unknown callsign.  Of an account with one
\* session it holds every one, but the last when recording it failed, which
\* closes the session.  Two sessions that report at the same time can lose
\* kills, and nothing is said of them.
KillsCredited ==
    /\ \A p \in Players : /\ kills[p] <= claimed[p]
                          /\ p \notin Accounts => kills[p] = 0
    /\ \A s \in Sessions :
          SolePlayer(s) /\ PlayerOf[s] \in Accounts =>
              /\ claimed[PlayerOf[s]] <= kills[PlayerOf[s]] + 1
              /\ s \in open /\ pc[s] \notin {"find", "save"} =>
                    kills[PlayerOf[s]] = claimed[PlayerOf[s]]

\* The comment on the farewell: survivors drop the ship of a session that
\* left.  So once it has been sent to all no open client shows it.
ShipsDropped ==
    \A r, s \in Sessions :
        r \in open /\ pc[r] = "idle" /\ pc[s] = "gone" /\ SolePlayer(s) /\ ~CutOff(s, r)
            => PlayerOf[s] \notin ships[r]
=============================================================================
