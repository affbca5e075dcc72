------------------------------ MODULE RelayProofs ------------------------------
(***************************************************************************)
(* Proofs about Relay, for every set of sessions, arenas and pilots.       *)
(*                                                                         *)
(* A callback works on the set object it has looked up, while the map may  *)
(* already hold another one for its arena, or none.  RoomsInv says which   *)
(* sessions and arenas a set object can still belong to, CastInv what a    *)
(* running broadcast has still to reach, and CloseInv why the steps of a   *)
(* close, each of which sees the map at a time of its own, leave neither a *)
(* session nor an empty set behind.                                        *)
(***************************************************************************)
EXTENDS Relay, FiniteSetTheorems, TLAPS

\* No set object is used for two arenas.
Known ==
    /\ \A a, b \in Arenas : arenas[a] = arenas[b] /\ arenas[a] # NoRoom => a = b
    /\ \A a \in Arenas : \A q \in Sessions :
          ref[q] = arenas[a] /\ ref[q] # NoRoom => ArenaOf[q] = a
    /\ \A p, q \in Sessions : ref[p] = ref[q] /\ ref[p] # NoRoom => ArenaOf[p] = ArenaOf[q]
    /\ \A q \in Sessions : pc[q] \in {"add", "send", "write", "remove", "check"} => ref[q] \in Rooms

\* A session joins one set object, once, of its own arena if that is listed.
Joined ==
    /\ \A q \in Sessions : \A r \in Rooms : q \in room[r] => pc[q] \notin {"new", "add"}
    /\ \A q \in Sessions : \A r, x \in Rooms : q \in room[r] /\ q \in room[x] => r = x
    /\ \A a \in Arenas : arenas[a] # NoRoom => \A q \in room[arenas[a]] : ArenaOf[q] = a

RoomsInv == Known /\ Joined

\* Only the close of a session that named itself has a leave frame.
FrameInv ==
    \A s \in Sessions :
        /\ frame[s] = "leave" =>
              /\ \/ pc[s] \in {"unlist", "remove", "check", "drop", "leave", "gone"}
                 \/ pc[s] = "lookup" \/ Casting(s)
              /\ s \notin sessionPlayer
        /\ frame[s] = "state" => s \in sessionPlayer
        /\ pc[s] \in {"new", "add", "log"} => frame[s] = "none" /\ s \notin sessionPlayer
        /\ pc[s] \in {"unlist", "remove", "check", "drop", "leave", "gone"} => s \notin sessionPlayer

\* A session that is still in its listed room when it closes removes itself
\* from that very set.
GhostInv ==
    \A s \in Sessions :
        /\ pc[s] = "remove" /\ InRoom(s) => ref[s] = Listed(s)
        /\ Leaving(s) => ~InRoom(s)

\* Who is about to fill an empty room, or drop it.
Keeper(s, a) ==
    /\ ArenaOf[s] = a
    /\ pc[s] = "drop" \/ (pc[s] \in {"add", "remove", "check"} /\ ref[s] = arenas[a])
EmptyInv ==
    \A a \in Arenas :
        arenas[a] # NoRoom /\ room[arenas[a]] = {} => \E s \in Sessions : Keeper(s, a)

CloseInv == FrameInv /\ GhostInv /\ EmptyInv

\* Whom a broadcast has still to reach is or was in the set it goes to.
Owed(s) == todo[s] \cup (IF pc[s] = "write" THEN {dest[s]} ELSE {})
CastInv ==
    \A q \in Sessions :
        /\ todo[q] # {} => Casting(q) \/ (pc[q] = "gone" /\ Bidding(q))
        /\ pc[q] = "write" => dest[q] \in Sessions
        /\ Casting(q) => \A r \in Owed(q) :
              /\ ArenaOf[r] = ArenaOf[q] /\ pc[r] \notin {"new", "add"}
              /\ \A x \in Rooms : r \in room[x] => x = ref[q]

\* A farewell that was cut off has met a peer that had closed.
CutInv ==
    \A s \in Sessions :
        pc[s] = "gone" /\ todo[s] # {} =>
            dest[s] \in Sessions \ open /\ pc[dest[s]] # "new"

\* A session of the pilot whose farewell will still drop the ship, as long as
\* the client is in its room and the farewell is not cut off.
Owes(s, r) ==
    /\ ArenaOf[r] = ArenaOf[s] /\ pc[r] \notin {"new", "add"}
    /\ s \in sessionPlayer \/ Bidding(s)
    /\ r \in open /\ InRoom(r) =>
          /\ pc[s] = "gone" => r \in todo[s]
          /\ Casting(s) /\ Bidding(s) => r \in Owed(s)
ShowInv ==
    \A r \in Sessions : \A p \in ships[r] :
        p # PlayerOf[r] /\ \E s \in Sessions : PlayerOf[s] = p /\ Owes(s, r)

\* Who is recording a kill of the player.
UnderWay(s) == pc[s] \in {"find", "save"}
Recorders(p) == {s \in Sessions : PlayerOf[s] = p /\ UnderWay(s)}

\* Each of them has a kill to its name that the ledger does not hold yet, nor
\* did when it was read.
KillInv ==
    \A p \in Players :
        /\ IsFiniteSet(Recorders(p))
        /\ kills[p] + Cardinality(Recorders(p)) <= claimed[p]
        /\ p \notin Accounts => kills[p] = 0
        /\ \A s \in Recorders(p) :
              pc[s] = "save" => /\ p \in Accounts
                                /\ read[s] + Cardinality(Recorders(p)) <= claimed[p]

SoleInv ==
    \A s \in Sessions :
        SolePlayer(s) /\ PlayerOf[s] \in Accounts =>
            /\ pc[s] = "save" => read[s] = kills[PlayerOf[s]]
            /\ pc[s] = "new" => claimed[PlayerOf[s]] = kills[PlayerOf[s]]
            /\ claimed[PlayerOf[s]] <= kills[PlayerOf[s]] + 1
            /\ s \in open /\ ~UnderWay(s) => kills[PlayerOf[s]] = claimed[PlayerOf[s]]

IInv == TypeOK /\ RoomsInv /\ CloseInv /\ CastInv /\ CutInv /\ ShowInv /\ KillInv /\ SoleInv
-----------------------------------------------------------------------------

LEMMA TypeStep ==
  ASSUME TypeOK, [Next]_vars
  PROVE  TypeOK'
<1> USE ConstantsAssumption DEF TypeOK, Frames, Labels, Goto, Hold, Listed, roomVars,
    ownVars, castVars, killVars, Return, Bidding, Casting
<1>1. ASSUME NEW s \in Sessions, Register(s) PROVE TypeOK'
  <2>1. ArenaOf[s] \in Arenas
    OBVIOUS
  <2>2. CASE Listed(s) # NoRoom
    BY <1>1, <2>1, <2>2 DEF Register
  <2>3. CASE Listed(s) = NoRoom
    <3>1. PICK r \in FreshRooms : /\ arenas' = [arenas EXCEPT ![ArenaOf[s]] = r]
                                  /\ room' = [room EXCEPT ![r] = {}]
                                  /\ Hold(s, r)
      BY <1>1, <2>3 DEF Register
    <3>2. r \in Rooms
      BY DEF FreshRooms
    <3> QED
      BY <1>1, <2>1, <2>3, <3>1, <3>2 DEF Register
  <2> QED
    BY <2>2, <2>3
<1>2. ASSUME NEW s \in Sessions, AddSession(s) PROVE TypeOK'
  <2>1. PICK late \in SUBSET {q \in Sessions : Casting(q) /\ ref[q] = ref[s]} :
           todo' = [q \in Sessions |-> todo[q] \cup (IF q \in late THEN {s} ELSE {})]
    BY <1>2 DEF AddSession
  <2> QED
    BY <1>2, <2>1 DEF AddSession
<1>3. ASSUME NEW s \in Sessions, LogJoin(s) PROVE TypeOK'
  BY <1>3 DEF LogJoin
<1>4. ASSUME NEW s \in Sessions, Receive(s) PROVE TypeOK'
  BY <1>4 DEF Receive, ReceiveState, ReceiveKill, ReceiveOther
<1>5. ASSUME NEW s \in Sessions, FindUser(s) PROVE TypeOK'
  BY <1>5 DEF FindUser
<1>6. ASSUME NEW s \in Sessions, SaveUser(s) PROVE TypeOK'
  BY <1>6 DEF SaveUser
<1>7. ASSUME NEW s \in Sessions, Lookup(s) PROVE TypeOK'
  BY <1>7 DEF Lookup
<1>8. ASSUME NEW s \in Sessions, SendTo(s) PROVE TypeOK'
  <2>1. CASE dest[s] \in open
    <3>1. Shown(dest[s], s) \subseteq Players
      BY <2>1 DEF Shown
    <3> QED
      BY <1>8, <2>1, <3>1 DEF SendTo
  <2>2. CASE dest[s] \notin open
    BY <1>8, <2>2 DEF SendTo
  <2> QED
    BY <2>1, <2>2
<1>18. ASSUME NEW s \in Sessions, NextPeer(s) \/ SendFails(s) \/ RecordFails(s) PROVE TypeOK'
  BY <1>18 DEF NextPeer, SendFails, RecordFails
<1>9. ASSUME NEW s \in Sessions, EndBroadcast(s) PROVE TypeOK'
  BY <1>9 DEF EndBroadcast
<1>10. ASSUME NEW s \in Sessions, CloseSocket(s) PROVE TypeOK'
  BY <1>10 DEF CloseSocket
<1>11. ASSUME NEW s \in Sessions, Closed(s) PROVE TypeOK'
  BY <1>11 DEF Closed
<1>12. ASSUME NEW s \in Sessions, Unlist(s) PROVE TypeOK'
  BY <1>12 DEF Unlist
<1>13. ASSUME NEW s \in Sessions, RemoveSession(s) PROVE TypeOK'
  BY <1>13 DEF RemoveSession
<1>14. ASSUME NEW s \in Sessions, CheckEmpty(s) PROVE TypeOK'
  BY <1>14 DEF CheckEmpty
<1>15. ASSUME NEW s \in Sessions, DropRoom(s) PROVE TypeOK'
  BY <1>15 DEF DropRoom
<1>16. ASSUME NEW s \in Sessions, Leave(s) PROVE TypeOK'
  BY <1>16 DEF Leave
<1>17. CASE UNCHANGED vars
  BY <1>17 DEF vars, roomVars, ownVars, castVars, killVars
<1> QED
  BY <1>1, <1>2, <1>3, <1>4, <1>5, <1>6, <1>7, <1>8, <1>9, <1>10, <1>11, <1>12, <1>13,
      <1>14, <1>15, <1>16, <1>17, <1>18 DEF Next, Callback

LEMMA KnownStep ==
  ASSUME TypeOK, Known, [Next]_vars
  PROVE  Known'
<1> USE ConstantsAssumption DEF TypeOK, Labels, Goto, Hold, Listed, roomVars, ownVars,
    castVars, killVars, Return, Bidding, Casting, Known, FreshRooms
<1>1. ASSUME NEW s \in Sessions, Register(s) PROVE Known'
  <2>1. ArenaOf[s] \in Arenas
    OBVIOUS
  <2>2. CASE Listed(s) # NoRoom
    BY <1>1, <2>1, <2>2 DEF Register
  <2>3. CASE Listed(s) = NoRoom
    <3>1. PICK r \in FreshRooms : /\ arenas' = [arenas EXCEPT ![ArenaOf[s]] = r]
                                  /\ room' = [room EXCEPT ![r] = {}]
                                  /\ Hold(s, r)
      BY <1>1, <2>3 DEF Register
    <3>2. r \in Rooms
      BY DEF FreshRooms
    <3> QED
      BY <1>1, <2>1, <2>3, <3>1, <3>2 DEF Register
  <2> QED
    BY <2>2, <2>3
<1>2. ASSUME NEW s \in Sessions, AddSession(s) PROVE Known'
  BY <1>2 DEF AddSession
<1>3. ASSUME NEW s \in Sessions, Lookup(s) PROVE Known'
  BY <1>3 DEF Lookup
<1>4. ASSUME NEW s \in Sessions, EndBroadcast(s) \/ SendFails(s) PROVE Known'
  <2>1. ref' = [ref EXCEPT ![s] = NoRoom] /\ UNCHANGED arenas
    BY <1>4 DEF EndBroadcast, SendFails
  <2>2. pc' = [pc EXCEPT ![s] = "gone"] \/ pc' = [pc EXCEPT ![s] = "idle"]
    BY <1>4 DEF EndBroadcast, SendFails
  <2>3. \A q \in Sessions : ref'[q] = IF q = s THEN NoRoom ELSE ref[q]
    BY <2>1
  <2>4. \A q \in Sessions : pc'[q] \in {"add", "send", "write", "remove", "check"}
                             => q # s /\ pc'[q] = pc[q]
    BY <2>2
  <2> HIDE DEF TypeOK, Return, Hold, Goto, Bidding, FreshRooms
  <2> QED
    BY <2>1, <2>3, <2>4
<1>5. ASSUME NEW s \in Sessions, Unlist(s) PROVE Known'
  BY <1>5 DEF Unlist
<1>6. ASSUME NEW s \in Sessions, CheckEmpty(s) PROVE Known'
  BY <1>6 DEF CheckEmpty
<1>7. ASSUME NEW s \in Sessions, DropRoom(s) PROVE Known'
  BY <1>7 DEF DropRoom
<1>8. ASSUME NEW s \in Sessions,
             LogJoin(s) \/ Receive(s) \/ FindUser(s) \/ SaveUser(s) \/ RecordFails(s) \/ NextPeer(s) \/ SendTo(s)
      PROVE  Known'
  BY <1>8 DEF LogJoin, Receive, ReceiveState, ReceiveKill, ReceiveOther, FindUser, SaveUser, RecordFails, NextPeer, SendTo
<1>9. ASSUME NEW s \in Sessions,
             CloseSocket(s) \/ Closed(s) \/ RemoveSession(s) \/ Leave(s)
      PROVE  Known'
  BY <1>9 DEF CloseSocket, Closed, RemoveSession, Leave
<1>10. CASE UNCHANGED vars
  BY <1>10 DEF vars, roomVars, ownVars, castVars, killVars
<1> QED
  BY <1>1, <1>2, <1>3, <1>4, <1>5, <1>6, <1>7, <1>8, <1>9, <1>10 DEF Next, Callback

LEMMA JoinedStep ==
  ASSUME TypeOK, Known, Joined, [Next]_vars
  PROVE  Joined'
<1> USE ConstantsAssumption DEF TypeOK, Labels, Goto, Hold, Listed, roomVars, ownVars,
    castVars, killVars, Return, Bidding, Casting, Known, Joined, FreshRooms
<1>1. ASSUME NEW s \in Sessions, Register(s) PROVE Joined'
  <2>1. ArenaOf[s] \in Arenas
    OBVIOUS
  <2>2. CASE Listed(s) # NoRoom
    BY <1>1, <2>1, <2>2 DEF Register
  <2>3. CASE Listed(s) = NoRoom
    <3>1. PICK r \in FreshRooms : /\ arenas' = [arenas EXCEPT ![ArenaOf[s]] = r]
                                  /\ room' = [room EXCEPT ![r] = {}]
                                  /\ Hold(s, r)
      BY <1>1, <2>3 DEF Register
    <3>2. r \in Rooms
      BY DEF FreshRooms
    <3> QED
      BY <1>1, <2>1, <2>3, <3>1, <3>2 DEF Register
  <2> QED
    BY <2>2, <2>3
<1>2. ASSUME NEW s \in Sessions, AddSession(s) PROVE Joined'
  BY <1>2 DEF AddSession
<1>3. ASSUME NEW s \in Sessions, RemoveSession(s) PROVE Joined'
  BY <1>3 DEF RemoveSession
<1>4. ASSUME NEW s \in Sessions, DropRoom(s) PROVE Joined'
  BY <1>4 DEF DropRoom
<1>5. ASSUME NEW s \in Sessions,
             LogJoin(s) \/ Receive(s) \/ FindUser(s) \/ SaveUser(s) \/ RecordFails(s) \/ Lookup(s) \/ NextPeer(s) \/ SendTo(s)
      PROVE  Joined'
  BY <1>5 DEF LogJoin, Receive, ReceiveState, ReceiveKill, ReceiveOther, FindUser, SaveUser, RecordFails, Lookup, NextPeer, SendTo
<1>6. ASSUME NEW s \in Sessions,
             EndBroadcast(s) \/ SendFails(s) \/ CloseSocket(s) \/ Closed(s) \/ Unlist(s) \/ CheckEmpty(s) \/ Leave(s)
      PROVE  Joined'
  BY <1>6 DEF EndBroadcast, SendFails, CloseSocket, Closed, Unlist, CheckEmpty, Leave
<1>7. CASE UNCHANGED vars
  BY <1>7 DEF vars, roomVars, ownVars, castVars, killVars
<1> QED
  BY <1>1, <1>2, <1>3, <1>4, <1>5, <1>6, <1>7 DEF Next, Callback

LEMMA FrameStep ==
  ASSUME TypeOK, FrameInv, [Next]_vars
  PROVE  FrameInv'
<1> USE ConstantsAssumption DEF TypeOK, Labels, Goto, Hold, Listed, roomVars, ownVars,
    castVars, killVars, Return, Bidding, Casting, FrameInv
<1>1. ASSUME NEW s \in Sessions, Receive(s) PROVE FrameInv'
  BY <1>1 DEF Receive, ReceiveState, ReceiveKill, ReceiveOther
<1>2. ASSUME NEW s \in Sessions, Closed(s) PROVE FrameInv'
  BY <1>2 DEF Closed
<1>3. ASSUME NEW s \in Sessions, Lookup(s) PROVE FrameInv'
  BY <1>3 DEF Lookup
<1>4. ASSUME NEW s \in Sessions, EndBroadcast(s) \/ SendFails(s) PROVE FrameInv'
  BY <1>4 DEF EndBroadcast, SendFails
<1>5. ASSUME NEW s \in Sessions,
             \/ Register(s) \/ AddSession(s) \/ LogJoin(s)
             \/ FindUser(s) \/ SaveUser(s) \/ RecordFails(s) \/ NextPeer(s) \/ SendTo(s)
      PROVE  FrameInv'
  BY <1>5 DEF Register, AddSession, LogJoin, FindUser, SaveUser, RecordFails, NextPeer, SendTo
<1>6. ASSUME NEW s \in Sessions,
             CloseSocket(s) \/ Unlist(s) \/ RemoveSession(s) \/ CheckEmpty(s) \/ DropRoom(s) \/ Leave(s)
      PROVE  FrameInv'
  BY <1>6 DEF CloseSocket, Unlist, RemoveSession, CheckEmpty, DropRoom, Leave
<1>7. CASE UNCHANGED vars
  BY <1>7 DEF vars, roomVars, ownVars, castVars, killVars
<1> QED
  BY <1>1, <1>2, <1>3, <1>4, <1>5, <1>6, <1>7 DEF Next, Callback

LEMMA GhostStep ==
  ASSUME TypeOK, RoomsInv, FrameInv, GhostInv, [Next]_vars
  PROVE  GhostInv'
<1> USE ConstantsAssumption DEF TypeOK, Labels, Goto, Hold, Listed, roomVars, ownVars,
    castVars, killVars, Return, Bidding, Casting, RoomsInv, Known, Joined, FrameInv, GhostInv, InRoom, Leaving,
    FreshRooms
<1>1. ASSUME NEW s \in Sessions, Register(s) PROVE GhostInv'
  BY <1>1 DEF Register
<1>2. ASSUME NEW s \in Sessions, AddSession(s) PROVE GhostInv'
  BY <1>2 DEF AddSession
<1>3. ASSUME NEW s \in Sessions, Unlist(s) PROVE GhostInv'
  BY <1>3 DEF Unlist
<1>4. ASSUME NEW s \in Sessions, RemoveSession(s) PROVE GhostInv'
  BY <1>4 DEF RemoveSession
<1>5. ASSUME NEW s \in Sessions, CheckEmpty(s) PROVE GhostInv'
  BY <1>5 DEF CheckEmpty
<1>6. ASSUME NEW s \in Sessions, DropRoom(s) PROVE GhostInv'
  BY <1>6 DEF DropRoom
<1>7. ASSUME NEW s \in Sessions, Leave(s) PROVE GhostInv'
  BY <1>7 DEF Leave
<1>8. ASSUME NEW s \in Sessions, Lookup(s) PROVE GhostInv'
  BY <1>8 DEF Lookup
<1>9. ASSUME NEW s \in Sessions, EndBroadcast(s) \/ SendFails(s) PROVE GhostInv'
  BY <1>9 DEF EndBroadcast, SendFails
<1>10. ASSUME NEW s \in Sessions,
             LogJoin(s) \/ Receive(s) \/ FindUser(s) \/ SaveUser(s) \/ RecordFails(s) \/ NextPeer(s) \/ SendTo(s)
      PROVE  GhostInv'
  BY <1>10 DEF LogJoin, Receive, ReceiveState, ReceiveKill, ReceiveOther, FindUser, SaveUser, RecordFails, NextPeer, SendTo
<1>11. ASSUME NEW s \in Sessions, CloseSocket(s) \/ Closed(s) PROVE GhostInv'
  BY <1>11 DEF CloseSocket, Closed
<1>12. CASE UNCHANGED vars
  BY <1>12 DEF vars, roomVars, ownVars, castVars, killVars
<1> QED
  BY <1>1, <1>2, <1>3, <1>4, <1>5, <1>6, <1>7, <1>8, <1>9, <1>10, <1>11, <1>12 DEF Next,
      Callback

LEMMA EmptyStep ==
  ASSUME TypeOK, RoomsInv, EmptyInv, [Next]_vars
  PROVE  EmptyInv'
<1> USE ConstantsAssumption DEF TypeOK, Labels, Goto, Hold, Listed, roomVars, ownVars,
    castVars, killVars, Return, Bidding, Casting, RoomsInv, Known, EmptyInv, Keeper, FreshRooms
<1>1. ASSUME NEW s \in Sessions, Register(s) PROVE EmptyInv'
  BY <1>1 DEF Register
<1>2. ASSUME NEW s \in Sessions, AddSession(s) PROVE EmptyInv'
  <2> SUFFICES ASSUME NEW a \in Arenas, arenas'[a] # NoRoom, room'[arenas'[a]] = {}
               PROVE  \E q \in Sessions : Keeper(q, a)'
    BY DEF EmptyInv
  <2>1. /\ arenas'[a] = arenas[a] /\ arenas[a] \in Rooms /\ ref[s] \in Rooms
        /\ room' = [room EXCEPT ![ref[s]] = @ \cup {s}]
    BY <1>2 DEF AddSession
  <2>2. arenas[a] # ref[s] /\ room[arenas[a]] = {}
    BY <2>1
  <2>3. PICK q \in Sessions : Keeper(q, a)
    BY <2>1, <2>2
  <2>4. q # s
    BY <1>2, <2>2, <2>3 DEF AddSession
  <2>5. UNCHANGED <<pc[q], ref[q]>>
    BY <1>2, <2>4 DEF AddSession
  <2> QED
    BY <2>1, <2>3, <2>5
<1>3. ASSUME NEW s \in Sessions, Unlist(s) PROVE EmptyInv'
  BY <1>3 DEF Unlist
<1>4. ASSUME NEW s \in Sessions, RemoveSession(s) PROVE EmptyInv'
  BY <1>4 DEF RemoveSession
<1>5. ASSUME NEW s \in Sessions, CheckEmpty(s) PROVE EmptyInv'
  BY <1>5 DEF CheckEmpty
<1>6. ASSUME NEW s \in Sessions, DropRoom(s) PROVE EmptyInv'
  BY <1>6 DEF DropRoom
<1>7. ASSUME NEW s \in Sessions, Lookup(s) PROVE EmptyInv'
  BY <1>7 DEF Lookup
<1>8. ASSUME NEW s \in Sessions, EndBroadcast(s) \/ SendFails(s) PROVE EmptyInv'
  BY <1>8 DEF EndBroadcast, SendFails
<1>9. ASSUME NEW s \in Sessions,
             LogJoin(s) \/ Receive(s) \/ FindUser(s) \/ SaveUser(s) \/ RecordFails(s) \/ NextPeer(s) \/ SendTo(s)
      PROVE  EmptyInv'
  BY <1>9 DEF LogJoin, Receive, ReceiveState, ReceiveKill, ReceiveOther, FindUser, SaveUser, RecordFails, NextPeer, SendTo
<1>10. ASSUME NEW s \in Sessions, CloseSocket(s) \/ Closed(s) \/ Leave(s) PROVE EmptyInv'
  BY <1>10 DEF CloseSocket, Closed, Leave
<1>11. CASE UNCHANGED vars
  BY <1>11 DEF vars, roomVars, ownVars, castVars, killVars
<1> QED
  BY <1>1, <1>2, <1>3, <1>4, <1>5, <1>6, <1>7, <1>8, <1>9, <1>10, <1>11 DEF Next, Callback

LEMMA CastStep ==
  ASSUME TypeOK, RoomsInv, CastInv, [Next]_vars
  PROVE  CastInv'
<1> USE ConstantsAssumption DEF TypeOK, Labels, Goto, Hold, Listed, roomVars, ownVars,
    castVars, killVars, Return, Bidding, Casting, RoomsInv, Known, Joined, CastInv, Owed, FreshRooms
<1>1. ASSUME NEW s \in Sessions, Register(s) PROVE CastInv'
  <2>1. ArenaOf[s] \in Arenas
    OBVIOUS
  <2>2. CASE Listed(s) # NoRoom
    BY <1>1, <2>1, <2>2 DEF Register
  <2>3. CASE Listed(s) = NoRoom
    <3>1. PICK r \in FreshRooms : /\ arenas' = [arenas EXCEPT ![ArenaOf[s]] = r]
                                  /\ room' = [room EXCEPT ![r] = {}]
                                  /\ Hold(s, r)
      BY <1>1, <2>3 DEF Register
    <3>2. r \in Rooms
      BY DEF FreshRooms
    <3> QED
      BY <1>1, <2>1, <2>3, <3>1, <3>2 DEF Register
  <2> QED
    BY <2>2, <2>3
<1>2. ASSUME NEW s \in Sessions, AddSession(s) PROVE CastInv'
  BY <1>2 DEF AddSession
<1>3. ASSUME NEW s \in Sessions, Lookup(s) PROVE CastInv'
  BY <1>3 DEF Lookup
<1>4. ASSUME NEW s \in Sessions, NextPeer(s) \/ SendTo(s) PROVE CastInv'
  BY <1>4 DEF NextPeer, SendTo
<1>5. ASSUME NEW s \in Sessions, EndBroadcast(s) \/ SendFails(s) PROVE CastInv'
  BY <1>5 DEF EndBroadcast, SendFails
<1>6. ASSUME NEW s \in Sessions, RemoveSession(s) PROVE CastInv'
  BY <1>6 DEF RemoveSession
<1>7. ASSUME NEW s \in Sessions, Unlist(s) \/ CheckEmpty(s) \/ DropRoom(s) \/ Leave(s) PROVE CastInv'
  BY <1>7 DEF Unlist, CheckEmpty, DropRoom, Leave
<1>8. ASSUME NEW s \in Sessions,
             LogJoin(s) \/ Receive(s) \/ FindUser(s) \/ SaveUser(s) \/ RecordFails(s) \/ CloseSocket(s) \/ Closed(s)
      PROVE  CastInv'
  BY <1>8 DEF LogJoin, Receive, ReceiveState, ReceiveKill, ReceiveOther, FindUser, SaveUser, RecordFails, CloseSocket, Closed
<1>9. CASE UNCHANGED vars
  BY <1>9 DEF vars, roomVars, ownVars, castVars, killVars
<1> QED
  BY <1>1, <1>2, <1>3, <1>4, <1>5, <1>6, <1>7, <1>8, <1>9 DEF Next, Callback

LEMMA CutStep ==
  ASSUME TypeOK, CastInv, CutInv, [Next]_vars
  PROVE  CutInv'
<1> USE ConstantsAssumption DEF TypeOK, Labels, Goto, Hold, Listed, roomVars, ownVars,
    castVars, killVars, Return, Bidding, Casting, CastInv, Owed, CutInv
<1>1. ASSUME NEW s \in Sessions, Register(s) \/ AddSession(s) \/ LogJoin(s) PROVE CutInv'
  BY <1>1 DEF Register, AddSession, LogJoin
<1>2. ASSUME NEW s \in Sessions, Receive(s) PROVE CutInv'
  BY <1>2 DEF Receive, ReceiveState, ReceiveKill, ReceiveOther
<1>3. ASSUME NEW s \in Sessions, FindUser(s) \/ SaveUser(s) \/ RecordFails(s) PROVE CutInv'
  BY <1>3 DEF FindUser, SaveUser, RecordFails
<1>4. ASSUME NEW s \in Sessions, Lookup(s) PROVE CutInv'
  BY <1>4 DEF Lookup
<1>5. ASSUME NEW s \in Sessions, NextPeer(s) \/ SendTo(s) \/ EndBroadcast(s) PROVE CutInv'
  BY <1>5 DEF NextPeer, SendTo, EndBroadcast
<1>6. ASSUME NEW s \in Sessions, SendFails(s) PROVE CutInv'
  BY <1>6 DEF SendFails
<1>7. ASSUME NEW s \in Sessions, CloseSocket(s) \/ Closed(s) \/ Unlist(s) PROVE CutInv'
  BY <1>7 DEF CloseSocket, Closed, Unlist
<1>8. ASSUME NEW s \in Sessions, RemoveSession(s) \/ CheckEmpty(s) \/ DropRoom(s) PROVE CutInv'
  BY <1>8 DEF RemoveSession, CheckEmpty, DropRoom
<1>9. ASSUME NEW s \in Sessions, Leave(s) PROVE CutInv'
  BY <1>9 DEF Leave
<1>10. CASE UNCHANGED vars
  BY <1>10 DEF vars, roomVars, ownVars, castVars, killVars
<1> QED
  BY <1>1, <1>2, <1>3, <1>4, <1>5, <1>6, <1>7, <1>8, <1>9, <1>10 DEF Next, Callback

-----------------------------------------------------------------------------
(* The ledger *)

\* A recordKill ends, one way or another.
LEMMA OneFewer ==
  ASSUME TypeOK, KillInv, NEW s \in Sessions, UnderWay(s), NEW p, p = PlayerOf[s],
         Recorders(p)' = Recorders(p) \ {s}
  PROVE  /\ p \in Players /\ s \in Recorders(p)
         /\ IsFiniteSet(Recorders(p)') /\ Cardinality(Recorders(p)') \in Nat
         /\ Cardinality(Recorders(p)) = Cardinality(Recorders(p)') + 1
<1>1. p \in Players /\ s \in Recorders(p)
  BY ConstantsAssumption DEF Recorders
<1>2. IsFiniteSet(Recorders(p))
  BY <1>1 DEF KillInv
<1>3. /\ IsFiniteSet(Recorders(p) \ {s})
      /\ Cardinality(Recorders(p) \ {s}) = Cardinality(Recorders(p)) - 1
  BY <1>1, <1>2, FS_RemoveElement
<1>4. Cardinality(Recorders(p)) \in Nat /\ Cardinality(Recorders(p) \ {s}) \in Nat
  BY <1>2, <1>3, FS_CardinalityType
<1> QED
  BY <1>1, <1>3, <1>4

\* The steps that leave the ledger and those who report to it alone.
LEMMA KillKept ==
  ASSUME KillInv, UNCHANGED killVars,
         \A q \in Sessions : UnderWay(q)' = UnderWay(q) /\ (pc'[q] = "save" => pc[q] = "save")
  PROVE  KillInv'
<1>1. \A p \in Players : Recorders(p)' = Recorders(p)
  BY DEF Recorders
<1> QED
  BY <1>1 DEF KillInv, killVars, Recorders

LEMMA KillStep ==
  ASSUME TypeOK, KillInv, [Next]_vars
  PROVE  KillInv'
<1> USE ConstantsAssumption DEF TypeOK, Labels, Goto, Hold, Listed, roomVars, ownVars,
    castVars, killVars, Return, Bidding, Casting
<1>1. ASSUME NEW s \in Sessions, ReceiveKill(s) PROVE KillInv'
  <2> DEFINE q == PlayerOf[s]
  <2>1. s \notin Recorders(q) /\ q \in Players
    BY <1>1 DEF ReceiveKill, Recorders, UnderWay
  <2>2. Recorders(q)' = Recorders(q) \cup {s}
    BY <1>1 DEF ReceiveKill, Recorders, UnderWay
  <2>3. /\ IsFiniteSet(Recorders(q)) /\ IsFiniteSet(Recorders(q)')
        /\ Cardinality(Recorders(q)') = Cardinality(Recorders(q)) + 1
    BY <2>1, <2>2, FS_AddElement DEF KillInv
  <2>4. Cardinality(Recorders(q)) \in Nat
    BY <2>3, FS_CardinalityType
  <2>5. \A p \in Players : p # q => Recorders(p)' = Recorders(p)
    BY <1>1 DEF ReceiveKill, Recorders, UnderWay
  <2>6. /\ claimed'[q] = claimed[q] + 1 /\ \A p \in Players : p # q => claimed'[p] = claimed[p]
        /\ UNCHANGED <<kills, read>>
        /\ \A x \in Sessions : pc'[x] = "save" => pc[x] = "save" /\ x # s
    BY <1>1, <2>1 DEF ReceiveKill
  <2> SUFFICES ASSUME NEW p \in Players
      PROVE  /\ IsFiniteSet(Recorders(p))'
             /\ (kills[p] + Cardinality(Recorders(p)) <= claimed[p])'
             /\ p \notin Accounts => kills'[p] = 0
             /\ \A x \in Recorders(p)' : pc'[x] = "save" =>
                   p \in Accounts /\ (read[x] + Cardinality(Recorders(p)) <= claimed[p])'
    BY DEF KillInv
  <2>7. CASE p = q
    <3>1. /\ kills[q] + Cardinality(Recorders(q)) <= claimed[q] /\ (q \notin Accounts => kills[q] = 0)
          /\ kills[q] \in Nat /\ claimed[q] \in Nat
      BY <2>1 DEF KillInv
    <3>2. ASSUME NEW x \in Recorders(q)', pc'[x] = "save"
          PROVE  q \in Accounts /\ (read[x] + Cardinality(Recorders(q)) <= claimed[q])'
      <4>1. x \in Recorders(q) /\ pc[x] = "save" /\ read[x] \in Nat
        BY <2>2, <2>6, <3>2 DEF Recorders
      <4>2. q \in Accounts /\ read[x] + Cardinality(Recorders(q)) <= claimed[q]
        BY <2>1, <4>1 DEF KillInv
      <4> QED
        BY <2>3, <2>4, <2>6, <3>1, <4>1, <4>2
    <3> QED
      BY <2>3, <2>4, <2>6, <2>7, <3>1, <3>2
  <2>8. CASE p # q
    <3>1. Recorders(p)' = Recorders(p) /\ claimed'[p] = claimed[p] /\ UNCHANGED <<kills, read>>
      BY <2>5, <2>6, <2>8
    <3>2. \A x \in Recorders(p) : x \in Sessions /\ (pc'[x] = "save" => pc[x] = "save")
      BY <2>6 DEF Recorders
    <3> QED
      BY <3>1, <3>2 DEF KillInv
  <2> QED
    BY <2>7, <2>8
<1>2. ASSUME NEW s \in Sessions, FindUser(s), PlayerOf[s] \in Accounts PROVE KillInv'
  <2> DEFINE q == PlayerOf[s]
  <2>1. \A p \in Players : Recorders(p)' = Recorders(p)
    BY <1>2 DEF FindUser, Recorders, UnderWay
  <2>2. /\ UNCHANGED <<kills, claimed>> /\ read'[s] = kills[q]
        /\ \A x \in Sessions : x # s => read'[x] = read[x] /\ pc'[x] = pc[x]
    BY <1>2 DEF FindUser
  <2>3. \A p \in Players : \A x \in Recorders(p) : x = s => p = q
    BY DEF Recorders
  <2>4. \A p \in Players : Recorders(p) \subseteq Sessions
    BY DEF Recorders
  <2> QED
    BY <1>2, <2>1, <2>2, <2>3, <2>4 DEF KillInv
\* The others end a recordKill, which counts its kill or not.
<1>3. ASSUME NEW s \in Sessions, UnderWay(s), ~UnderWay(s)', UNCHANGED claimed,
             \A x \in Sessions \ {s} : pc'[x] = pc[x] /\ read'[x] = read[x],
             \/ UNCHANGED kills
             \/ pc[s] = "save" /\ kills' = [kills EXCEPT ![PlayerOf[s]] = read[s] + 1]
      PROVE  KillInv'
  <2> DEFINE q == PlayerOf[s]
  <2>1. Recorders(q)' = Recorders(q) \ {s}
    BY <1>3 DEF Recorders, UnderWay
  <2> DEFINE n == Cardinality(Recorders(q)')
             m == Cardinality(Recorders(q))
  <2>2. /\ n \in Nat /\ m = n + 1
        /\ q \in Players /\ s \in Recorders(q) /\ IsFiniteSet(Recorders(q)')
    BY <1>3, <2>1, OneFewer
  <2>3. \A p \in Players : p # q => Recorders(p)' = Recorders(p)
    BY <1>3 DEF Recorders, UnderWay
  <2>4. \A p \in Players : Recorders(p)' \subseteq Sessions \ {s} /\ Recorders(p)' \subseteq Recorders(p)
    BY <1>3, <2>1, <2>3 DEF Recorders
  <2>5. /\ kills[q] + m <= claimed[q] /\ (q \notin Accounts => kills[q] = 0)
        /\ pc[s] = "save" => q \in Accounts /\ read[s] + m <= claimed[q]
        /\ kills[q] \in Nat /\ claimed[q] \in Nat /\ read[s] \in Nat
    BY <2>2 DEF KillInv
  <2>6. kills'[q] + n <= claimed[q] /\ (q \notin Accounts => kills'[q] = 0)
    BY <1>3, <2>2, <2>5
  <2> SUFFICES ASSUME NEW p \in Players
      PROVE  /\ IsFiniteSet(Recorders(p))'
             /\ (kills[p] + Cardinality(Recorders(p)) <= claimed[p])'
             /\ p \notin Accounts => kills'[p] = 0
             /\ \A x \in Recorders(p)' : pc'[x] = "save" =>
                   p \in Accounts /\ (read[x] + Cardinality(Recorders(p)) <= claimed[p])'
    BY DEF KillInv
  <2>7. CASE p = q
    <3>1. ASSUME NEW x \in Recorders(q)', pc'[x] = "save"
          PROVE  q \in Accounts /\ read'[x] + n <= claimed[q]
      <4>1. x \in Recorders(q) /\ pc[x] = "save" /\ read'[x] = read[x] /\ read[x] \in Nat
        BY <1>3, <2>2, <2>4, <3>1
      <4>2. q \in Accounts /\ read[x] + m <= claimed[q]
        BY <2>2, <4>1 DEF KillInv
      <4> QED
        BY <2>2, <2>5, <4>1, <4>2
    <3> QED
      BY <1>3, <2>2, <2>6, <2>7, <3>1
  <2>8. CASE p # q
    <3>1. Recorders(p)' = Recorders(p) /\ kills'[p] = kills[p] /\ claimed' = claimed
      BY <1>3, <2>2, <2>3, <2>8
    <3>2. \A x \in Recorders(p) : pc'[x] = pc[x] /\ read'[x] = read[x]
      BY <1>3, <2>4, <3>1
    <3> QED
      BY <3>1, <3>2 DEF KillInv
  <2> QED
    BY <2>7, <2>8
<1>4. ASSUME NEW s \in Sessions, FindUser(s), PlayerOf[s] \notin Accounts PROVE KillInv'
  <2>1. UnderWay(s) /\ ~UnderWay(s)' /\ UNCHANGED <<kills, read, claimed>>
    BY <1>4 DEF FindUser, UnderWay
  <2>2. \A x \in Sessions \ {s} : pc'[x] = pc[x] /\ read'[x] = read[x]
    BY <1>4 DEF FindUser
  <2> QED
    BY <1>3, <2>1, <2>2
<1>5. ASSUME NEW s \in Sessions, SaveUser(s) PROVE KillInv'
  <2>1. UnderWay(s) /\ ~UnderWay(s)' /\ UNCHANGED claimed
    BY <1>5 DEF SaveUser, UnderWay
  <2>2. \A x \in Sessions \ {s} : pc'[x] = pc[x] /\ read'[x] = read[x]
    BY <1>5 DEF SaveUser
  <2>3. pc[s] = "save" /\ kills' = [kills EXCEPT ![PlayerOf[s]] = read[s] + 1]
    BY <1>5 DEF SaveUser
  <2> QED
    BY <1>3, <2>1, <2>2, <2>3
<1>6. ASSUME NEW s \in Sessions, RecordFails(s) PROVE KillInv'
  <2>1. UnderWay(s) /\ ~UnderWay(s)' /\ UNCHANGED <<kills, claimed>>
    BY <1>6 DEF RecordFails, UnderWay
  <2>2. \A x \in Sessions \ {s} : pc'[x] = pc[x] /\ read'[x] = read[x]
    BY <1>6 DEF RecordFails
  <2> QED
    BY <1>3, <2>1, <2>2
<1>7. ASSUME NEW s \in Sessions,
             \/ Register(s) \/ AddSession(s) \/ LogJoin(s) \/ ReceiveState(s) \/ ReceiveOther(s)
             \/ Lookup(s) \/ NextPeer(s) \/ SendTo(s) \/ SendFails(s) \/ EndBroadcast(s)
      PROVE  KillInv'
  BY <1>7, KillKept DEF UnderWay, Register, AddSession, LogJoin, ReceiveState, ReceiveOther,
      Lookup, NextPeer, SendTo, SendFails, EndBroadcast
<1>8. ASSUME NEW s \in Sessions,
             \/ CloseSocket(s) \/ Closed(s) \/ Unlist(s) \/ RemoveSession(s)
             \/ CheckEmpty(s) \/ DropRoom(s) \/ Leave(s)
      PROVE  KillInv'
  BY <1>8, KillKept DEF UnderWay, CloseSocket, Closed, Unlist, RemoveSession, CheckEmpty,
      DropRoom, Leave
<1>9. CASE UNCHANGED vars
  BY <1>9, KillKept DEF vars, UnderWay
<1> QED
  BY <1>1, <1>2, <1>4, <1>5, <1>6, <1>7, <1>8, <1>9 DEF Next, Callback, Receive

\* Whoever is recording has one kill more to its name than the ledger holds.
LEMMA OneMoreClaimed ==
  ASSUME TypeOK, KillInv, NEW s \in Sessions
  PROVE  /\ PlayerOf[s] \in Players /\ kills[PlayerOf[s]] <= claimed[PlayerOf[s]]
         /\ UnderWay(s) => kills[PlayerOf[s]] < claimed[PlayerOf[s]]
<1> DEFINE p == PlayerOf[s]
<1>1. p \in Players /\ kills[p] \in Nat /\ claimed[p] \in Nat
  BY ConstantsAssumption DEF TypeOK
<1>2. IsFiniteSet(Recorders(p)) /\ kills[p] + Cardinality(Recorders(p)) <= claimed[p]
  BY <1>1 DEF KillInv
<1>3. Cardinality(Recorders(p)) \in Nat /\ (Cardinality(Recorders(p)) = 0 <=> Recorders(p) = {})
  BY <1>2, FS_CardinalityType, FS_EmptySet
<1>4. UnderWay(s) => s \in Recorders(p)
  BY DEF Recorders
<1> QED
  BY <1>1, <1>2, <1>3, <1>4

LEMMA SoleStep ==
  ASSUME TypeOK, KillInv, KillInv', TypeOK', SoleInv, [Next]_vars
  PROVE  SoleInv'
<1>0. \A q \in Sessions : /\ kills[PlayerOf[q]] <= claimed[PlayerOf[q]]
                          /\ UnderWay(q) => kills[PlayerOf[q]] < claimed[PlayerOf[q]]
                          /\ kills'[PlayerOf[q]] <= claimed'[PlayerOf[q]]
  <2>1. \A q \in Sessions : /\ kills[PlayerOf[q]] <= claimed[PlayerOf[q]]
                            /\ UnderWay(q) => kills[PlayerOf[q]] < claimed[PlayerOf[q]]
    BY OneMoreClaimed
  <2>2. ASSUME NEW q \in Sessions PROVE kills'[PlayerOf[q]] <= claimed'[PlayerOf[q]]
    <3> DEFINE p == PlayerOf[q]
    <3>1. p \in Players /\ kills'[p] \in Nat /\ claimed'[p] \in Nat
      BY ConstantsAssumption DEF TypeOK
    <3>2. IsFiniteSet(Recorders(p)') /\ kills'[p] + Cardinality(Recorders(p)') <= claimed'[p]
      BY <3>1 DEF KillInv
    <3>3. Cardinality(Recorders(p)') \in Nat
      BY <3>2, FS_CardinalityType
    <3> QED
      BY <3>1, <3>2, <3>3
  <2> QED
    BY <2>1, <2>2
<1> USE ConstantsAssumption DEF TypeOK, Labels, Goto, Hold, Listed, roomVars, ownVars,
    castVars, killVars, Return, Bidding, Casting, SoleInv, SolePlayer, UnderWay
<1>1. ASSUME NEW s \in Sessions, Register(s) PROVE SoleInv'
  BY <1>1 DEF Register
<1>2. ASSUME NEW s \in Sessions, ReceiveKill(s) PROVE SoleInv'
  BY <1>2 DEF ReceiveKill
<1>3. ASSUME NEW s \in Sessions, FindUser(s) PROVE SoleInv'
  BY <1>3 DEF FindUser
<1>4. ASSUME NEW s \in Sessions, SaveUser(s) PROVE SoleInv'
  BY <1>0, <1>4 DEF SaveUser
<1>5. ASSUME NEW s \in Sessions, RecordFails(s) PROVE SoleInv'
  BY <1>5 DEF RecordFails
<1>6. ASSUME NEW s \in Sessions,
             AddSession(s) \/ LogJoin(s) \/ ReceiveState(s) \/ ReceiveOther(s)
      PROVE  SoleInv'
  BY <1>6 DEF AddSession, LogJoin, ReceiveState, ReceiveOther
<1>7. ASSUME NEW s \in Sessions,
             Lookup(s) \/ NextPeer(s) \/ SendTo(s) \/ SendFails(s) \/ EndBroadcast(s)
      PROVE  SoleInv'
  BY <1>7 DEF Lookup, NextPeer, SendTo, SendFails, EndBroadcast
<1>8. ASSUME NEW s \in Sessions,
             \/ CloseSocket(s) \/ Closed(s) \/ Unlist(s) \/ RemoveSession(s)
             \/ CheckEmpty(s) \/ DropRoom(s) \/ Leave(s)
      PROVE  SoleInv'
  BY <1>8 DEF CloseSocket, Closed, Unlist, RemoveSession, CheckEmpty, DropRoom, Leave
<1>9. CASE UNCHANGED vars
  BY <1>9 DEF vars
<1> QED
  BY <1>1, <1>2, <1>3, <1>4, <1>5, <1>6, <1>7, <1>8, <1>9 DEF Next, Callback, Receive

-----------------------------------------------------------------------------
(* The farewells *)

LEMMA ShowStep ==
  ASSUME IInv, [Next]_vars
  PROVE  ShowInv'
<1> USE ConstantsAssumption DEF TypeOK, Labels, Goto, Hold, Listed, roomVars, ownVars,
    castVars, killVars, Return, Bidding, Casting, IInv, RoomsInv, CloseInv, Known, Joined,
    FrameInv, CastInv, ShowInv, InRoom, Owed, Owes, FreshRooms, Shown
<1>1. ASSUME NEW s \in Sessions, Register(s) PROVE ShowInv'
  BY <1>1 DEF Register
<1>2. ASSUME NEW s \in Sessions, AddSession(s) PROVE ShowInv'
  BY <1>2 DEF AddSession
<1>3. ASSUME NEW s \in Sessions, SendTo(s) PROVE ShowInv'
  BY <1>3 DEF SendTo
<1>4. ASSUME NEW s \in Sessions, Lookup(s) PROVE ShowInv'
  BY <1>4 DEF Lookup
<1>5. ASSUME NEW s \in Sessions, EndBroadcast(s) \/ SendFails(s) PROVE ShowInv'
  BY <1>5 DEF EndBroadcast, SendFails
<1>6. ASSUME NEW s \in Sessions, Receive(s) PROVE ShowInv'
  BY <1>6 DEF Receive, ReceiveState, ReceiveKill, ReceiveOther
<1>7. ASSUME NEW s \in Sessions, Closed(s) PROVE ShowInv'
  BY <1>7 DEF Closed
<1>8. ASSUME NEW s \in Sessions, Leave(s) PROVE ShowInv'
  BY <1>8 DEF Leave
<1>9. ASSUME NEW s \in Sessions,
             LogJoin(s) \/ FindUser(s) \/ SaveUser(s) \/ RecordFails(s) \/ NextPeer(s)
      PROVE  ShowInv'
  BY <1>9 DEF LogJoin, FindUser, SaveUser, RecordFails, NextPeer
<1>10. ASSUME NEW s \in Sessions,
             CloseSocket(s) \/ Unlist(s) \/ RemoveSession(s) \/ CheckEmpty(s) \/ DropRoom(s)
      PROVE  ShowInv'
  BY <1>10 DEF CloseSocket, Unlist, RemoveSession, CheckEmpty, DropRoom
<1>11. CASE UNCHANGED vars
  BY <1>11 DEF vars, roomVars, ownVars, castVars, killVars
<1> QED
  BY <1>1, <1>2, <1>3, <1>4, <1>5, <1>6, <1>7, <1>8, <1>9, <1>10, <1>11 DEF Next, Callback

-----------------------------------------------------------------------------
(* The theorems *)

LEMMA IInit == Init => IInv
<1> SUFFICES ASSUME Init PROVE IInv
  OBVIOUS
<1> USE ConstantsAssumption DEF Init
<1>1. TypeOK
  BY DEF TypeOK, Frames, Labels
<1>2. RoomsInv
  BY DEF RoomsInv, Known, Joined
<1>3. CloseInv
  BY DEF CloseInv, FrameInv, GhostInv, EmptyInv, Leaving, InRoom, Listed
<1>4. CastInv /\ CutInv /\ ShowInv /\ SoleInv
  BY DEF CastInv, CutInv, ShowInv, SoleInv, Casting, UnderWay
<1>5. KillInv
  <2> SUFFICES ASSUME NEW p \in Players
               PROVE  /\ IsFiniteSet(Recorders(p))
                      /\ kills[p] + Cardinality(Recorders(p)) <= claimed[p]
                      /\ kills[p] = 0 /\ Recorders(p) = {}
    BY DEF KillInv
  <2>1. Recorders(p) = {}
    BY DEF Recorders, UnderWay
  <2>2. IsFiniteSet(Recorders(p)) /\ Cardinality(Recorders(p)) = 0
    BY <2>1, FS_EmptySet
  <2>3. kills[p] = 0 /\ claimed[p] = 0
    OBVIOUS
  <2> QED
    BY <2>1, <2>2, <2>3
<1> QED
  BY <1>1, <1>2, <1>3, <1>4, <1>5 DEF IInv

LEMMA IStep == ASSUME IInv, [Next]_vars PROVE IInv'
<1>1. TypeOK' /\ RoomsInv'
  BY TypeStep, KnownStep, JoinedStep DEF IInv, RoomsInv
<1>2. CloseInv'
  BY FrameStep, GhostStep, EmptyStep DEF IInv, CloseInv
<1>3. CastInv' /\ CutInv' /\ ShowInv'
  BY CastStep, CutStep, ShowStep DEF IInv
<1>4. KillInv' /\ SoleInv'
  BY <1>1, KillStep, SoleStep DEF IInv
<1> QED
  BY <1>1, <1>2, <1>3, <1>4 DEF IInv

LEMMA Inductive == Spec => []IInv
<1>1. IInv /\ [Next]_vars => IInv'
  BY IStep
<1> QED
  BY IInit, <1>1, PTL DEF Spec

\* A closed session is in no room a broadcast can find, and no empty room is
\* left behind in the map of rooms, whatever joins and closes overlap.
THEOREM RoomsAreClean == Spec => []RoomsClean
<1>1. IInv => RoomsClean
  BY DEF IInv, CloseInv, GhostInv, EmptyInv, Keeper, RoomsClean, NoGhostSession,
      EmptyRoomIsDropped
<1> QED
  BY Inductive, <1>1, PTL

\* A client in its arena's room has dropped the ship of a pilot all of whose
\* sessions have left, unless a farewell met a closed peer before it.
THEOREM FarewellsHeard == Spec => []FarewellHeard
<1>1. IInv => FarewellHeard
  <2> SUFFICES ASSUME IInv, NEW r \in Sessions, NEW p \in Players, r \in open, InRoom(r),
                      Gone(p), p \in ships[r]
               PROVE  Missed(p, r)
    BY DEF FarewellHeard
  <2>1. PICK s \in Sessions : PlayerOf[s] = p /\ Owes(s, r)
    BY DEF IInv, ShowInv
  <2>2. pc[s] = "gone"
    BY <2>1 DEF Gone, Owes, IInv, CloseInv, FrameInv, Bidding
  <2>3. r \in todo[s]
    BY <2>1, <2>2 DEF Owes
  <2> QED
    BY <2>1, <2>2, <2>3 DEF Missed, CutOff, IInv, CutInv
<1> QED
  BY Inductive, <1>1, PTL

\* The ledger never holds more kills than were reported, however the reads and
\* writes of pilots interleave, and of an account with one session every one but
\* the one whose recording failed and closed it.
THEOREM KillsAreCredited == Spec => []KillsCredited
<1>1. IInv => KillsCredited
  <2> SUFFICES ASSUME IInv PROVE KillsCredited
    OBVIOUS
  <2>1. \A p \in Players : kills[p] <= claimed[p] /\ (p \notin Accounts => kills[p] = 0)
    <3> SUFFICES ASSUME NEW p \in Players PROVE kills[p] <= claimed[p] /\ (p \notin Accounts => kills[p] = 0)
      OBVIOUS
    <3>1. /\ IsFiniteSet(Recorders(p)) /\ kills[p] + Cardinality(Recorders(p)) <= claimed[p]
          /\ p \notin Accounts => kills[p] = 0
      BY DEF IInv, KillInv
    <3>2. Cardinality(Recorders(p)) \in Nat /\ kills[p] \in Nat /\ claimed[p] \in Nat
      BY <3>1, FS_CardinalityType DEF IInv, TypeOK
    <3> QED
      BY <3>1, <3>2
  <2> QED
    BY <2>1 DEF IInv, SoleInv, KillsCredited, UnderWay
<1> QED
  BY Inductive, <1>1, PTL
=============================================================================
