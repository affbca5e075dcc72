----------------------------- MODULE BackendProofs -----------------------------
(***************************************************************************)
(* Why no room holds more sessions than MAX_PER_ARENA, for any number of   *)
(* tabs, accounts, arenas and restarts, though the relay never counts.     *)
(*                                                                         *)
(* What is counted is not the sessions of a room but the tabs that hold    *)
(* its URL, whether they are in the room yet or not.  Either the           *)
(* matchmaker counts each of them, or they are what a restart has left     *)
(* over of an arena that was counted before, that is not listed, and that  *)
(* no request still running can add to.  HoldersInv speaks of Matchmaking  *)
(* alone, whose steps the trips only restrict; TripInv ties the sessions   *)
(* in the rooms to the tabs that hold seats.                               *)
(***************************************************************************)
EXTENDS Backend, MatchmakingProofs

\* Where a tab is on its trip: its seat outlives its socket, and a callback
\* holds a set object only between two steps on it.
Aboard ==
    \A t \in Tabs :
        /\ wire[t] # "none" => pc[t] = "seated"
        /\ page[t] = "panel" => pc[t] = "seated" /\ wire[t] = "none"
        /\ ref[t] # NoRoom => wire[t] \in {"add", "remove", "check"}
        /\ wire[t] \in {"add", "remove", "check"} => ref[t] \in Rooms

\* No set object is used for two arenas.
OneArenaEach ==
    /\ \A a, b \in Arenas : arenas[a] = arenas[b] /\ arenas[a] # NoRoom => a = b
    /\ \A a \in Arenas : \A t \in Tabs : ref[t] = arenas[a] /\ ref[t] # NoRoom => at[t] = a

\* Who is in a room holds its URL and has still to remove itself from it.
InPlace ==
    \A a \in Arenas : arenas[a] # NoRoom => \A t \in room[arenas[a]] :
        /\ t \in Tabs /\ at[t] = a /\ wire[t] \in {"log", "idle", "remove"}
        /\ wire[t] = "remove" => ref[t] = arenas[a]

TripInv == Aboard /\ OneArenaEach /\ InPlace

Holders(a) == {t \in Tabs : Placed(t) /\ at[t] = a}

Counted(a) == \A t \in Holders(a) : Callsign[t] \in members[a]

\* Nobody is sent to the arena any more.
Shunned(a) == a \notin listed /\ \A p \in Tabs : a \notin todo[p] /\ (pc[p] = "add" => at[p] # a)
Few(S) == IsFiniteSet(S) /\ Cardinality(S) <= MaxPerArena
HoldersInv ==
    OneTabPerUser => \A a \in Arenas : Counted(a) \/ (Shunned(a) /\ Few(Holders(a)))

TripIInv == TripTypeOK /\ IInv /\ TripInv /\ HoldersInv

-----------------------------------------------------------------------------
(* The matchmaker's part of a trip *)

LEMMA SeatSteps ==
  ASSUME TripNext \/ UNCHANGED tripVars
  PROVE  Restart \/ [Next]_vars
<1> USE DEF seatVars
<1>1. ASSUME NEW t \in Tabs, Request(t) PROVE [Next]_vars
  BY <1>1 DEF Request, Ask, Serve, Arrive, Lose, Next, Step, Tabs
<1>2. ASSUME NEW t \in Tabs, Visit(t) PROVE [Next]_vars
  BY <1>2 DEF Visit, Connect, FlyAlone, AddSession, LogJoin, SendFrame, Sever, Shut, Next, Step, Tabs
<1>3. ASSUME NEW t \in Tabs, Close(t) PROVE [Next]_vars
  BY <1>3 DEF Close, Closed, RemoveSession, CheckRoom, DropRoom, Depart, GiveBack, Next, Step, Tabs
<1>4. CASE UNCHANGED tripVars
  BY <1>4 DEF tripVars
<1> QED
  BY <1>1, <1>2, <1>3, <1>4 DEF TripNext

LEMMA SeatsKeptSafe == ASSUME TripTypeOK, IInv, [TripNext]_tripVars PROVE IInv'
<1>1. CASE [Next]_vars
  BY <1>1, TypeNext, ExclusionNext, WorkKnownNext, BoundsNext DEF IInv
<1>2. CASE Restart
  <2>1. TypeOK'
    BY <1>2, ConstantsAssumption DEF Restart, TypeOK, Labels, Keeps, Tabs, TripTypeOK
  <2>2. Exclusion' /\ SlotKept'
    BY <1>2 DEF Restart, Exclusion, SlotKept, InJoin, Tabs
  <2>3. WorkKnown'
    BY <1>2 DEF Restart, WorkKnown, IInv, Keeps, Tabs
  <2>4. CapacityBound'
    BY <1>2, FS_EmptySet, ConstantsAssumption DEF Restart, CapacityBound
  <2> QED
    BY <2>1, <2>2, <2>3, <2>4 DEF IInv
<1> QED
  BY <1>1, <1>2, SeatSteps

\* Fewer of a few are few.
LEMMA FewerAreFew == ASSUME NEW S, Few(S), NEW R, R \subseteq S PROVE Few(R)
<1>1. IsFiniteSet(R) /\ Cardinality(R) <= Cardinality(S)
  BY FS_Subset DEF Few
<1>2. Cardinality(R) \in Nat /\ Cardinality(S) \in Nat
  BY <1>1, FS_CardinalityType DEF Few
<1> QED
  BY <1>1, <1>2, ConstantsAssumption DEF Few

\* Those the matchmaker counts are no more than the names it holds.
LEMMA CountedAreFew ==
  ASSUME IInv, OneTabPerUser, NEW a \in Arenas, Counted(a)
  PROVE  Few(Holders(a))
<1>1. PICK f : f = [t \in Holders(a) |-> Callsign[t]]
  OBVIOUS
<1>2. PICK M, H : M = members[a] /\ H = Holders(a)
  OBVIOUS
<1>3. f \in Injection(H, M)
  BY <1>1, <1>2 DEF Counted, OneTabPerUser, Holders, Injection, IsInjective
<1>4. IsFiniteSet(M) /\ Cardinality(M) <= MaxPerArena
  BY <1>2, MembersFinite DEF IInv, CapacityBound
<1>5. IsFiniteSet(H) /\ Cardinality(H) <= Cardinality(M)
  BY <1>3, <1>4, FS_Injection
<1>6. Cardinality(H) \in Nat /\ Cardinality(M) \in Nat
  BY <1>4, <1>5, FS_CardinalityType
<1> QED
  BY <1>2, <1>4, <1>5, <1>6, ConstantsAssumption DEF Few

LEMMA HoldersAreFew ==
  ASSUME IInv, HoldersInv, OneTabPerUser, NEW a \in Arenas
  PROVE  Few(Holders(a))
  BY CountedAreFew DEF HoldersInv

\* Fewer who hold a URL, and the same names: nothing to count.
LEMMA FewerHolders ==
  ASSUME HoldersInv, UNCHANGED members,
         \A a \in Arenas : /\ Holders(a)' \subseteq Holders(a)
                           /\ Shunned(a) => Shunned(a)'
  PROVE  HoldersInv'
  BY FewerAreFew DEF HoldersInv, OneTabPerUser, Counted, Tabs

LEMMA HoldersStep == ASSUME IInv, HoldersInv, [Next]_vars PROVE HoldersInv'
<1> USE DEF Goto, Work, Tabs, Placed, Shunned
<1>0. TypeOK
  BY DEF IInv
<1>1. ASSUME NEW p \in Pilots, Enter(p) \/ PassOver(p) PROVE HoldersInv'
  <2>1. UNCHANGED members
    BY <1>1 DEF Enter, PassOver
  <2>2. \A a \in Arenas : Holders(a)' \subseteq Holders(a) /\ (Shunned(a) => Shunned(a)')
    BY <1>0, <1>1 DEF Enter, PassOver, Holders, TypeOK
  <2> QED
    BY <2>1, <2>2, FewerHolders
<1>2. ASSUME NEW p \in Pilots, PickArena(p) PROVE HoldersInv'
  <2>1. UNCHANGED members
    BY <1>2 DEF PickArena
  <2>2. \A a \in Arenas : Holders(a)' \subseteq Holders(a) /\ (Shunned(a) => Shunned(a)')
    BY <1>0, <1>2 DEF PickArena, Holders, TypeOK
  <2> QED
    BY <2>1, <2>2, FewerHolders
<1>3. ASSUME NEW p \in Pilots, AddMember(p) PROVE HoldersInv'
  <2>1. SUFFICES ASSUME OneTabPerUser, NEW a \in Arenas
                 PROVE  Counted(a)' \/ (Shunned(a)' /\ Few(Holders(a)'))
    BY DEF HoldersInv, OneTabPerUser
  <2>2. CASE at[p] = a
    <3>1. Counted(a)
      BY <1>3, <2>1, <2>2 DEF HoldersInv, AddMember
    <3>2. Holders(a)' \subseteq Holders(a) \cup {p}
      BY <1>0, <1>3 DEF AddMember, Holders, TypeOK
    <3>3. members'[a] = members[a] \cup {Callsign[p]}
      BY <1>0, <1>3, <2>2 DEF AddMember, TypeOK
    <3> QED
      BY <3>1, <3>2, <3>3 DEF Counted
  <2>3. CASE at[p] # a
    <3>1. Holders(a)' = Holders(a) /\ members'[a] = members[a]
      BY <1>0, <1>3, <2>3 DEF AddMember, Holders, TypeOK
    <3>2. Shunned(a) => Shunned(a)'
      BY <1>0, <1>3 DEF AddMember, TypeOK
    <3> QED
      BY <2>1, <3>1, <3>2 DEF HoldersInv, Counted
  <2> QED
    BY <2>2, <2>3
<1>4. ASSUME NEW p \in Pilots, NewArena(p) PROVE HoldersInv'
  <2>1. PICK b \in FreshIds : /\ members' = [members EXCEPT ![b] = {Callsign[p]}]
                              /\ listed' = listed \cup {b} /\ at' = [at EXCEPT ![p] = b]
    BY <1>4 DEF NewArena
  <2>2. SUFFICES ASSUME OneTabPerUser, NEW a \in Arenas
                 PROVE  Counted(a)' \/ (Shunned(a)' /\ Few(Holders(a)'))
    BY DEF HoldersInv, OneTabPerUser
  <2>3. CASE a = b
    <3>1. Holders(a)' \subseteq {p}
      BY <1>0, <1>4, <2>1, <2>3 DEF NewArena, Holders, FreshIds, TypeOK
    <3>2. members'[a] = {Callsign[p]}
      BY <1>0, <2>1, <2>3 DEF TypeOK
    <3> QED
      BY <3>1, <3>2 DEF Counted
  <2>4. CASE a # b
    <3>1. Holders(a)' = Holders(a) /\ members'[a] = members[a]
      BY <1>0, <1>4, <2>1, <2>4 DEF NewArena, Holders, TypeOK
    <3>2. Shunned(a) => Shunned(a)'
      BY <1>0, <1>4, <2>1, <2>4 DEF NewArena, TypeOK
    <3> QED
      BY <2>2, <3>1, <3>2 DEF HoldersInv, Counted
  <2> QED
    BY <2>3, <2>4
<1>5. ASSUME NEW p \in Pilots, SaveMatch(p) \/ Answer(p) \/ Abandon(p) \/ Leave(p)
      PROVE  HoldersInv'
  <2>1. UNCHANGED members
    BY <1>5 DEF SaveMatch, Answer, Abandon, Leave
  <2>2. \A a \in Arenas : Holders(a)' \subseteq Holders(a) /\ (Shunned(a) => Shunned(a)')
    BY <1>0, <1>5, ConstantsAssumption DEF SaveMatch, Answer, Abandon, Leave, Holders, TypeOK
  <2> QED
    BY <2>1, <2>2, FewerHolders
<1>6. ASSUME NEW p \in Pilots, RemoveMember(p) PROVE HoldersInv'
  <2>1. SUFFICES ASSUME OneTabPerUser, NEW a \in Arenas
                 PROVE  Counted(a)' \/ (Shunned(a)' /\ Few(Holders(a)'))
    BY DEF HoldersInv, OneTabPerUser
  <2>2. Holders(a)' = Holders(a) /\ (Shunned(a) => Shunned(a)')
    BY <1>0, <1>6 DEF RemoveMember, Holders, TypeOK
  <2>3. ASSUME Counted(a), NEW s \in Holders(a) PROVE Callsign[s] \in members'[a]
    <3>1. s \in Pilots /\ s # p
      BY <1>6, <2>3 DEF Holders, RemoveMember
    <3>2. Callsign[s] # Callsign[p] /\ Callsign[s] \in members[a]
      BY <2>1, <2>3, <3>1 DEF OneTabPerUser, Counted
    <3> QED
      BY <1>0, <1>6, <3>2 DEF RemoveMember, TypeOK
  <2> QED
    BY <2>1, <2>2, <2>3 DEF HoldersInv, Counted
<1>7. ASSUME NEW p \in Pilots, CheckEmpty(p) \/ DropArena(p) PROVE HoldersInv'
  <2>1. UNCHANGED members
    BY <1>7 DEF CheckEmpty, DropArena
  <2>2. \A a \in Arenas : Holders(a)' \subseteq Holders(a) /\ (Shunned(a) => Shunned(a)')
    BY <1>0, <1>7, ConstantsAssumption DEF CheckEmpty, DropArena, Holders, TypeOK
  <2> QED
    BY <2>1, <2>2, FewerHolders
<1>8. CASE UNCHANGED vars
  BY <1>8, FewerHolders DEF vars, Holders
<1> QED
  BY <1>1, <1>2, <1>3, <1>4, <1>5, <1>6, <1>7, <1>8 DEF Next, Step, Join

\* After a restart the tabs that still hold a URL are few, and nobody is sent
\* after them.
LEMMA HoldersRestart == ASSUME IInv, HoldersInv, Restart PROVE HoldersInv'
<1> SUFFICES ASSUME OneTabPerUser, NEW a \in Arenas PROVE Shunned(a)' /\ Few(Holders(a)')
  BY DEF HoldersInv, OneTabPerUser
<1>1. Holders(a)' \subseteq Holders(a)
  BY ConstantsAssumption DEF Restart, Keeps, Holders, Placed, Tabs
<1>2. Few(Holders(a)')
  BY <1>1, HoldersAreFew, FewerAreFew
<1>3. Shunned(a)'
  BY DEF Restart, Shunned, Tabs
<1> QED
  BY <1>2, <1>3

-----------------------------------------------------------------------------
(* The rooms *)

LEMMA TripTypeStep ==
  ASSUME TripTypeOK, IInv, TripInv, IInv', [TripNext]_tripVars PROVE TripTypeOK'
<1>0. TypeOK'
  BY DEF IInv
<1> USE TripAssumption DEF TripTypeOK, TripInv, Aboard, Stages, Tabs, Show, Turn, Hold, Listed,
    wireVars, roomVars
<1>1. ASSUME NEW t \in Tabs, Request(t) PROVE TripTypeOK'
  BY <1>0, <1>1 DEF Request, Ask, Serve, Arrive, Lose
<1>2. ASSUME NEW t \in Tabs, Connect(t) PROVE TripTypeOK'
  <2>1. at[t] \in Arenas
    BY <1>2 DEF Connect, IInv, WorkKnown
  <2> QED
    BY <1>0, <1>2, <2>1 DEF Connect, FreshRooms
<1>3. ASSUME NEW t \in Tabs, FlyAlone(t) \/ AddSession(t) \/ LogJoin(t) \/ SendFrame(t)
      PROVE  TripTypeOK'
  BY <1>0, <1>3 DEF FlyAlone, AddSession, LogJoin, SendFrame
<1>4. ASSUME NEW t \in Tabs, Sever(t) \/ Shut(t) PROVE TripTypeOK'
  BY <1>0, <1>4 DEF Sever, Shut
<1>5. ASSUME NEW t \in Tabs, Closed(t) PROVE TripTypeOK'
  <2>1. at[t] \in Arenas
    BY <1>5 DEF Closed, IInv, WorkKnown
  <2> QED
    BY <1>0, <1>5, <2>1 DEF Closed
<1>6. ASSUME NEW t \in Tabs, RemoveSession(t) \/ CheckRoom(t) PROVE TripTypeOK'
  BY <1>0, <1>6 DEF RemoveSession, CheckRoom
<1>7. ASSUME NEW t \in Tabs, DropRoom(t) \/ Depart(t) \/ GiveBack(t) PROVE TripTypeOK'
  BY <1>0, <1>7 DEF DropRoom, Depart, GiveBack
<1>8. CASE Restart
  BY <1>0, <1>8 DEF Restart
<1>9. CASE UNCHANGED tripVars
  BY <1>0, <1>9 DEF tripVars
<1> QED
  BY <1>1, <1>2, <1>3, <1>4, <1>5, <1>6, <1>7, <1>8, <1>9 DEF TripNext, Visit, Close

\* A request or a leaveArena moves only tabs without a socket.
LEMMA Elsewhere ==
  ASSUME TypeOK, Aboard, NEW t \in Tabs, pc[t] # "seated" \/ wire[t] = "none",
         \A s \in Tabs \ {t} : pc'[s] = pc[s] /\ at'[s] = at[s],
         page[t] # "panel", UNCHANGED <<page, wireVars, roomVars>>, OneArenaEach, InPlace
  PROVE  TripInv'
<1>1. wire[t] = "none" /\ ref[t] = NoRoom
  BY DEF Aboard
<1> QED
  BY <1>1 DEF TripInv, Aboard, OneArenaEach, InPlace, wireVars, roomVars

LEMMA TripInvStep == ASSUME TripTypeOK, IInv, TripInv, [TripNext]_tripVars PROVE TripInv'
<1> USE TripAssumption DEF TripTypeOK, Tabs, Show, Turn, Hold, Listed, seatVars, wireVars, roomVars
<1>0. /\ Aboard /\ OneArenaEach /\ InPlace /\ TypeOK
      /\ \A t \in Tabs : pc[t] = "seated" => at[t] \in Arenas
  BY DEF TripInv, IInv, WorkKnown
<1>1. ASSUME NEW t \in Tabs, Ask(t) \/ Serve(t) \/ Lose(t) PROVE TripInv'
  <2>1. pc[t] # "seated" \/ wire[t] = "none"
    BY <1>1 DEF Ask, Serve, Lose, Join, Answer, PassOver, PickArena, AddMember, NewArena,
        SaveMatch, Goto
  <2>2. page[t] # "panel"
    BY <1>0, <1>1 DEF Aboard, Ask, Serve, Lose, Join, Answer, PassOver, PickArena, AddMember,
        NewArena, SaveMatch, Goto
  <2>3. \A s \in Tabs \ {t} : pc'[s] = pc[s] /\ at'[s] = at[s]
    BY <1>0, <1>1 DEF TypeOK, Ask, Enter, Serve, Lose, Abandon, Join, Answer, PassOver, PickArena,
        AddMember, NewArena, SaveMatch, Goto, Work
  <2>4. UNCHANGED <<page, wireVars, roomVars>>
    BY <1>1 DEF Ask, Serve, Lose
  <2> QED
    BY <1>0, <2>1, <2>2, <2>3, <2>4, Elsewhere
<1>2. ASSUME NEW t \in Tabs, GiveBack(t) PROVE TripInv'
  <2>1. pc[t] # "seated"
    BY <1>2 DEF GiveBack, RemoveMember, CheckEmpty, DropArena, Goto
  <2>2. page[t] # "panel"
    BY <1>0, <2>1 DEF Aboard
  <2>3. \A s \in Tabs \ {t} : pc'[s] = pc[s] /\ at'[s] = at[s]
    BY <1>0, <1>2 DEF TypeOK, GiveBack, RemoveMember, CheckEmpty, DropArena, Goto, Work
  <2>4. UNCHANGED <<page, wireVars, roomVars>>
    BY <1>2 DEF GiveBack
  <2> QED
    BY <1>0, <2>1, <2>2, <2>3, <2>4, Elsewhere
<1> USE DEF TripInv, Aboard, OneArenaEach, InPlace
<1>3. ASSUME NEW t \in Tabs, Arrive(t) \/ FlyAlone(t) \/ SendFrame(t) \/ Sever(t) PROVE TripInv'
  BY <1>0, <1>3 DEF Arrive, FlyAlone, SendFrame, Sever, vars
<1>4. ASSUME NEW t \in Tabs, Connect(t) PROVE TripInv'
  <2>1. at[t] \in Arenas /\ pc[t] = "seated" /\ wire[t] = "none" /\ UNCHANGED <<pc, at>>
    BY <1>0, <1>4 DEF Connect, vars
  <2>2. CASE Listed(t) # NoRoom
    BY <1>0, <1>4, <2>1, <2>2 DEF Connect
  <2>3. CASE Listed(t) = NoRoom
    <3>1. PICK r \in FreshRooms : /\ arenas' = [arenas EXCEPT ![at[t]] = r]
                                  /\ room' = [room EXCEPT ![r] = {}]
                                  /\ ref' = [ref EXCEPT ![t] = r]
      BY <1>4, <2>3 DEF Connect
    <3>2. r \in Rooms /\ (\A a \in Arenas : arenas[a] # r) /\ (\A s \in Tabs : ref[s] # r)
      BY DEF FreshRooms
    <3>3. Aboard'
      BY <1>0, <1>4, <2>1, <3>1, <3>2 DEF Connect
    <3>4. OneArenaEach'
      BY <1>0, <1>4, <2>1, <3>1, <3>2 DEF Connect
    <3>5. InPlace'
      BY <1>0, <1>4, <2>1, <3>1, <3>2 DEF Connect
    <3> QED
      BY <3>3, <3>4, <3>5
  <2> QED
    BY <2>2, <2>3
<1>5. ASSUME NEW t \in Tabs, AddSession(t) \/ LogJoin(t) PROVE TripInv'
  BY <1>0, <1>5 DEF AddSession, LogJoin, vars
<1>6. ASSUME NEW t \in Tabs, Shut(t) PROVE TripInv'
  <2>1. CASE wire[t] = "none" /\ pc[t] = "seated"
    BY <1>0, <1>6, <2>1 DEF Shut, Abandon, Goto, Work, TypeOK
  <2>2. CASE ~(wire[t] = "none" /\ pc[t] = "seated")
    BY <1>0, <1>6, <2>2 DEF Shut, vars
  <2> QED
    BY <2>1, <2>2
<1>7. ASSUME NEW t \in Tabs, Closed(t) PROVE TripInv'
  BY <1>0, <1>7 DEF Closed, vars
<1>8. ASSUME NEW t \in Tabs, RemoveSession(t) \/ CheckRoom(t) \/ DropRoom(t) PROVE TripInv'
  BY <1>0, <1>8 DEF RemoveSession, CheckRoom, DropRoom, vars
<1>9. ASSUME NEW t \in Tabs, Depart(t) PROVE TripInv'
  <2>1. /\ wire[t] = "leave" /\ ref[t] = NoRoom
        /\ \A s \in Tabs \ {t} : pc'[s] = pc[s] /\ at'[s] = at[s]
    BY <1>0, <1>9 DEF Depart, Leave, Abandon, Goto, Work, TypeOK
  <2> QED
    BY <1>0, <1>9, <2>1 DEF Depart
<1>10. CASE Restart
  BY <1>0, <1>10 DEF Restart, Keeps
<1>11. CASE UNCHANGED tripVars
  BY <1>0, <1>11 DEF tripVars, vars
<1> QED
  BY <1>1, <1>2, <1>3, <1>4, <1>5, <1>6, <1>7, <1>8, <1>9, <1>10, <1>11
     DEF TripNext, Request, Visit, Close

-----------------------------------------------------------------------------
(* The theorems *)

LEMMA TripIInit == TripInit => TripIInv
<1> SUFFICES ASSUME TripInit PROVE TripIInv
  OBVIOUS
<1>1. IInv
  BY IInit DEF TripInit
<1>2. TripTypeOK
  BY <1>1, TripAssumption DEF TripInit, TripTypeOK, IInv, Stages, Tabs
<1>3. TripInv
  BY TripAssumption DEF TripInit, TripInv, Aboard, OneArenaEach, InPlace, Tabs
<1>4. HoldersInv
  BY DEF TripInit, Init, HoldersInv, Counted, Holders, Placed, Tabs
<1> QED
  BY <1>1, <1>2, <1>3, <1>4 DEF TripIInv

LEMMA TripIStep == ASSUME TripIInv, [TripNext]_tripVars PROVE TripIInv'
<1>1. IInv'
  BY SeatsKeptSafe DEF TripIInv
<1>2. TripTypeOK' /\ TripInv'
  BY <1>1, TripTypeStep, TripInvStep DEF TripIInv
<1>3. HoldersInv'
  BY SeatSteps, HoldersStep, HoldersRestart DEF TripIInv
<1> QED
  BY <1>1, <1>2, <1>3 DEF TripIInv

LEMMA TripInductive == TripSpec => []TripIInv
<1>1. TripIInv /\ [TripNext]_tripVars => TripIInv'
  BY TripIStep
<1> QED
  BY TripIInit, <1>1, PTL DEF TripSpec

\* Whoever is in a room holds its URL.
LEMMA RoomHeld == ASSUME TripIInv, NEW a \in Arenas PROVE Flying(a) \subseteq Holders(a)
  BY DEF TripIInv, TripInv, Aboard, InPlace, Flying, Holders, Placed

\* With one tab per account, a room never holds more sessions than
\* MAX_PER_ARENA, whatever joins, closes and restarts overlap.
THEOREM RoomsFit == TripSpec => []RoomFits
<1>1. TripIInv => RoomFits
  <2> SUFFICES ASSUME TripIInv, OneTabPerUser, NEW a \in Arenas
               PROVE  Cardinality(Flying(a)) <= MaxPerArena
    BY DEF TripIInv, RoomFits
  <2> QED
    BY RoomHeld, HoldersAreFew, FewerAreFew DEF TripIInv, Few
<1> QED
  BY TripInductive, <1>1, PTL

\* With one tab per account, the matchmaker counts every session in the room of
\* an arena it lists, whatever unlocked leaves and closes are under way.
THEOREM TogetherCounted == TripSpec => []CountedTogether
<1>1. TripIInv => CountedTogether
  <2> SUFFICES ASSUME TripIInv, OneTabPerUser, NEW a \in listed, NEW t \in Flying(a)
               PROVE  Callsign[t] \in members[a]
    BY DEF CountedTogether
  <2>1. a \in Arenas /\ ~Shunned(a)
    BY DEF TripIInv, TripTypeOK, TypeOK, Shunned
  <2>2. Counted(a)
    BY <2>1 DEF TripIInv, HoldersInv
  <2> QED
    BY <2>1, <2>2, RoomHeld DEF Counted
<1> QED
  BY TripInductive, <1>1, PTL
=============================================================================
