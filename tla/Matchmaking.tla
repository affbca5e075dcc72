----------------------------- MODULE Matchmaking -----------------------------
(***************************************************************************)
(* MatchmakingService: which arena a pilot is sent to, and when an arena   *)
(* is forgotten.                                                           *)
(*                                                                         *)
(* A pilot is one browser tab.  Its join request and, later, the close of  *)
(* its socket are each served by a thread of their own, so every pilot is  *)
(* a process here.  joinArena holds the service's monitor; leaveArena and  *)
(* playersIn do not, and meet joinArena only in the operations of the two  *)
(* ConcurrentHashMaps, each of which is one step.                          *)
(***************************************************************************)
EXTENDS Integers, FiniteSets

CONSTANTS
    Pilots,       \* browser tabs
    Users,        \* account names
    Callsign,     \* the account each tab is signed in with
    Arenas,       \* the ids UUID.randomUUID can return: the bound on arenas
    MaxPerArena,  \* MAX_PER_ARENA
    NoArena,
    NoPilot

ASSUME ConstantsAssumption ==
    /\ IsFiniteSet(Users)
    /\ Callsign \in [Pilots -> Users]
    /\ MaxPerArena \in Nat \ {0}
    /\ NoArena \notin Arenas
    /\ NoPilot \notin Pilots

VARIABLES
    listed,   \* the keys of arenaMembers
    members,  \* the member set made for each arena id, listed or not
    monitor,  \* the pilot whose request holds the service's monitor
    pc,       \* where each pilot's request thread stands
    at,       \* the arena that thread works on, then the pilot's seat
    todo      \* arenas the iterator of joinArena has still to return

vars == <<listed, members, monitor, pc, at, todo>>

Labels == {"lobby", "scan", "add", "save", "count", "seated", "remove", "check", "drop"}

TypeOK ==
    /\ listed \in SUBSET Arenas
    /\ members \in [Arenas -> SUBSET Users]
    /\ monitor \in Pilots \cup {NoPilot}
    /\ pc \in [Pilots -> Labels]
    /\ at \in [Pilots -> Arenas \cup {NoArena}]
    /\ todo \in [Pilots -> SUBSET Arenas]

Init ==
    /\ listed = {}
    /\ members = [a \in Arenas |-> {}]
    /\ monitor = NoPilot
    /\ pc = [p \in Pilots |-> "lobby"]
    /\ at = [p \in Pilots |-> NoArena]
    /\ todo = [p \in Pilots |-> {}]

Goto(p, from, to) == pc[p] = from /\ pc' = [pc EXCEPT ![p] = to]

Work(p, a) == at' = [at EXCEPT ![p] = a]

\* A fresh UUID never equals an id in use.  One that no map, thread or tab
\* refers to any more may stand for a new one, which keeps the ids finite.
FreshIds == {a \in Arenas \ listed : \A p \in Pilots : at[p] # a}

-----------------------------------------------------------------------------
(* joinArena *)

MonitorFree_Dropped(p) == TRUE
MonitorFree(p) == monitor = NoPilot

HasFreeSlot_OffByOne(a) == Cardinality(members[a]) <= MaxPerArena
HasFreeSlot(a) == Cardinality(members[a]) < MaxPerArena

\* The request is let in only while an id is left: the bound on arenas.
Enter(p) ==
    /\ FreshIds # {}
    /\ MonitorFree(p)
    /\ Goto(p, "lobby", "scan")
    /\ monitor' = p
    /\ todo' = [todo EXCEPT ![p] = listed]
    /\ UNCHANGED <<listed, members, at>>

\* The iterator is weakly consistent: an arena unlisted since the iteration
\* began may be returned or passed over.
PassOver(p) ==
    /\ Goto(p, "scan", "scan")
    /\ \E a \in todo[p] :
          /\ a \notin listed \/ ~HasFreeSlot(a)
          /\ todo' = [todo EXCEPT ![p] = @ \ {a}]
    /\ UNCHANGED <<listed, members, monitor, at>>

PickArena(p) ==
    /\ Goto(p, "scan", "add")
    /\ \E a \in todo[p] : HasFreeSlot(a) /\ Work(p, a)
    /\ todo' = [todo EXCEPT ![p] = {}]
    /\ UNCHANGED <<listed, members, monitor>>

AddMember(p) ==
    /\ Goto(p, "add", "count")
    /\ members' = [members EXCEPT ![at[p]] = @ \cup {Callsign[p]}]
    /\ monitor' = NoPilot
    /\ UNCHANGED <<listed, at, todo>>

NewArena(p) ==
    /\ Goto(p, "scan", "save")
    /\ todo[p] = {}
    /\ \E a \in FreshIds :
          /\ members' = [members EXCEPT ![a] = {Callsign[p]}]
          /\ listed' = listed \cup {a}
          /\ Work(p, a)
    /\ UNCHANGED <<monitor, todo>>

\* The Match row is written and never read: only its failure matters, which
\* ends the request and leaves the arena listed with the pilot's name in it.
SaveMatch(p) ==
    /\ \/ Goto(p, "save", "count") /\ UNCHANGED at
       \/ Goto(p, "save", "lobby") /\ Work(p, NoArena)
    /\ monitor' = NoPilot
    /\ UNCHANGED <<listed, members, todo>>

PlayersIn(a) == IF a \in listed THEN Cardinality(members[a]) ELSE 0

\* The controller reads playersIn for the response, which seats the pilot.
Answer(p) ==
    /\ Goto(p, "count", "seated")
    /\ UNCHANGED <<listed, members, monitor, at, todo>>

-----------------------------------------------------------------------------
(* leaveArena, called when the pilot's socket closes *)

\* A session that closes before its first frame, or a tab that never opens
\* one, has no player id: leaveArena is not called.
Abandon(p) ==
    /\ Goto(p, "seated", "lobby")
    /\ Work(p, NoArena)
    /\ UNCHANGED <<listed, members, monitor, todo>>

Leave(p) ==
    /\ pc[p] = "seated"
    /\ IF at[p] \in listed
         THEN Goto(p, "seated", "remove") /\ UNCHANGED at
         ELSE Goto(p, "seated", "lobby") /\ Work(p, NoArena)
    /\ UNCHANGED <<listed, members, monitor, todo>>

RemoveMember_ClearsRoom(p) ==
    /\ Goto(p, "remove", "check")
    /\ members' = [members EXCEPT ![at[p]] = {}]
    /\ UNCHANGED <<listed, monitor, at, todo>>
RemoveMember(p) ==
    /\ Goto(p, "remove", "check")
    /\ members' = [members EXCEPT ![at[p]] = @ \ {Callsign[p]}]
    /\ UNCHANGED <<listed, monitor, at, todo>>

CheckEmpty_Never(p) ==
    /\ Goto(p, "check", "lobby") /\ Work(p, NoArena)
    /\ UNCHANGED <<listed, members, monitor, todo>>
CheckEmpty(p) ==
    /\ pc[p] = "check"
    /\ IF members[at[p]] = {}
         THEN Goto(p, "check", "drop") /\ UNCHANGED at
         ELSE Goto(p, "check", "lobby") /\ Work(p, NoArena)
    /\ UNCHANGED <<listed, members, monitor, todo>>

DropArena(p) ==
    /\ Goto(p, "drop", "lobby")
    /\ listed' = listed \ {at[p]}
    /\ Work(p, NoArena)
    /\ UNCHANGED <<members, monitor, todo>>

-----------------------------------------------------------------------------
Join(p) == PassOver(p) \/ PickArena(p) \/ AddMember(p) \/ NewArena(p) \/ SaveMatch(p)

Step(p) ==
    \/ Enter(p) \/ Join(p) \/ Answer(p)
    \/ Abandon(p) \/ Leave(p) \/ RemoveMember(p) \/ CheckEmpty(p) \/ DropArena(p)

Next == \E p \in Pilots : Step(p)

Spec == Init /\ [][Next]_vars

-----------------------------------------------------------------------------
(* Properties *)

Seated(p) == pc[p] \in {"count", "seated"}

SoleUse(p) == \A q \in Pilots \ {p} : Callsign[q] # Callsign[p]

\* No member set grows past MAX_PER_ARENA, though the size test and the add
\* of joinArena are apart and leaveArena runs between them.
CapacityBound == \A a \in Arenas : Cardinality(members[a]) <= MaxPerArena

\* A pilot whose account no other tab uses stays in the member set of its
\* arena from the answer to joinArena until its own leaveArena, even when
\* the arena has been unlisted meanwhile.
SeatKept ==
    \A p \in Pilots :
        Seated(p) /\ SoleUse(p) => at[p] \in Arenas /\ Callsign[p] \in members[at[p]]

\* Where each pilot sits: the seats of the abstract specification.
seat == [p \in Pilots |-> IF Seated(p) THEN at[p] ELSE NoArena]

\* With one tab per account the service implements Seats: a pilot is told one
\* arena at a time, and an arena is told to MAX_PER_ARENA pilots at most,
\* although it is the names in a set that are counted and not the pilots.
SeatsOf == INSTANCE Seats
ImplementsSeats == SeatsOf!Spec

\* An arena that is listed without members has a leaver about to drop it:
\* none is stranded, whatever joins and leaves overlap.
EmptyArenaIsDropped ==
    \A a \in listed :
        members[a] = {} => \E p \in Pilots : pc[p] \in {"remove", "check", "drop"} /\ at[p] = a

\* The comment on leaveArena: joinArena does not hand out a dead room, so
\* the count sent with the answer includes at least the pilot itself.
NoDeadRoom == \A p \in Pilots : pc[p] = "count" => PlayersIn(at[p]) >= 1
=============================================================================
