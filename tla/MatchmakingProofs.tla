-------------------------- MODULE MatchmakingProofs --------------------------
(***************************************************************************)
(* Proofs about Matchmaking, for every set of pilots, accounts and arenas. *)
(*                                                                         *)
(* CapacityBound is not inductive: a step of joinArena adds to a set whose *)
(* size an earlier step has tested.  IInv says what holds between the two: *)
(* the thread that is to add holds the monitor, nobody else is inside      *)
(* joinArena, and the set still has a free slot.                           *)
(***************************************************************************)
EXTENDS Matchmaking, FiniteSetTheorems, TLAPS

InJoin(p) == pc[p] \in {"scan", "add", "save"}

\* Whoever is inside joinArena holds the monitor.
Exclusion == \A p \in Pilots : InJoin(p) => monitor = p

\* The arena a thread works on is one, and the set it is to add to has a
\* free slot.
WorkKnown == \A p \in Pilots :
    pc[p] \in {"add", "save", "count", "seated", "remove", "check", "drop"} => at[p] \in Arenas
SlotKept == \A p \in Pilots : pc[p] = "add" => Cardinality(members[at[p]]) < MaxPerArena

IInv == TypeOK /\ Exclusion /\ WorkKnown /\ SlotKept /\ CapacityBound

LEMMA MembersFinite == TypeOK => \A a \in Arenas : IsFiniteSet(members[a])
  BY ConstantsAssumption, FS_Subset DEF TypeOK

\* The type invariant is inductive by itself.
LEMMA TypeInit == Init => TypeOK
  BY ConstantsAssumption DEF Init, TypeOK, Labels

LEMMA TypeNext == ASSUME TypeOK, [Next]_vars PROVE TypeOK'
<1> USE ConstantsAssumption DEF TypeOK, Labels, Goto, Work
<1>1. ASSUME NEW p \in Pilots, Enter(p) PROVE TypeOK'
  BY <1>1 DEF Enter
<1>2. ASSUME NEW p \in Pilots, PassOver(p) PROVE TypeOK'
  BY <1>2 DEF PassOver
<1>3. ASSUME NEW p \in Pilots, PickArena(p) PROVE TypeOK'
  BY <1>3 DEF PickArena
<1>4. ASSUME NEW p \in Pilots, AddMember(p) PROVE TypeOK'
  <2>1. members' \in [Arenas -> SUBSET Users]
    <3>1. Callsign[p] \in Users
      OBVIOUS
    <3>2. members' = [members EXCEPT ![at[p]] = members[at[p]] \cup {Callsign[p]}]
      BY <1>4 DEF AddMember
    <3> QED
      BY <3>1, <3>2
  <2> QED
    BY <1>4, <2>1 DEF AddMember
<1>5. ASSUME NEW p \in Pilots, NewArena(p) PROVE TypeOK'
  BY <1>5 DEF NewArena, FreshIds
<1>6. ASSUME NEW p \in Pilots, SaveMatch(p) PROVE TypeOK'
  BY <1>6 DEF SaveMatch
<1>7. ASSUME NEW p \in Pilots, Answer(p) \/ Abandon(p) \/ Leave(p) PROVE TypeOK'
  BY <1>7 DEF Answer, Abandon, Leave
<1>8. ASSUME NEW p \in Pilots, RemoveMember(p) \/ CheckEmpty(p) \/ DropArena(p) PROVE TypeOK'
  BY <1>8 DEF RemoveMember, CheckEmpty, DropArena
<1>9. CASE UNCHANGED vars
  BY <1>9 DEF vars
<1> QED
  BY <1>1, <1>2, <1>3, <1>4, <1>5, <1>6, <1>7, <1>8, <1>9 DEF Next, Step, Join

\* Every reachable state is well typed.
THEOREM TypeCorrect == Spec => []TypeOK
<1> QED
  BY TypeInit, TypeNext, PTL DEF Spec

-----------------------------------------------------------------------------
(* MAX_PER_ARENA is never exceeded *)

LEMMA IInit == Init => IInv
<1> SUFFICES ASSUME Init PROVE IInv
  OBVIOUS
<1>1. TypeOK
  BY TypeInit
<1>2. Exclusion /\ WorkKnown /\ SlotKept
  BY DEF Init, Exclusion, InJoin, WorkKnown, SlotKept
<1>3. CapacityBound
  BY ConstantsAssumption, FS_EmptySet DEF Init, CapacityBound
<1> QED
  BY <1>1, <1>2, <1>3 DEF IInv

LEMMA ExclusionNext == ASSUME IInv, [Next]_vars PROVE Exclusion'
<1> USE DEF IInv, TypeOK, Exclusion, InJoin, Goto
<1>1. ASSUME NEW p \in Pilots, Enter(p) PROVE Exclusion'
  BY <1>1, ConstantsAssumption DEF Enter, MonitorFree
<1>2. ASSUME NEW p \in Pilots, PassOver(p) \/ PickArena(p) \/ NewArena(p) PROVE Exclusion'
  BY <1>2 DEF PassOver, PickArena, NewArena
<1>3. ASSUME NEW p \in Pilots, AddMember(p) \/ SaveMatch(p) PROVE Exclusion'
  BY <1>3 DEF AddMember, SaveMatch
<1>4. ASSUME NEW p \in Pilots, Answer(p) \/ Abandon(p) \/ Leave(p) PROVE Exclusion'
  BY <1>4 DEF Answer, Abandon, Leave
<1>5. ASSUME NEW p \in Pilots, RemoveMember(p) \/ CheckEmpty(p) \/ DropArena(p) PROVE Exclusion'
  BY <1>5 DEF RemoveMember, CheckEmpty, DropArena
<1>6. CASE UNCHANGED vars
  BY <1>6 DEF vars
<1> QED
  BY <1>1, <1>2, <1>3, <1>4, <1>5, <1>6 DEF Next, Step, Join

LEMMA WorkKnownNext == ASSUME IInv, [Next]_vars PROVE WorkKnown'
<1> USE DEF IInv, TypeOK, WorkKnown, Goto, Work
<1>1. ASSUME NEW p \in Pilots, Enter(p) \/ PassOver(p) PROVE WorkKnown'
  BY <1>1 DEF Enter, PassOver
<1>2. ASSUME NEW p \in Pilots, PickArena(p) \/ NewArena(p) PROVE WorkKnown'
  BY <1>2 DEF PickArena, NewArena, FreshIds
<1>3. ASSUME NEW p \in Pilots, AddMember(p) \/ SaveMatch(p) PROVE WorkKnown'
  BY <1>3 DEF AddMember, SaveMatch
<1>4. ASSUME NEW p \in Pilots, Answer(p) \/ Abandon(p) \/ Leave(p) PROVE WorkKnown'
  BY <1>4 DEF Answer, Abandon, Leave
<1>5. ASSUME NEW p \in Pilots, RemoveMember(p) \/ CheckEmpty(p) \/ DropArena(p) PROVE WorkKnown'
  BY <1>5 DEF RemoveMember, CheckEmpty, DropArena
<1>6. CASE UNCHANGED vars
  BY <1>6 DEF vars
<1> QED
  BY <1>1, <1>2, <1>3, <1>4, <1>5, <1>6 DEF Next, Step, Join

\* A step that takes members away keeps both bounds.
LEMMA FewerMembers ==
  ASSUME IInv, TypeOK', \A a \in Arenas : members'[a] \subseteq members[a]
  PROVE  \A a \in Arenas : /\ Cardinality(members'[a]) <= Cardinality(members[a])
                           /\ Cardinality(members'[a]) \in Nat
                           /\ Cardinality(members[a]) \in Nat
<1> SUFFICES ASSUME NEW a \in Arenas
             PROVE  /\ Cardinality(members'[a]) <= Cardinality(members[a])
                    /\ Cardinality(members'[a]) \in Nat
                    /\ Cardinality(members[a]) \in Nat
  OBVIOUS
<1>1. IsFiniteSet(members[a])
  BY MembersFinite DEF IInv
<1> QED
  BY <1>1, FS_Subset, FS_CardinalityType

\* Adding one name to a set with a free slot fills it at most.
LEMMA OneMore ==
  ASSUME NEW S, IsFiniteSet(S), Cardinality(S) < MaxPerArena, NEW u
  PROVE  Cardinality(S \cup {u}) <= MaxPerArena
<1>1. Cardinality(S) \in Nat /\ MaxPerArena \in Nat
  BY FS_CardinalityType, ConstantsAssumption
<1>2. Cardinality(S \cup {u}) = Cardinality(S) \/ Cardinality(S \cup {u}) = Cardinality(S) + 1
  BY FS_AddElement
<1> QED
  BY <1>1, <1>2

LEMMA BoundsNext == ASSUME IInv, [Next]_vars PROVE SlotKept' /\ CapacityBound'
<1> USE DEF Goto, Work
<1>0. TypeOK /\ TypeOK' /\ Exclusion' /\ WorkKnown' /\ Exclusion /\ WorkKnown /\ SlotKept /\ CapacityBound
  BY TypeNext, ExclusionNext, WorkKnownNext DEF IInv
<1>1. ASSUME NEW p \in Pilots, PickArena(p) PROVE SlotKept' /\ CapacityBound'
  BY <1>0, <1>1 DEF PickArena, HasFreeSlot, SlotKept, CapacityBound, TypeOK
<1>2. ASSUME NEW p \in Pilots, AddMember(p) PROVE SlotKept' /\ CapacityBound'
  <2>1. pc[p] = "add" /\ at[p] \in Arenas /\ Cardinality(members[at[p]]) < MaxPerArena
    BY <1>0, <1>2 DEF AddMember, WorkKnown, SlotKept
  <2>2. \A q \in Pilots : pc'[q] # "add"
    BY <1>0, <1>2 DEF AddMember, Exclusion, InJoin, TypeOK
  <2>3. Cardinality(members[at[p]] \cup {Callsign[p]}) <= MaxPerArena
    BY <1>0, <2>1, MembersFinite, OneMore
  <2>4. CapacityBound'
    BY <1>0, <1>2, <2>1, <2>3 DEF AddMember, CapacityBound, TypeOK
  <2> QED
    BY <2>2, <2>4 DEF SlotKept
<1>3. ASSUME NEW p \in Pilots, NewArena(p) PROVE SlotKept' /\ CapacityBound'
  <2>1. \A q \in Pilots : pc'[q] # "add"
    BY <1>0, <1>3 DEF NewArena, Exclusion, InJoin, TypeOK
  <2>2. Cardinality({Callsign[p]}) <= MaxPerArena
    <3>1. Cardinality({Callsign[p]}) = 1
      BY FS_Singleton
    <3> QED
      BY <3>1, ConstantsAssumption
  <2>3. CapacityBound'
    BY <1>0, <1>3, <2>2 DEF NewArena, CapacityBound, TypeOK
  <2> QED
    BY <2>1, <2>3 DEF SlotKept
<1>4. ASSUME NEW p \in Pilots, RemoveMember(p) PROVE SlotKept' /\ CapacityBound'
  <2>1. \A a \in Arenas : members'[a] \subseteq members[a]
    BY <1>0, <1>4 DEF RemoveMember, TypeOK
  <2>2. \A a \in Arenas : /\ Cardinality(members'[a]) <= Cardinality(members[a])
                          /\ Cardinality(members'[a]) \in Nat
                          /\ Cardinality(members[a]) \in Nat
    BY <1>0, <2>1, FewerMembers DEF IInv
  <2>3. CapacityBound'
    BY <1>0, <2>2, ConstantsAssumption DEF CapacityBound
  <2>4. \A q \in Pilots : pc'[q] = "add" => pc[q] = "add" /\ at'[q] = at[q]
    BY <1>0, <1>4 DEF RemoveMember, TypeOK
  <2> QED
    BY <1>0, <2>2, <2>3, <2>4, ConstantsAssumption DEF SlotKept, WorkKnown
<1>5. ASSUME UNCHANGED members,
             \A q \in Pilots : pc'[q] = "add" => pc[q] = "add" /\ at'[q] = at[q]
      PROVE  SlotKept' /\ CapacityBound'
  BY <1>0, <1>5 DEF SlotKept, CapacityBound
<1>6. ASSUME NEW p \in Pilots, Enter(p) \/ PassOver(p) \/ SaveMatch(p)
      PROVE  SlotKept' /\ CapacityBound'
  BY <1>0, <1>5, <1>6 DEF Enter, PassOver, SaveMatch, TypeOK
<1>7. ASSUME NEW p \in Pilots,
             Answer(p) \/ Abandon(p) \/ Leave(p) \/ CheckEmpty(p) \/ DropArena(p)
      PROVE  SlotKept' /\ CapacityBound'
  BY <1>0, <1>5, <1>7 DEF Answer, Abandon, Leave, CheckEmpty, DropArena, TypeOK
<1>8. CASE UNCHANGED vars
  BY <1>5, <1>8 DEF vars
<1> QED
  BY <1>1, <1>2, <1>3, <1>4, <1>6, <1>7, <1>8 DEF Next, Step, Join

LEMMA Inductive == Spec => []IInv
<1>1. ASSUME IInv, [Next]_vars PROVE IInv'
  BY <1>1, TypeNext, ExclusionNext, WorkKnownNext, BoundsNext DEF IInv
<1> QED
  BY IInit, <1>1, PTL DEF Spec

\* No arena ever holds more than MAX_PER_ARENA names, however joins and
\* leaves overlap.
THEOREM CapacityCorrect == Spec => []CapacityBound
<1>1. IInv => CapacityBound
  BY DEF IInv
<1> QED
  BY Inductive, <1>1, PTL

-----------------------------------------------------------------------------
(* An empty arena is dropped *)

LEMMA EmptyNext ==
  ASSUME TypeOK, EmptyArenaIsDropped, [Next]_vars PROVE EmptyArenaIsDropped'
<1> USE DEF TypeOK, EmptyArenaIsDropped, Goto, Work
<1>1. ASSUME NEW p \in Pilots, Enter(p) \/ PassOver(p) \/ PickArena(p)
      PROVE  EmptyArenaIsDropped'
  BY <1>1 DEF Enter, PassOver, PickArena
<1>2. ASSUME NEW p \in Pilots, AddMember(p) PROVE EmptyArenaIsDropped'
  BY <1>2 DEF AddMember
<1>3. ASSUME NEW p \in Pilots, NewArena(p) PROVE EmptyArenaIsDropped'
  BY <1>3 DEF NewArena, FreshIds
<1>4. ASSUME NEW p \in Pilots, SaveMatch(p) \/ Answer(p) \/ Abandon(p) \/ Leave(p)
      PROVE  EmptyArenaIsDropped'
  BY <1>4 DEF SaveMatch, Answer, Abandon, Leave
<1>5. ASSUME NEW p \in Pilots, RemoveMember(p) PROVE EmptyArenaIsDropped'
  BY <1>5 DEF RemoveMember
<1>6. ASSUME NEW p \in Pilots, CheckEmpty(p) PROVE EmptyArenaIsDropped'
  BY <1>6 DEF CheckEmpty
<1>7. ASSUME NEW p \in Pilots, DropArena(p) PROVE EmptyArenaIsDropped'
  BY <1>7 DEF DropArena
<1>8. CASE UNCHANGED vars
  BY <1>8 DEF vars
<1> QED
  BY <1>1, <1>2, <1>3, <1>4, <1>5, <1>6, <1>7, <1>8 DEF Next, Step, Join

\* No empty arena is stranded in the map: the last to remove itself is still
\* there to see that it is empty.
THEOREM EmptyArenasDropped == Spec => []EmptyArenaIsDropped
<1>1. Init => EmptyArenaIsDropped
  BY DEF Init, EmptyArenaIsDropped
<1> QED
  BY <1>1, TypeCorrect, EmptyNext, PTL DEF Spec

-----------------------------------------------------------------------------
(* A seat is kept *)

\* Between the two writes of a new arena and its answer the name is there too.
Placed(p) == pc[p] \in {"save", "count", "seated"}
SeatInv ==
    \A p \in Pilots :
        Placed(p) /\ SoleUse(p) => at[p] \in Arenas /\ Callsign[p] \in members[at[p]]

LEMMA SeatNext == ASSUME IInv, SeatInv, [Next]_vars PROVE SeatInv'
<1> USE DEF IInv, TypeOK, SeatInv, Placed, SoleUse, Goto, Work
<1>1. ASSUME NEW p \in Pilots, Enter(p) \/ PassOver(p) \/ PickArena(p) PROVE SeatInv'
  BY <1>1 DEF Enter, PassOver, PickArena
<1>2. ASSUME NEW p \in Pilots, AddMember(p) PROVE SeatInv'
  <2>1. at[p] \in Arenas
    BY <1>2 DEF AddMember, WorkKnown
  <2>2. \A a \in Arenas : members[a] \subseteq members'[a]
    BY <1>2 DEF AddMember
  <2>3. Callsign[p] \in members'[at[p]]
    BY <1>2, <2>1 DEF AddMember
  <2>4. at' = at /\ \A q \in Pilots \ {p} : pc'[q] = pc[q]
    BY <1>2 DEF AddMember
  <2> QED
    BY <2>1, <2>2, <2>3, <2>4
<1>3. ASSUME NEW p \in Pilots, NewArena(p) PROVE SeatInv'
  BY <1>3 DEF NewArena, FreshIds
<1>4. ASSUME NEW p \in Pilots, SaveMatch(p) \/ Answer(p) \/ Abandon(p) \/ Leave(p) PROVE SeatInv'
  BY <1>4 DEF SaveMatch, Answer, Abandon, Leave
<1>5. ASSUME NEW p \in Pilots, RemoveMember(p) PROVE SeatInv'
  <2>1. SUFFICES ASSUME NEW q \in Pilots, Placed(q)', SoleUse(q)
                 PROVE  at'[q] \in Arenas /\ Callsign[q] \in members'[at'[q]]
    OBVIOUS
  <2>2. q # p /\ at' = at /\ Placed(q)
    BY <1>5, <2>1 DEF RemoveMember
  <2>3. Callsign[q] \in members[at[q]] /\ Callsign[q] # Callsign[p]
    BY <2>1, <2>2
  <2> QED
    BY <1>5, <2>1, <2>2, <2>3 DEF RemoveMember
<1>6. ASSUME NEW p \in Pilots, CheckEmpty(p) \/ DropArena(p) PROVE SeatInv'
  BY <1>6 DEF CheckEmpty, DropArena
<1>7. CASE UNCHANGED vars
  BY <1>7 DEF vars
<1> QED
  BY <1>1, <1>2, <1>3, <1>4, <1>5, <1>6, <1>7 DEF Next, Step, Join

\* A pilot whose account no other tab uses keeps its seat until it leaves.
THEOREM SeatsKept == Spec => []SeatKept
<1>1. Init => SeatInv
  BY DEF Init, SeatInv, Placed
<1>2. SeatInv => SeatKept
  BY DEF SeatInv, SeatKept, Placed, Seated
<1> QED
  BY <1>1, <1>2, Inductive, SeatNext, PTL DEF Spec

-----------------------------------------------------------------------------
(* Matchmaking implements Seats *)

OneTabEach == \A p \in Pilots : SoleUse(p)

\* The instance counts as this module does.
LEMMA SameCount == \A S : SeatsOf!Cardinality(S) = Cardinality(S)
  BY Zenon DEF SeatsOf!Cardinality, Cardinality

\* The answer to a pilot who is placed already takes one seat that was free.
LEMMA SitsDown ==
  ASSUME IInv, SeatInv', IInv', OneTabEach, NEW p \in Pilots, ~Seated(p), Seated(p)',
         NEW a \in Arenas, at'[p] = a,
         \A q \in Pilots \ {p} : pc'[q] = pc[q] /\ at'[q] = at[q]
  PROVE  SeatsOf!Sit(p, a)
<1> DEFINE S == SeatsOf!Taken(a)
           T == {q \in Pilots : Placed(q)' /\ at'[q] = a}
<1> USE DEF seat, SeatsOf!Taken, Seated, Placed
<1>1. p \notin S /\ S \cup {p} \subseteq T
  <2>1. \A q \in S : q \in Pilots /\ Seated(q) /\ at[q] = a
    BY ConstantsAssumption DEF IInv, TypeOK
  <2> QED
    BY <2>1
\* Callsigns map the pilots placed in an arena, those still being answered
\* included, one to one into its member set.
<1>2. IsFiniteSet(T) /\ Cardinality(T) <= MaxPerArena
  <2> DEFINE f == [q \in T |-> Callsign[q]]
  <2>1. f \in [T -> members'[a]]
    BY DEF SeatInv, OneTabEach, SoleUse
  <2>2. \A q, r \in T : f[q] = f[r] => q = r
    BY DEF SoleUse, OneTabEach
  <2>3. f \in Injection(T, members'[a])
    BY <2>1, <2>2 DEF Injection, IsInjective
  <2>4. IsFiniteSet(members'[a]) /\ Cardinality(members'[a]) <= MaxPerArena
    BY ConstantsAssumption, FS_Subset DEF IInv, TypeOK, CapacityBound
  <2>5. IsFiniteSet(T) /\ Cardinality(T) <= Cardinality(members'[a])
    BY <2>3, <2>4, FS_Injection
  <2>6. Cardinality(T) \in Nat /\ Cardinality(members'[a]) \in Nat /\ MaxPerArena \in Nat
    BY <2>4, <2>5, FS_CardinalityType, ConstantsAssumption
  <2> QED
    BY <2>4, <2>5, <2>6
<1>3. IsFiniteSet(S) /\ Cardinality(S \cup {p}) = Cardinality(S) + 1
  BY <1>1, <1>2, FS_Subset, FS_AddElement
<1>4. Cardinality(S \cup {p}) <= Cardinality(T)
  BY <1>1, <1>2, FS_Subset
<1>5. Cardinality(S) < MaxPerArena
  BY <1>1, <1>2, <1>3, <1>4, FS_Subset, FS_CardinalityType, ConstantsAssumption
<1>6. seat[p] = NoArena /\ seat' = [seat EXCEPT ![p] = a]
  OBVIOUS
<1> QED
  BY <1>5, <1>6, SameCount DEF SeatsOf!Sit

LEMMA SeatStep ==
  ASSUME IInv, IInv', SeatInv', OneTabEach, [Next]_vars
  PROVE  [SeatsOf!Next]_seat
<1> USE DEF Goto, Work, seat, Seated
<1>1. ASSUME NEW p \in Pilots, Enter(p) \/ PassOver(p) \/ PickArena(p) \/ NewArena(p)
      PROVE  UNCHANGED seat
  BY <1>1 DEF IInv, TypeOK, Enter, PassOver, PickArena, NewArena
<1>2. ASSUME NEW p \in Pilots, AddMember(p) PROVE SeatsOf!Next
  <2>1. /\ ~Seated(p) /\ Seated(p)' /\ at'[p] \in Arenas
        /\ \A q \in Pilots \ {p} : pc'[q] = pc[q] /\ at'[q] = at[q]
    BY <1>2 DEF AddMember, IInv, TypeOK, WorkKnown
  <2>2. PICK a \in Arenas : at'[p] = a
    BY <2>1
  <2>3. SeatsOf!Sit(p, a)
    BY <2>1, <2>2, SitsDown
  <2> QED
    BY <2>3 DEF SeatsOf!Next
<1>3. ASSUME NEW p \in Pilots, SaveMatch(p) PROVE [SeatsOf!Next]_seat
  <2>1. CASE Goto(p, "save", "count") /\ UNCHANGED at
    <3>1. /\ ~Seated(p) /\ Seated(p)' /\ at'[p] \in Arenas
          /\ \A q \in Pilots \ {p} : pc'[q] = pc[q] /\ at'[q] = at[q]
      BY <2>1 DEF IInv, TypeOK, WorkKnown
    <3>2. PICK a \in Arenas : at'[p] = a
      BY <3>1
    <3>3. SeatsOf!Sit(p, a)
      BY <3>1, <3>2, SitsDown
    <3> QED
      BY <3>3 DEF SeatsOf!Next
  <2>2. CASE Goto(p, "save", "lobby") /\ Work(p, NoArena)
    BY <2>2 DEF IInv, TypeOK
  <2> QED
    BY <1>3, <2>1, <2>2 DEF SaveMatch
<1>4. ASSUME NEW p \in Pilots, Answer(p) PROVE UNCHANGED seat
  BY <1>4 DEF Answer, IInv, TypeOK
<1>5. ASSUME NEW p \in Pilots, Abandon(p) \/ Leave(p) PROVE SeatsOf!Next
  <2>1. at[p] \in Arenas /\ Seated(p) /\ ~Seated(p)'
    BY <1>5 DEF Abandon, Leave, IInv, TypeOK, WorkKnown
  <2>2. \A q \in Pilots \ {p} : pc'[q] = pc[q] /\ at'[q] = at[q]
    BY <1>5 DEF Abandon, Leave, IInv, TypeOK
  <2>3. seat[p] # NoArena
    BY <2>1, ConstantsAssumption
  <2>4. seat' = [seat EXCEPT ![p] = NoArena]
    BY <2>1, <2>2
  <2>5. SeatsOf!Rise(p)
    BY <2>3, <2>4 DEF SeatsOf!Rise
  <2> QED
    BY <2>5 DEF SeatsOf!Next
<1>6. ASSUME NEW p \in Pilots, RemoveMember(p) \/ CheckEmpty(p) \/ DropArena(p)
      PROVE  UNCHANGED seat
  BY <1>6 DEF RemoveMember, CheckEmpty, DropArena, IInv, TypeOK
<1>7. CASE UNCHANGED vars
  BY <1>7 DEF vars
<1> QED
  BY <1>1, <1>2, <1>3, <1>4, <1>5, <1>6, <1>7 DEF Next, Step, Join

\* With one tab per account matchmaking implements Seats: every step of the
\* service seats one pilot where a seat is free, unseats one, or changes no
\* seat.
THEOREM SeatsImplemented == ASSUME OneTabEach PROVE Spec => ImplementsSeats
<1>1. Init => SeatInv /\ SeatsOf!Init
  BY DEF Init, SeatInv, Placed, SeatsOf!Init, seat, Seated
<1>2. ASSUME IInv, SeatInv, [Next]_vars PROVE SeatInv'
  BY <1>2, SeatNext
<1>3. ASSUME IInv, IInv', SeatInv', [Next]_vars PROVE [SeatsOf!Next]_seat
  BY <1>3, SeatStep
<1> QED
  BY <1>1, <1>2, <1>3, Inductive, PTL DEF Spec, ImplementsSeats, SeatsOf!Spec
=============================================================================
