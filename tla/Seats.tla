-------------------------------- MODULE Seats --------------------------------
(***************************************************************************)
(* What matchmaking promises: a pilot is told one arena at a time, and no  *)
(* arena is ever told to more pilots than it has seats.  How arenas are    *)
(* found, counted, listed and forgotten is left to Matchmaking.            *)
(***************************************************************************)
EXTENDS Integers, FiniteSets

CONSTANTS Pilots, Arenas, MaxPerArena, NoArena

VARIABLE seat   \* the arena each pilot has been told, or NoArena

Taken(a) == {p \in Pilots : seat[p] = a}

Init == seat = [p \in Pilots |-> NoArena]

Sit(p, a) ==
    /\ seat[p] = NoArena
    /\ Cardinality(Taken(a)) < MaxPerArena
    /\ seat' = [seat EXCEPT ![p] = a]

Rise(p) ==
    /\ seat[p] # NoArena
    /\ seat' = [seat EXCEPT ![p] = NoArena]

Next == \E p \in Pilots : Rise(p) \/ \E a \in Arenas : Sit(p, a)

Spec == Init /\ [][Next]_seat
=============================================================================
