------------------------------ MODULE MCRelay ------------------------------
EXTENDS Relay, TLC

CONSTANTS a1, s1, s2, s3, p1, p2

\* All sessions in one arena.
OneArena == [s \in Sessions |-> a1]

\* Two tabs of one pilot, and another pilot.
TwoTabs == (s1 :> p1) @@ (s2 :> p1) @@ (s3 :> p2)

\* The second kill of the pilot with an account reads the first.
FewKills == (p1 :> 1) @@ (p2 :> 2)

RoomSymmetry == Permutations(Rooms) \cup Permutations({s1, s2})
=============================================================================
