------------------------------ MODULE MCBackend ------------------------------
EXTENDS Backend, TLC

\* Each tab signed in with an account of its own.
OwnCallsign == [t \in Pilots |-> t]

TabSymmetry == Permutations(Pilots) \cup Permutations(Arenas) \cup Permutations(Rooms)
=============================================================================
