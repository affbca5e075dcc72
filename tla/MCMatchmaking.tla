--------------------------- MODULE MCMatchmaking ---------------------------
EXTENDS Matchmaking, TLC

\* Each tab signed in with an account of its own.
OwnCallsign == [p \in Pilots |-> p]

PilotSymmetry == Permutations(Pilots) \cup Permutations(Arenas)
=============================================================================
