------------------------------ MODULE MCCombat ------------------------------
EXTENDS Combat

CONSTANTS c1, c2

\* c1 can hit once more after a kill, c2 can shoot back once.
DuelShots == [c \in Clients |-> IF c = c1 THEN 2 ELSE 1]
=============================================================================
