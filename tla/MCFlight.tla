------------------------------- MODULE MCFlight -------------------------------
EXTENDS Flight

SomePlaces == {-9, -3, 2, 8}
SomeSpeeds == {-4, -1, 0, 2, 3}
=============================================================================
