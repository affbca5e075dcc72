------------------------------ MODULE MCRenderer ------------------------------
EXTENDS Renderer

TwoPlaces == {<<0, 0, 0>>, <<1, 2, 0>>}

\* Ahead, aside, above, behind and far away, for a ship that flies along -Z.
SomeSites == {<<0, 0, -3>>, <<5, 0, -2>>, <<0, 4, -3>>, <<1, 1, 6>>, <<0, -2, -9>>}

\* Turns about one, two and three axes in one frame, to both sides.
Turn(y, p, r) == [yaw |-> y, pitch |-> p, roll |-> r]
SomeTurns ==
    {Turn(1, 0, 0), Turn(0, -1, 0), Turn(0, 0, 1), Turn(-1, 0, 1), Turn(0, 1, -1),
     Turn(-1, 1, 0), Turn(1, 1, 1), Turn(1, -1, -1)}
=============================================================================
