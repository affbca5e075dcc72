------------------------------ MODULE Primitives ------------------------------
(***************************************************************************)
(* The solids that Arena draws: what primitives::make... hands to upload.  *)
(* Lengths are in hundredths of a unit.  A triangle is a sequence of three *)
(* corners, in the order of the index buffer; the corners of the ship and  *)
(* of the cube are points, those of the sphere places on its grid.         *)
(***************************************************************************)
EXTENDS Integers, Sequences, FiniteSets

CONSTANTS
    Half,            \* h of makeCube
    Rings, Sectors,  \* of makeSphere
    Radius,          \* of makeSphere
    ShipReach,       \* kShipBoundingRadius
    BulletReach      \* kBulletBoundingRadius

ASSUME PrimitivesAssumption ==
    /\ {Half, Radius, ShipReach, BulletReach} \subseteq Nat \ {0}
    /\ Rings \in Nat \ {0, 1} /\ Sectors \in Nat \ {0, 1, 2}

Plus3(u, k, v) == [d \in 1..3 |-> u[d] + k * v[d]]   \* u + k v
Dot3(u, v) == u[1] * v[1] + u[2] * v[2] + u[3] * v[3]
Cross(u, v) == <<u[2] * v[3] - u[3] * v[2], u[3] * v[1] - u[1] * v[3], u[1] * v[2] - u[2] * v[1]>>

-----------------------------------------------------------------------------
(* makeShip *)

Nose == <<0, 0, -160>>
TailLeft == <<-90, 0, 70>>
TailRight == <<90, 0, 70>>
Top == <<0, 42, 45>>
Bottom == <<0, -30, 45>>

Ship ==
    {<<Nose, TailLeft, Top>>, <<Nose, Top, TailRight>>,            \* upper hull
     <<Nose, Bottom, TailLeft>>, <<Nose, TailRight, Bottom>>,      \* lower hull
     <<TailLeft, Bottom, Top>>, <<TailRight, Top, Bottom>>}        \* tail fins

-----------------------------------------------------------------------------
(* makeCube *)

\* The normal of each face and the two directions its corners are laid out in.
Faces ==
    {<< <<0, 0, 1>>, <<1, 0, 0>>, <<0, 1, 0>> >>,  << <<0, 0, -1>>, <<-1, 0, 0>>, <<0, 1, 0>> >>,
     << <<1, 0, 0>>, <<0, 0, -1>>, <<0, 1, 0>> >>, << <<-1, 0, 0>>, <<0, 0, 1>>, <<0, 1, 0>> >>,
     << <<0, 1, 0>>, <<1, 0, 0>>, <<0, 0, -1>> >>, << <<0, -1, 0>>, <<1, 0, 0>>, <<0, 0, 1>> >>}

Corner(f, c) ==
    LET sx == IF c \in {0, 3} THEN -Half ELSE Half
        sy == IF c < 2 THEN -Half ELSE Half
    IN  Plus3(Plus3(Plus3(<<0, 0, 0>>, Half, f[1]), sx, f[2]), sy, f[3])

Cube ==
    {<<Corner(f, 0), Corner(f, 1), Corner(f, 2)>> : f \in Faces}
        \cup {<<Corner(f, 0), Corner(f, 2), Corner(f, 3)>> : f \in Faces}

-----------------------------------------------------------------------------
(* makeSphere *)

\* Vertices of one pole, and the two that close a ring, lie in one place.
Place(v) ==
    LET r == v \div (Sectors + 1)
        s == v % (Sectors + 1)
    IN  CASE r = 0 -> <<0, 0>> [] r = Rings -> <<Rings, 0>> [] OTHER -> <<r, s % Sectors>>

SphereVertices == (Rings + 1) * (Sectors + 1)
SphereIndices ==
    UNION {LET a == r * (Sectors + 1) + s
               c == a + Sectors + 1
           IN  {<<a, c, a + 1>>, <<a + 1, c, c + 1>>} : r \in 0..(Rings - 1), s \in 0..(Sectors - 1)}

\* Triangles at the poles that have no area are left out.
Sphere ==
    LET placed == {[k \in 1..3 |-> Place(t[k])] : t \in SphereIndices}
    IN  {t \in placed : Cardinality({t[1], t[2], t[3]}) = 3}

-----------------------------------------------------------------------------
(* makeWireBox: the index pairs of its corners *)

BoxCorners ==
    << <<-1, -1, -1>>, <<1, -1, -1>>, <<1, 1, -1>>, <<-1, 1, -1>>,
       <<-1, -1, 1>>, <<1, -1, 1>>, <<1, 1, 1>>, <<-1, 1, 1>> >>
BoxLines ==
    {{0, 1}, {1, 2}, {2, 3}, {3, 0}, {4, 5}, {5, 6}, {6, 7}, {7, 4}, {0, 4}, {1, 5}, {2, 6}, {3, 7}}

-----------------------------------------------------------------------------
(* What makes them solids *)

Edges(hull) == UNION {{<<t[1], t[2]>>, <<t[2], t[3]>>, <<t[3], t[1]>>} : t \in hull}

\* Every edge lies between two triangles that run through it in opposite
\* directions: the surface has no hole, no flap and no flipped triangle.
Closed(hull) ==
    /\ Cardinality(Edges(hull)) = 3 * Cardinality(hull)
    /\ \A e \in Edges(hull) : <<e[2], e[1]>> \in Edges(hull)

\* The normal that the shader lights, (b - a) x (c - a), points away from the
\* origin, which is inside.
FacesOut(hull) ==
    \A t \in hull : Dot3(Cross(Plus3(t[2], -1, t[1]), Plus3(t[3], -1, t[1])), t[1]) > 0

Within(hull, reach) == \A t \in hull : \A k \in 1..3 : Dot3(t[k], t[k]) <= reach * reach

ShipSolid == Closed(Ship) /\ FacesOut(Ship) /\ Within(Ship, ShipReach)
CubeSolid == Closed(Cube) /\ FacesOut(Cube)
SphereSolid ==
    /\ Closed(Sphere) /\ Radius <= BulletReach
    /\ \A t \in SphereIndices : \A k \in 1..3 : t[k] \in 0..(SphereVertices - 1)

\* The lines are the edges of the box: the pairs of corners that differ in
\* one coordinate.
Apart(i, j) == {d \in 1..3 : BoxCorners[i + 1][d] # BoxCorners[j + 1][d]}
BoxWhole == BoxLines = {pair \in SUBSET (0..7) : \E i, j \in pair : pair = {i, j} /\ Cardinality(Apart(i, j)) = 1}
=============================================================================
