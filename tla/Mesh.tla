--------------------------------- MODULE Mesh ---------------------------------
(***************************************************************************)
(* Mesh: objects that own OpenGL names, which are moved and never copied.  *)
(* A name that has been deleted may be returned again by glGen.  What a     *)
(* mesh draws is one of the shapes of Primitives, or the starfield.         *)
(***************************************************************************)
EXTENDS Primitives

CONSTANTS
    Objects,  \* the places a Mesh can be constructed in
    Names,    \* OpenGL names: the bound on those in use
    Zero      \* the name 0

ASSUME MeshAssumption == Zero \notin Names

VARIABLES
    built,  \* the objects that are constructed
    mesh,   \* their fields
    gl      \* the names in use

meshVars == <<built, mesh, gl>>

Solids == {"ship", "cube", "sphere"}   \* given to upload
Outlines == {"box", "stars"}           \* given to uploadPositions

Fields == [vao : Names \cup {Zero}, vbo : Names \cup {Zero}, ebo : Names \cup {Zero},
           shape : Solids \cup Outlines \cup {"none"},   \* "none": count is zero
           indexed : BOOLEAN]
Default == [vao |-> Zero, vbo |-> Zero, ebo |-> Zero, shape |-> "none", indexed |-> FALSE]

MeshTypeOK ==
    /\ built \in SUBSET Objects
    /\ mesh \in [Objects -> Fields]
    /\ gl \in SUBSET Names

MeshInit ==
    /\ built = {}
    /\ mesh = [m \in Objects |-> Default]
    /\ gl = {}

Handles(m) == {mesh[m].vao, mesh[m].vbo, mesh[m].ebo} \ {Zero}

\* What destroy leaves in use.
Destroyed(m) == gl \ Handles(m)

Construct(m) ==
    /\ m \notin built
    /\ built' = built \cup {m}
    /\ mesh' = [mesh EXCEPT ![m] = Default]
    /\ UNCHANGED gl

Upload(m) ==
    /\ m \in built
    /\ \E a, b, e \in Names \ Destroyed(m), what \in Solids :
          /\ Cardinality({a, b, e}) = 3
          /\ mesh' = [mesh EXCEPT ![m] =
                [vao |-> a, vbo |-> b, ebo |-> e, shape |-> what, indexed |-> TRUE]]
          /\ gl' = Destroyed(m) \cup {a, b, e}
    /\ UNCHANGED built

UploadPositions_StaysIndexed(m) ==
    /\ m \in built
    /\ \E a, b \in Names \ Destroyed(m), what \in Outlines :
          /\ a # b
          /\ mesh' = [mesh EXCEPT ![m] =
                [@ EXCEPT !.vao = a, !.vbo = b, !.ebo = Zero, !.shape = what]]
          /\ gl' = Destroyed(m) \cup {a, b}
    /\ UNCHANGED built
UploadPositions(m) ==
    /\ m \in built
    /\ \E a, b \in Names \ Destroyed(m), what \in Outlines :
          /\ a # b
          /\ mesh' = [mesh EXCEPT ![m] =
                [vao |-> a, vbo |-> b, ebo |-> Zero, shape |-> what, indexed |-> FALSE]]
          /\ gl' = Destroyed(m) \cup {a, b}
    /\ UNCHANGED built

Emptied_Names(fields) == [fields EXCEPT !.shape = "none"]
\* What a move leaves of its source.
Emptied(fields) ==
    [fields EXCEPT !.vao = Zero, !.vbo = Zero, !.ebo = Zero, !.shape = "none"]

\* A self-move changes nothing.
MoveAssign(m, o) ==
    /\ {m, o} \subseteq built /\ m # o
    /\ mesh' = [mesh EXCEPT ![m] = mesh[o], ![o] = Emptied(mesh[o])]
    /\ gl' = Destroyed(m)
    /\ UNCHANGED built

\* The fields of a new object are zero, so destroy deletes nothing.
MoveConstruct(m, o) ==
    /\ m \notin built /\ o \in built
    /\ built' = built \cup {m}
    /\ mesh' = [mesh EXCEPT ![m] = mesh[o], ![o] = Emptied(mesh[o])]
    /\ UNCHANGED gl

Destruct(m) ==
    /\ m \in built
    /\ built' = built \ {m}
    /\ mesh' = [mesh EXCEPT ![m] = Default]
    /\ gl' = Destroyed(m)

MeshNext == \E m \in Objects :
    \/ Construct(m) \/ Upload(m) \/ UploadPositions(m) \/ Destruct(m)
    \/ \E o \in Objects : MoveAssign(m, o) \/ MoveConstruct(m, o)

MeshSpec == MeshInit /\ [][MeshNext]_meshVars

-----------------------------------------------------------------------------
(* Properties *)

\* Through any uploads and moves, no two objects hold one name, so that none
\* deletes what another draws, and the names in use are those that objects
\* hold: none is leaked, and none is held after its deletion.
NamesOwned ==
    /\ MeshTypeOK
    /\ \A m, o \in built : m # o => Handles(m) \cap Handles(o) = {}
    /\ gl = UNION {Handles(m) : m \in built}

\* What is drawn is whole: a solid has no hole and no flipped triangle, its
\* ship and cube are lit from outside, it stays within the bounding sphere that
\* culling tests in its place, and the box has its twelve edges.
ShapeSound(shape) ==
    /\ shape = "ship" => ShipSolid
    /\ shape = "cube" => CubeSolid
    /\ shape = "sphere" => SphereSolid
    /\ shape = "box" => BoxWhole

\* An object that draw would draw has all that its draw call reads: a vertex
\* array, a buffer, an index buffer just when the shape it was last given has
\* one, and in them a shape that is whole.
DrawsWhole ==
    \A m \in built :
        mesh[m].shape # "none" =>
            /\ {mesh[m].vao, mesh[m].vbo} \subseteq gl
            /\ mesh[m].indexed <=> mesh[m].ebo \in gl
            /\ mesh[m].indexed <=> mesh[m].shape \in Solids
            /\ ShapeSound(mesh[m].shape)
=============================================================================
