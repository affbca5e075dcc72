------------------------------- MODULE MCMesh -------------------------------
EXTENDS Mesh, TLC

NameSymmetry == Permutations(Names)
=============================================================================
