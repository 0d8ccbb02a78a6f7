---------------------------- MODULE MCRigidBodies ----------------------------
(* Three entities and room for three bodies, one of them for a second run. *)
EXTENDS RigidBodies, TLC

CONSTANTS e1, e2, e3, b1, b2, b3

MCEntity   == {e1, e2, e3}
MCBody     == {b1, b2, b3}
MCSymmetry == Permutations(MCEntity) \union Permutations(MCBody)
=============================================================================
