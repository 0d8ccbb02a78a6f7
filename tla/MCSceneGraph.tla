----------------------------- MODULE MCSceneGraph -----------------------------
(* Three entities, four local ids: a deletion and the reuse of its slot, a     *)
(* chain of three, and cycles of two and three entities all occur.             *)
EXTENDS SceneAlgorithms

MCEntity == 1..3
MCRoot   == 0
=============================================================================
