---------------------------- MODULE MCEditorScene ----------------------------
(* Three entities and three local ids: a selection of two, a deleted parent  *)
(* with its child, and a copy made after a deletion.                         *)
EXTENDS EditorScene

CONSTANTS e1, e2, e3

MCEntity   == {e1, e2, e3}
MCSymmetry == Permutations(MCEntity)
=============================================================================
