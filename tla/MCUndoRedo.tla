----------------------------- MODULE MCUndoRedo -----------------------------
(* Two entities in two slots: they swap, one moves, or is born where another was. *)
EXTENDS UndoRedo, TLC

CONSTANTS e1, e2, a1, a2

MCEntity   == {e1, e2}
MCSlot     == {a1, a2}
MCSymmetry == Permutations(MCEntity) \union Permutations(MCSlot)

\* A gizmo that changes the position and the scale.
PositionsAndScales == {v \in [Transform -> {0, 1}] : v["local_rotation"] = 0}
=============================================================================
