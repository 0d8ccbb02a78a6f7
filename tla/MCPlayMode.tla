----------------------------- MODULE MCPlayMode -----------------------------
(* Two scenes and three addresses: a run with a second scene opened in it, a   *)
(* map that grows after a Stop, and an address that is used again.            *)
EXTENDS PlayMode, TLC

CONSTANTS s1, s2, m1, m2, m3

MCScene      == {s1, s2}
MCMapAddress == {m1, m2, m3}
MCSymmetry   == Permutations(MCScene) \union Permutations(MCMapAddress)
=============================================================================
