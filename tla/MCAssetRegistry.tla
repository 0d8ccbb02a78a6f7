--------------------------- MODULE MCAssetRegistry ---------------------------
(* Two assets, two folders of which one's name begins with the other's, and  *)
(* the name that a file and a new scene share.                               *)
EXTENDS AssetRegistry, TLC

CONSTANTS h1, h2, f1, f2

MCHandle   == {h1, h2}
MCFile     == {f1, f2}
MCName     == {"a.mat", "a.mat 0 .scene"}
MCShown    == [n \in MCName |-> "a.mat"]
MCExtends  == {"a"} \X {"ab", "a.mat", "a.mat 0 .scene"}
MCSymmetry == Permutations(MCHandle) \union Permutations(MCFile)
=============================================================================
