---------------------------- MODULE MCAssetStore ----------------------------
(* Model checking of AssetStore: a viewport [3, 7) with positions and      *)
(* widths on both sides of its edges (0 + 3 touches it, 0 + 5 overlaps).   *)
EXTENDS AssetStore, TLC

HandlerSymmetry == Permutations(Handlers)
============================================================================
