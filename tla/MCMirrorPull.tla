---------------------------- MODULE MCMirrorPull ----------------------------
(* MirrorPull on small trees: of three versions of a file two have one size. *)
EXTENDS MirrorPull, TLC

MCVersions == 1 .. 3
MCSizeOf == [v \in MCVersions |-> IF v = 3 THEN 2 ELSE 1]
MCSymmetry == Permutations(Files)
=============================================================================
