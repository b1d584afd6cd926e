---------------------------- MODULE MCPersistJSON ----------------------------
(* Small instances of PersistJSON: versions that grow and shrink. *)
EXTENDS PersistJSON, TLC

CONSTANTS w1, w2, w3, i1, i2, i3, i4

ThreeWriters == {w1, w2, w3}
FourInodes == {i1, i2, i3, i4}
Sizes == <<2, 1, 3>>

Symmetry == Permutations(FourInodes) \cup Permutations(ThreeWriters)
=============================================================================
