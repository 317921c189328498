--------------------------- MODULE MC_VaultContainer ---------------------------
(* Model-checking instance of VaultContainer and of its refinement. *)
EXTENDS ContainerRefinement, TLC

CONSTANTS i1, i2, i3, short, long, tooLong

MCIds == {i1, i2, i3}
MCFields == {short, long, tooLong}
MCValidFields == {short, long}

Interchangeable == Permutations(MCIds)

=============================================================================
