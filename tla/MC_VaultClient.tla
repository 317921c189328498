----------------------------- MODULE MC_VaultClient -----------------------------
(* Model-checking instance of VaultClient. *)
EXTENDS ClientInvariant

CONSTANTS t1, t2, s1, s2, s3

MCTasks == {t1, t2}
MCSessions == {s1, s2, s3}

\* The first save does not fit if it is the third thing the user asks for.
TooLarge == {[generation |-> 1, content |-> {3}]}

Pools == Permutations(MCTasks) \cup Permutations(MCSessions)
=============================================================================
