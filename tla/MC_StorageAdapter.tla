--------------------------- MODULE MC_StorageAdapter ---------------------------
(* Model-checking instance of StorageAdapter. *)
EXTENDS StorageAdapter, TLC

CONSTANTS v1, v2

MCValues == {v1, v2}
=============================================================================
