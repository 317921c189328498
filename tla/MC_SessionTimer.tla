---------------------------- MODULE MC_SessionTimer ----------------------------
(* Model-checking instance of SessionTimer. *)
EXTENDS SessionTimer

MCTimeouts == {1, 3}
=============================================================================
