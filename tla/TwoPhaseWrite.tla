----------------------------- MODULE TwoPhaseWrite -----------------------------
(***************************************************************************)
(* What the bridge promises about either of the values it stores, the        *)
(* container and the metadata, with no slots, generations or calls.          *)
(*                                                                          *)
(* A session works on a version and offers one to be stored.  What is        *)
(* stored changes only to what is on offer; an offer is settled, and becomes *)
(* the session's version, only once it is what is stored; nothing else is    *)
(* done to the session's version while an offer is out.  An offer withdrawn  *)
(* and a session closed leave behind whatever is stored.                     *)
(***************************************************************************)
CONSTANTS Versions, None

VARIABLES
  stored,   \* what opening the storage gives, or None
  working,  \* the version of the session, or None
  offered   \* the version to be stored, or None

vars == <<stored, working, offered>>

Init == stored = None /\ working = None /\ offered = None

(* A first version is made and offered. *)
Begin(v) == /\ stored = None /\ working = None
            /\ working' = v /\ offered' = v /\ UNCHANGED stored

Open == /\ stored # None /\ working = None
        /\ working' = stored /\ UNCHANGED <<stored, offered>>

Change(v) == /\ working # None /\ offered = None
             /\ working' = v /\ UNCHANGED <<stored, offered>>

Offer(v) == /\ working # None /\ offered = None
            /\ offered' = v /\ UNCHANGED <<stored, working>>

Store == /\ offered # None
         /\ stored' = offered /\ UNCHANGED <<working, offered>>

Settle == /\ offered # None /\ stored = offered
          /\ working' = offered /\ offered' = None /\ UNCHANGED stored

Withdraw == offered' = None /\ UNCHANGED <<stored, working>>

Close == working' = None /\ offered' = None /\ UNCHANGED stored

Next == \/ \E v \in Versions : Begin(v) \/ Change(v) \/ Offer(v)
        \/ Open \/ Store \/ Settle \/ Withdraw \/ Close

Spec == Init /\ [][Next]_vars
=============================================================================
