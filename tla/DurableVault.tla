------------------------------ MODULE DurableVault ------------------------------
(***************************************************************************)
(* What the two-slot repository promises to its client, with no slots, no   *)
(* pointer, no storage calls and no failures of them.                       *)
(*                                                                          *)
(* There is one stable version of the vault, the last one the client was    *)
(* told about, and at most one tentative version above it: a creation or a  *)
(* save that has reached the storage and was not acknowledged.  Opening     *)
(* returns the tentative version if there is one and the stable one         *)
(* otherwise, and makes it stable.  Closing, which a crash is a case of,    *)
(* loses the edits in memory and nothing else.                              *)
(***************************************************************************)
EXTENDS Naturals

CONSTANTS Vaults, Contents, EmptyContent, None

VARIABLES
  stable,     \* the version the client knows, or None
  tentative,  \* the version an unacknowledged write left, or None
  session     \* the open vault: its identity and its content in memory, or None

vars == <<stable, tentative, session>>

Version(v, g, c) == [vault |-> v, gen |-> g, content |-> c]

\* What opening the vault now would return.
Newest == IF tentative # None THEN tentative ELSE stable

\* The version that saving the session makes.
Successor == Version(session.vault, stable.gen + 1, session.content)

Init == stable = None /\ tentative = None /\ session = None

\* A creation reaches the storage.
Create(v) ==
  /\ stable = None /\ tentative = None /\ session = None
  /\ tentative' = Version(v, 0, EmptyContent)
  /\ UNCHANGED <<stable, session>>

\* A creation is acknowledged, or the vault is opened.
Open ==
  /\ session = None /\ Newest # None
  /\ stable' = Newest
  /\ tentative' = None
  /\ session' = [vault |-> Newest.vault, content |-> Newest.content]

Edit(c) ==
  /\ session # None
  /\ session' = [session EXCEPT !.content = c]
  /\ UNCHANGED <<stable, tentative>>

\* A save reaches the storage, or only spoils an earlier attempt there.
Attempt ==
  /\ session # None
  /\ tentative' \in {None, Successor}
  /\ UNCHANGED <<stable, session>>

\* A save is acknowledged: only what has reached the storage ever is.
Acknowledge ==
  /\ session # None /\ tentative = Successor
  /\ stable' = tentative
  /\ tentative' = None
  /\ UNCHANGED session

Close ==
  /\ session # None
  /\ session' = None
  /\ UNCHANGED <<stable, tentative>>

Destroy ==
  /\ session = None
  /\ stable' = None
  /\ tentative' = None
  /\ UNCHANGED session

Next == \/ \E v \in Vaults : Create(v)
        \/ Open
        \/ \E c \in Contents : Edit(c)
        \/ Attempt
        \/ Acknowledge
        \/ Close
        \/ Destroy

Spec == Init /\ [][Next]_vars
=============================================================================
