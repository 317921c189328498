-------------------------------- MODULE EntryBook --------------------------------
(***************************************************************************)
(* What an unlocked vault promises about its entries, order and timestamps  *)
(* left out: a book from ids to fields that is added to, changed or struck  *)
(* out one entry at a time, saved as a whole, and read back as saved.       *)
(***************************************************************************)
EXTENDS Naturals, FiniteSets

CONSTANTS Ids, ValidFields, Capacity, Closed

VARIABLES book, saved, named

Books == UNION {[S -> ValidFields] : S \in SUBSET Ids}

Init == book = Closed /\ saved = Closed /\ named = Closed

Start == /\ saved = Closed
         /\ book' = [i \in {} |-> CHOOSE f \in ValidFields : TRUE]
         /\ saved' = book'
         /\ UNCHANGED named

Put(id, f) ==
  /\ book # Closed
  /\ Cardinality(DOMAIN book \cup {id}) <= Capacity
  /\ book' = [i \in DOMAIN book \cup {id} |-> IF i = id THEN f ELSE book[i]]
  /\ named' = id
  /\ UNCHANGED saved

Strike(id) ==
  /\ book # Closed /\ id \in DOMAIN book
  /\ book' = [i \in DOMAIN book \ {id} |-> book[i]]
  /\ named' = id
  /\ UNCHANGED saved

Save == book # Closed /\ saved' = book /\ UNCHANGED <<book, named>>

Close == book' = Closed /\ UNCHANGED <<saved, named>>

Reopen == book = Closed /\ saved # Closed /\ book' = saved /\ UNCHANGED <<saved, named>>

Next == \/ Start \/ Save \/ Close \/ Reopen
        \/ \E id \in Ids : Strike(id) \/ \E f \in ValidFields : Put(id, f)

Spec == Init /\ [][Next]_<<book, saved, named>>

=============================================================================
