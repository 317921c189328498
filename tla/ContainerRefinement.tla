-------------------------- MODULE ContainerRefinement --------------------------
(***************************************************************************)
(* VaultContainer implements EntryBook: the id decides which entry, wherever *)
(* it stands in the sequence.                                               *)
(***************************************************************************)
EXTENDS VaultContainer

BookOf(c) == IF c = Absent
             THEN Absent
             ELSE [id \in IdsOf(c) |-> c.entries[PositionOf(c, id)].fields]

Book == INSTANCE EntryBook WITH
  Closed <- Absent, Capacity <- MaxEntries, book <- BookOf(container), saved <- BookOf(stored)

ASSUME ClosedAssumption == Absent \notin Book!Books

(* The list of entries behaves as a book keyed by id: an operation changes the
   entry it names and no other, a save stores the whole book and an open brings
   back exactly what was saved. *)
ImplementsEntryBook == Book!Spec

=============================================================================
