---------------------------- MODULE VaultContainer ----------------------------
(***************************************************************************)
(* The decrypted container of an unlocked vault (crates/vault-core):        *)
(* add_entry, update_entry and delete_entry of vault.rs over the entries    *)
(* and timestamps of model.rs, with the validation every container must     *)
(* pass when it is read back after a save and when it is opened again.      *)
(*                                                                          *)
(* The caller supplies the time, which may run backwards from call to call  *)
(* (Date.now() after a clock change) and from session to session.           *)
(***************************************************************************)
EXTENDS Naturals, Sequences, SequencesExt

CONSTANTS
  Ids,          \* EntryId values the generator may draw
  Fields,       \* title, secret and description together
  ValidFields,  \* those within the length limits of validate_entry_fields
  MaxEntries,   \* MAX_ENTRIES
  MaxTime,      \* the latest timestamp
  Absent        \* no container: the session is locked, nothing is stored

Times == 0..MaxTime

Entries == [id : Ids, fields : Fields, createdAt : Times, updatedAt : Times]
Containers == [createdAt : Times, updatedAt : Times, entries : Seq(Entries)]

Outcomes == {"none", "ok", "InvalidContainer", "VaultTooLarge", "EntryNotFound",
             "RandomGenerationFailed", "Locked", "SlotVerificationFailed"}

ASSUME FieldsAssumption == ValidFields \subseteq Fields
ASSUME BoundsAssumption == MaxEntries \in Nat /\ MaxTime \in Nat
ASSUME AbsentAssumption == Absent \notin Containers

VARIABLES
  container,  \* the container of the session, or Absent
  stored,     \* the container in the committed slot, or Absent
  outcome,    \* what the last operation returned
  named       \* the entry the last edit was asked for, or gave its id

vars == <<container, stored, outcome, named>>

-----------------------------------------------------------------------------
\* Mutant: the clock of the caller is taken as it is.
LaterIsNow(t, u) == t

\* Mutant: every operation moves the clock on.
LaterStrictly(t, u) == IF t > u THEN t ELSE u + 1

\* now.max(updated_at)
Later(t, u) == IF t >= u THEN t ELSE u

IdsOf(c) == {c.entries[i].id : i \in DOMAIN c.entries}

\* The position that find and position stop at: the first one with this id.
PositionOf(c, id) == CHOOSE i \in DOMAIN c.entries :
                       /\ c.entries[i].id = id
                       /\ \A j \in DOMAIN c.entries : c.entries[j].id = id => i <= j

\* VaultEntry::validate within VaultContainerV1::validate.
EntryAccepted(c, e) == /\ e.fields \in ValidFields
                       /\ e.createdAt <= e.updatedAt
                       /\ c.createdAt <= e.createdAt
                       /\ e.updatedAt <= c.updatedAt

\* VaultContainerV1::validate, which decrypt_container applies to every slot.
Accepted(c) == /\ c.createdAt <= c.updatedAt
               /\ Len(c.entries) <= MaxEntries
               /\ \A i \in DOMAIN c.entries : EntryAccepted(c, c.entries[i])
               /\ \A i, j \in DOMAIN c.entries : c.entries[i].id = c.entries[j].id => i = j

\* create_vault: an empty container at the current time.
EmptyAt(now) == [createdAt |-> now, updatedAt |-> now, entries |-> <<>>]

Touched(c, now, entries) == [c EXCEPT !.entries = entries, !.updatedAt = Later(now, @)]

Fail(code) == /\ outcome' = code
              /\ UNCHANGED <<container, stored, named>>

Edited(id) == /\ outcome' = "ok"
              /\ named' = id
              /\ UNCHANGED stored

-----------------------------------------------------------------------------
Init == container = Absent /\ stored = Absent /\ outcome = "none" /\ named = Absent

CreateVault(now) ==
  /\ stored = Absent
  /\ container' = EmptyAt(now)
  /\ stored' = EmptyAt(now)
  /\ outcome' = "ok"
  /\ UNCHANGED named

AddRefused(fields) ==
  \/ fields \notin ValidFields /\ Fail("InvalidContainer")
  \/ /\ fields \in ValidFields
     /\ Len(container.entries) >= MaxEntries
     /\ Fail("VaultTooLarge")
  \/ /\ fields \in ValidFields
     /\ Len(container.entries) < MaxEntries
     /\ Fail("RandomGenerationFailed")

\* Mutant: one entry more than the limit.
AddEntryOneMore(id, fields, now) ==
  /\ container # Absent
  /\ fields \in ValidFields /\ Len(container.entries) <= MaxEntries
  /\ id \notin IdsOf(container)
  /\ LET t == Later(now, container.updatedAt) IN
     container' = Touched(container, now, Append(container.entries,
                    [id |-> id, fields |-> fields, createdAt |-> t, updatedAt |-> t]))
  /\ Edited(id)

(* add_entry: the id is one that no entry has, or eight draws were all taken or
   the generator failed. *)
AddEntry(id, fields, now) ==
  /\ container # Absent
  /\ \/ AddRefused(fields)
     \/ /\ fields \in ValidFields
        /\ Len(container.entries) < MaxEntries
        /\ id \notin IdsOf(container)
        /\ LET t == Later(now, container.updatedAt) IN
           container' = Touched(container, now, Append(container.entries,
                          [id |-> id, fields |-> fields, createdAt |-> t, updatedAt |-> t]))
        /\ Edited(id)

\* Mutant: the entry is stamped with the caller's time.
UpdateEntryAtNow(id, fields, now) ==
  /\ container # Absent
  /\ fields \in ValidFields /\ id \in IdsOf(container)
  /\ LET at == PositionOf(container, id)
         old == container.entries[at]
         new == [old EXCEPT !.fields = fields, !.updatedAt = Later(now, old.createdAt)]
     IN container' = Touched(container, now, ReplaceAt(container.entries, at, new))
  /\ Edited(id)

(* update_entry *)
UpdateEntry(id, fields, now) ==
  /\ container # Absent
  /\ \/ fields \notin ValidFields /\ Fail("InvalidContainer")
     \/ fields \in ValidFields /\ id \notin IdsOf(container) /\ Fail("EntryNotFound")
     \/ /\ fields \in ValidFields /\ id \in IdsOf(container)
        /\ LET at == PositionOf(container, id)
               old == container.entries[at]
               new == [old EXCEPT !.fields = fields,
                                  !.updatedAt = Later(Later(now, container.updatedAt), old.createdAt)]
           IN container' = Touched(container, now, ReplaceAt(container.entries, at, new))
        /\ Edited(id)

\* Mutant: the entry after the one found is removed.
DeleteEntryNext(id, now) ==
  /\ container # Absent
  /\ id \in IdsOf(container)
  /\ LET at == PositionOf(container, id)
         next == IF at < Len(container.entries) THEN at + 1 ELSE at
     IN container' = Touched(container, now, RemoveAt(container.entries, next))
  /\ Edited(id)

(* delete_entry *)
DeleteEntry(id, now) ==
  /\ container # Absent
  /\ \/ id \notin IdsOf(container) /\ Fail("EntryNotFound")
     \/ /\ id \in IdsOf(container)
        /\ container' = Touched(container, now,
                          RemoveAt(container.entries, PositionOf(container, id)))
        /\ Edited(id)

(* A save: the slot is decrypted and validated before it is committed; a
   container that validation refuses can never be stored.  A save may also fail
   in the storage, after which the web client locks the session. *)
Save ==
  /\ container # Absent
  /\ IF Accepted(container)
     THEN /\ stored' = container
          /\ outcome' = "ok"
          /\ UNCHANGED <<container, named>>
     ELSE Fail("SlotVerificationFailed")

Lock ==
  /\ container # Absent
  /\ container' = Absent
  /\ outcome' = "none"
  /\ UNCHANGED <<stored, named>>

(* Opening decrypts and validates the stored container. *)
Open ==
  /\ container = Absent /\ stored # Absent
  /\ IF Accepted(stored)
     THEN /\ container' = stored
          /\ outcome' = "ok"
          /\ UNCHANGED <<stored, named>>
     ELSE Fail("InvalidContainer")

Next ==
  \/ \E now \in Times :
       \/ CreateVault(now)
       \/ \E id \in Ids : \/ DeleteEntry(id, now)
                          \/ \E f \in Fields : AddEntry(id, f, now) \/ UpdateEntry(id, f, now)
  \/ Save
  \/ Lock
  \/ Open

Spec == Init /\ [][Next]_vars

-----------------------------------------------------------------------------
TypeOK == /\ container \in Containers \cup {Absent}
          /\ stored \in Containers \cup {Absent}
          /\ outcome \in Outcomes
          /\ named \in Ids \cup {Absent}

(* Whatever the sequence of operations and the caller's clock do, the container
   passes VaultContainerV1::validate: a save is never refused for it and what
   was saved can be opened again. *)
AlwaysAccepted == /\ container # Absent => Accepted(container)
                  /\ stored # Absent => Accepted(stored)

(* The entry just added or changed is the newest of the list, which the client
   shows ordered by updatedAt: no entry carries a later time than the one the
   user touched last, even when the clock was set back in between. *)
TouchedIsNewest ==
  [][container # Absent /\ container' # Absent =>
       \A i, k \in DOMAIN container'.entries :
         (\A j \in DOMAIN container.entries : container.entries[j] # container'.entries[i])
         => container'.entries[k].updatedAt <= container'.entries[i].updatedAt]_container

(* From one stored container to the next, time moves forward: the container's
   and each surviving entry's, also over locks and reopenings. *)
TimelineAdvances ==
  [][stored # Absent =>
       /\ stored'.createdAt = stored.createdAt
       /\ stored'.updatedAt >= stored.updatedAt
       /\ \A i \in DOMAIN stored.entries, j \in DOMAIN stored'.entries :
            stored.entries[i].id = stored'.entries[j].id =>
              /\ stored'.entries[j].createdAt >= stored.entries[i].createdAt
              /\ stored'.entries[j].updatedAt >= stored.entries[i].updatedAt]_stored

=============================================================================
