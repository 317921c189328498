------------------------------- MODULE VaultBridge -------------------------------
(***************************************************************************)
(* The bridge (crates/vault-wasm/src/bridge.rs, wasm.rs) under any order of  *)
(* its calls.  The host calls what it likes, stores the values the bridge    *)
(* hands out or does not, hands back what it reads from the key, and drops   *)
(* the session at any time.  It keeps to docs/INTEGRATION.md in two things:  *)
(* a bundle is stored before its session is used, the first slot before the  *)
(* metadata; and a value that was withdrawn is not stored any more.  And its  *)
(* storage takes no slot above DEVICE_STORAGE_LIMIT_BYTES.                   *)
(***************************************************************************)
EXTENDS BridgeSession

CONSTANTS
  Vaults,         \* data keys, each with its vaultId and createdAt
  Contents, EmptyContent,
  Passwords,      \* master passwords that validate
  MaxGeneration,  \* u64::MAX
  Nonces          \* what tells encryptions apart: nonces, salts

Keys == Slots \cup {"meta", "pointer"}

SealedSlots == [key : Vaults, generation : 0..MaxGeneration, content : Contents, nonce : Nonces]
Metadata == [key : Vaults, password : Passwords, nonce : Nonces]
Pointers == [slot : Slots, generation : 0..MaxGeneration]
OpenVaults == [slot : Slots, key : Vaults, generation : 0..MaxGeneration, content : Contents]
PendingSaves == [slot : Slots, sealed : SealedSlots, verified : BOOLEAN]
SessionRecords == [vault : OpenVaults \cup {None}, metadata : Metadata \cup {None},
                   pending : PendingSaves \cup {None}, change : Metadata \cup {None}]
Versions == [generation : 0..MaxGeneration, content : Contents]
Bundles == [slot_a : SealedSlots \cup {None}, slot_b : {None}, meta : Metadata \cup {None},
            pointer : Pointers \cup {None}]

ASSUME MaxGenerationAssumption == MaxGeneration \in Nat
ASSUME EmptyContentAssumption ==
  EmptyContent \in Contents /\ [generation |-> 0, content |-> EmptyContent] \notin Oversized
ASSUME NoneAssumption ==
  None \notin SealedSlots \cup Metadata \cup Pointers \cup OpenVaults \cup PendingSaves
                \cup Bundles \cup Versions

VARIABLES
  session,  \* the VaultBridge of the page
  bundle,   \* what a create or open handed out for each key, until takeSession; or None
  storage   \* what is stored under each key, or None

vars == <<session, bundle, storage>>

Bundle(slot, meta, pointer) ==
  [slot_a |-> slot, slot_b |-> None, meta |-> meta, pointer |-> pointer]

-----------------------------------------------------------------------------
Init == session = NoSession /\ bundle = None /\ storage = [k \in Keys |-> None]

(* VaultSession.create, for which the host looked for metadata first *)
Create(key, password, nonce) ==
  LET sealed == [key |-> key, generation |-> 0, content |-> EmptyContent, nonce |-> nonce]
      meta == [key |-> key, password |-> password, nonce |-> nonce]
  IN /\ ~Unlocked(session) /\ storage["meta"] = None
     /\ \A s \in Slots : storage[s] # None => storage[s].key # key
     /\ session' = Session("slot_a", sealed, meta)
     /\ bundle' = Bundle(sealed, meta, PointerTo("slot_a", sealed))
     /\ UNCHANGED storage

(* VaultSession.open with the right password; a missing or stale pointer is
   handed out repaired. *)
Open(slot) ==
  LET pointer == PointerTo(slot, storage[slot])
  IN /\ ~Unlocked(session) /\ storage["meta"] # None /\ slot \in Selected(storage)
     /\ session' = Session(slot, storage[slot], storage["meta"])
     /\ bundle' = Bundle(None, None, IF storage["pointer"] = pointer THEN None ELSE pointer)
     /\ UNCHANGED storage

(* The host stores a value of a bundle ... *)
StoreBundled(k) ==
  /\ bundle # None /\ bundle[k] # None
  /\ k = "meta" => storage["slot_a"] = bundle["slot_a"]
  /\ storage' = [storage EXCEPT ![k] = bundle[k]]
  /\ UNCHANGED <<session, bundle>>

(* ... and takes the session once all are there. *)
TakeSession ==
  /\ bundle # None /\ \A k \in Keys : bundle[k] # None => storage[k] = bundle[k]
  /\ bundle' = None
  /\ UNCHANGED <<session, storage>>

-----------------------------------------------------------------------------
(* Calls of the session.  One that fails leaves everything as it is. *)
Call(s) == bundle = None /\ session' = s /\ UNCHANGED <<bundle, storage>>

Callable == bundle = None /\ Mutable(session)

(* addEntry, updateEntry, deleteEntry *)
Edit(content) == Callable /\ Call(WithContent(session, content))

\* Mutant: the generation is not checked against its last value.
PrepareSaveUnchecked(nonce) == Callable /\ Call(WithPreparedSave(session, nonce))

PrepareSave(nonce) ==
  /\ Callable /\ session.vault.generation < MaxGeneration
  /\ \A s \in Slots : storage[s] # None => storage[s].nonce # nonce
  /\ Call(WithPreparedSave(session, nonce))

VerifyPendingSlot(slot) ==
  /\ storage[slot] # None /\ SlotVerifies(session, storage[slot])
  /\ Call(WithVerifiedSlot(session))

CommitPendingSave ==
  SaveCommits(session, storage["pointer"]) /\ Call(WithCommittedSave(session))

CancelPendingSave == Call(WithoutPendingSave(session))

PreparePasswordChange(current, new, nonce) ==
  /\ Callable /\ current = session.metadata.password
  /\ \A m \in {session.metadata, storage["meta"]} : m.nonce # nonce
  /\ Call(WithPreparedPassword(session, new, nonce))

CommitPasswordChange ==
  PasswordCommits(session, storage["meta"]) /\ Call(WithCommittedPassword(session))

CancelPasswordChange == Call(WithoutPasswordChange(session))

(* lock, and a page that goes away *)
Lock == session' = Locked(session) /\ bundle' = None /\ UNCHANGED storage

-----------------------------------------------------------------------------
(* The host stores what is pending, or part of it. *)
Store(k, v) == /\ bundle = None
               /\ storage' = [storage EXCEPT ![k] = v]
               /\ UNCHANGED <<session, bundle>>

\* Mutant: the storage has no limit of its own, and prepare_save checks none.
StoreSlotOfAnySize ==
  session.pending # None /\ Store(session.pending.slot, session.pending.sealed)

StoreSlot == /\ session.pending # None /\ Fits(session.pending.sealed)
             /\ Store(session.pending.slot, session.pending.sealed)

StorePointer ==
  /\ session.pending # None
  /\ Store("pointer", PointerTo(session.pending.slot, session.pending.sealed))

StoreMetadata == session.change # None /\ Store("meta", session.change)

Host == (\E k \in Keys : StoreBundled(k)) \/ StoreSlot \/ StorePointer \/ StoreMetadata

Next ==
  \/ \E v \in Vaults, p \in Passwords, n \in Nonces : Create(v, p, n)
  \/ \E s \in Slots : Open(s) \/ VerifyPendingSlot(s)
  \/ TakeSession
  \/ \E c \in Contents : Edit(c)
  \/ \E n \in Nonces : PrepareSave(n)
  \/ CommitPendingSave \/ CancelPendingSave
  \/ \E p, q \in Passwords, n \in Nonces : PreparePasswordChange(p, q, n)
  \/ CommitPasswordChange \/ CancelPasswordChange
  \/ Lock
  \/ Host

Spec == Init /\ [][Next]_vars

-----------------------------------------------------------------------------
TypeOK ==
  /\ session \in SessionRecords
  /\ storage \in [Keys -> SealedSlots \cup Metadata \cup Pointers \cup {None}]
  /\ \A s \in Slots : storage[s] \in SealedSlots \cup {None}
  /\ storage["meta"] \in Metadata \cup {None}
  /\ bundle \in Bundles \cup {None}

(* Locking leaves nothing behind that a later call could act upon: a password
   change in particular commits without asking whether the session is unlocked. *)
LockLeavesNothing == ~Unlocked(session) => session = NoSession /\ bundle = None

(* Whatever was called since, a pending save seals the container as the session
   holds it, for the slot that is due: the last check of commit_pending_save,
   after the storage already holds slot and pointer, cannot refuse it. *)
PendingIsNext ==
  session.pending # None =>
    /\ Unlocked(session) /\ session.change = None
    /\ IsNextSlot(session, session.pending.slot, session.pending.sealed)

(* A session that can be called has its last committed generation in the slot it
   names, of a size that opens and under metadata that opens it, whatever has been
   written, withdrawn or repeated since; the other slot is at most one generation
   ahead, and a verified pending save is what it holds. *)
CommittedStands ==
  Unlocked(session) /\ bundle = None =>
    LET v == session.vault
        own == storage[v.slot]
        other == storage[Other(v.slot)]
    IN /\ storage["meta"] # None /\ storage["meta"].key = v.key
       /\ own # None /\ own.key = v.key /\ own.generation = v.generation
       /\ Fits(own)
       /\ other # None /\ other.key = v.key => other.generation <= v.generation + 1
       /\ session.pending # None /\ session.pending.verified => other = session.pending.sealed

(* What opening a storage gives *)
VersionIn(st) == IF st["meta"] = None \/ Selected(st) = {} THEN None
                 ELSE Version(st[CHOOSE s \in Selected(st) : TRUE])

OfferedVersion == IF session.pending # None THEN Version(session.pending.sealed)
                  ELSE IF bundle # None /\ bundle["slot_a"] # None THEN Version(bundle["slot_a"])
                  ELSE None

Container == INSTANCE TwoPhaseWrite WITH
  stored <- VersionIn(storage), offered <- OfferedVersion,
  working <- IF Unlocked(session) THEN Version(session.vault) ELSE None

OfferedMetadata == IF session.change # None THEN session.change
                   ELSE IF bundle # None THEN bundle["meta"] ELSE None

Password == INSTANCE TwoPhaseWrite WITH
  Versions <- Metadata, stored <- storage["meta"], working <- session.metadata,
  offered <- OfferedMetadata

(* Saving is a two-phase write of the container, whatever the order of the calls:
   what opens changes only to the version on offer, and a save commits only
   when it is what opens. *)
SavesInTwoPhases == Container!Spec

(* Changing the password is one of the metadata. *)
ChangesInTwoPhases == Password!Spec
=============================================================================
