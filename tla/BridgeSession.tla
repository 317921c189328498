------------------------------ MODULE BridgeSession ------------------------------
(***************************************************************************)
(* One unlocked session of the WebAssembly bridge                           *)
(* (crates/vault-wasm/src/bridge.rs) as a value, and what each call makes of *)
(* it: a save is prepared, verified and committed, a password change is      *)
(* prepared and committed, and while either is pending nothing else may      *)
(* change.  A sealed slot is its key, generation and content, metadata its   *)
(* key and password, both with the nonce that tells two encryptions of the   *)
(* same apart: the bridge compares what was read back with what it prepared  *)
(* byte by byte.                                                            *)
(***************************************************************************)
EXTENDS Naturals

CONSTANTS
  None,
  Oversized  \* versions whose slot does not fit into MAX_SLOT_JSON_BYTES (SlotSizes)

Slots == {"slot_a", "slot_b"}

\* Mutant: the active slot is overwritten in place.
OtherIsSame(slot) == slot

Other(slot) == IF slot = "slot_a" THEN "slot_b" ELSE "slot_a"

(* VaultBridge: vault, metadata, pending, pending_password_change *)
NoSession == [vault |-> None, metadata |-> None, pending |-> None, change |-> None]

Session(slot, sealed, metadata) ==
  [vault |-> [slot |-> slot, key |-> sealed.key, generation |-> sealed.generation,
              content |-> sealed.content],
   metadata |-> metadata, pending |-> None, change |-> None]

Unlocked(s) == s.vault # None

(* A container with its generation, which its slot tells apart *)
Version(sealed) == [generation |-> sealed.generation, content |-> sealed.content]

Fits(sealed) == Version(sealed) \notin Oversized

(* open: of the slots of a legal size that the metadata opens, the newest *)
Selected(got) ==
  LET candidates == {s \in Slots : got[s] # None /\ got[s].key = got["meta"].key
                                  /\ Fits(got[s])}
  IN {s \in candidates : \A o \in candidates : got[o].generation <= got[s].generation}

\* Mutant: a pending save does not keep the container from being edited.
MutableWhilePending(s) == s.change = None /\ Unlocked(s)

(* ensure_mutable *)
Mutable(s) == s.pending = None /\ s.change = None /\ Unlocked(s)

(* add_entry, update_entry, delete_entry *)
WithContent(s, content) == [s EXCEPT !.vault.content = content]

(* encrypt_for_slot: the container, sealed at the next generation *)
NextSealed(s, nonce) == [key |-> s.vault.key, generation |-> s.vault.generation + 1,
                         content |-> s.vault.content, nonce |-> nonce]

(* verify_next_slot: of the next generation, in the other slot, it holds the
   container of the session. *)
IsNextSlot(s, slot, sealed) == /\ slot = Other(s.vault.slot)
                               /\ sealed = NextSealed(s, sealed.nonce)

PointerTo(slot, sealed) == [slot |-> slot, generation |-> sealed.generation]

(* prepare_save *)
WithPreparedSave(s, nonce) ==
  [s EXCEPT !.pending = [slot |-> Other(s.vault.slot), sealed |-> NextSealed(s, nonce),
                         verified |-> FALSE]]

(* verify_pending_slot accepts what was read back. *)
SlotVerifies(s, readback) == /\ Unlocked(s) /\ s.pending # None
                             /\ readback = s.pending.sealed
                             /\ IsNextSlot(s, s.pending.slot, readback)

WithVerifiedSlot(s) == [s EXCEPT !.pending.verified = TRUE]

\* Mutant: the slot need not have been verified.
SaveCommitsUnverified(s, readback) == /\ s.pending # None /\ Unlocked(s)
                                      /\ readback = PointerTo(s.pending.slot, s.pending.sealed)

(* commit_pending_save accepts what was read back. *)
SaveCommits(s, readback) == /\ s.pending # None /\ s.pending.verified /\ Unlocked(s)
                            /\ readback = PointerTo(s.pending.slot, s.pending.sealed)
                            /\ IsNextSlot(s, s.pending.slot, s.pending.sealed)

WithCommittedSave(s) ==
  [s EXCEPT !.vault.slot = s.pending.slot,
            !.vault.generation = s.pending.sealed.generation,
            !.pending = None]

(* cancel_pending_save, cancel_password_change *)
WithoutPendingSave(s) == [s EXCEPT !.pending = None]
WithoutPasswordChange(s) == [s EXCEPT !.change = None]

(* prepare_password_change: the data key wrapped anew *)
WithPreparedPassword(s, password, nonce) ==
  [s EXCEPT !.change = [key |-> s.metadata.key, password |-> password, nonce |-> nonce]]

\* Mutant: the metadata is not compared with what was prepared.
PasswordCommitsUnread(s, readback) == s.change # None

(* commit_password_change, which does not ask whether the session is unlocked:
   locking dropped the pending change *)
PasswordCommits(s, readback) == s.change # None /\ readback = s.change

WithCommittedPassword(s) == [s EXCEPT !.metadata = s.change, !.change = None]

\* Mutant: locking leaves what was pending.
LockedKeepsPending(s) == [s EXCEPT !.vault = None, !.metadata = None]

(* lock *)
Locked(s) == NoSession

=============================================================================
