------------------------------ MODULE VaultFormat ------------------------------
(***************************************************************************)
(* The persistent records of crates/vault-core/src/model.rs and the pure    *)
(* decisions the code takes about them: which slot is next, whether a slot  *)
(* read back is the one that was prepared, which slots open accepts and     *)
(* which of them it returns.  The repository (storage.rs) and the web       *)
(* client (vault-wasm, web/src) both work on these.                         *)
(*                                                                          *)
(* Cryptography is abstracted to what it guarantees: a slot record is what  *)
(* the vault named in it encrypted, and only metadata of the same vault,    *)
(* opened with the password that wraps its key, makes it readable.          *)
(***************************************************************************)
EXTENDS Naturals

CONSTANTS
  Vaults,        \* vault identities: random vaultId, DEK and createdAt together
  Passwords,
  Contents,      \* what a container holds besides its identity and generation
  EmptyContent,  \* the container without entries
  Oversized,     \* contents whose slot JSON exceeds MAX_SLOT_JSON_BYTES
  MaxGen,        \* u64::MAX, the last generation
  None,          \* no value under a key, no session, no running operation
  Garbage        \* a value that does not parse, validate or authenticate

SlotIds == {"A", "B"}
Keys == SlotIds \cup {"meta", "active"}

SlotRecords == [vault : Vaults, slot : SlotIds, gen : 0..MaxGen, content : Contents]
MetaRecords == [vault : Vaults, password : Passwords]
PointerRecords == [slot : SlotIds, gen : 0..MaxGen]

ASSUME MaxGenAssumption == MaxGen \in Nat
ASSUME ContentAssumption == /\ EmptyContent \in Contents \ Oversized
                            /\ Oversized \subseteq Contents

-----------------------------------------------------------------------------
\* Mutant: the active slot is overwritten in place.
OtherIsSame(s) == s

Other(s) == IF s = "A" THEN "B" ELSE "A"

\* The slot that a vault's generation goes to: create_vault puts generation 0
\* in slot A and every save alternates.
SlotOf(g) == IF g % 2 = 0 THEN "A" ELSE "B"

PointerTo(c) == [slot |-> c.slot, gen |-> c.gen]

\* Mutants: the generation is not advanced, or advanced twice.
NextSlotSameGeneration(v) == [v EXCEPT !.slot = Other(v.slot)]
NextSlotTwiceAdvanced(v) == [v EXCEPT !.slot = Other(v.slot), !.gen = IF v.gen + 2 > MaxGen THEN MaxGen ELSE v.gen + 2]

\* UnlockedVault::encrypt_for_slot_at_generation for the slot and generation
\* that TwoSlotRepository::save chooses.
NextSlot(v) == [v EXCEPT !.slot = Other(v.slot), !.gen = v.gen + 1]

\* UnlockedVault::verify_next_slot: the inactive slot, exactly the next
\* generation, and the very container of the session.
VerifyNextSlot(v, c) == /\ v.gen < MaxGen
                        /\ c.slot = Other(v.slot)
                        /\ c.gen = v.gen + 1
                        /\ c.vault = v.vault
                        /\ c.content = v.content

\* decrypt_slot_payload and decrypt_container: the data key and the associated
\* data, which name vault, slot and generation, open only slots of m's vault.
Authenticates(c, m) == c.vault = m.vault

\* derive_kek and unwrap_dek: only the password that wrapped the data key opens it.
Unwraps(p, m) == p = m.password

\* Mutant: a slot left by another vault counts.
CandidatesOfAnyVault(seen, m) ==
  {seen[s] : s \in {t \in SlotIds : /\ seen[t] \in SlotRecords
                                    /\ seen[t].content \notin Oversized
                                    /\ seen[t].slot = t}}

\* The slots among seen that open accepts under metadata m: they parse within
\* the size limit, carry the slot id of their key and authenticate as m's vault.
Candidates(seen, m) ==
  {seen[s] : s \in {t \in SlotIds : /\ seen[t] \in SlotRecords
                                    /\ seen[t].content \notin Oversized
                                    /\ seen[t].slot = t
                                    /\ Authenticates(seen[t], m)}}

\* Mutant: the pointer is believed before the generation.
BeforeByPointer(l, r, pointer) ==
  \/ PointerTo(l) = pointer /\ PointerTo(r) # pointer
  \/ (PointerTo(l) = pointer <=> PointerTo(r) = pointer) /\ l.gen > r.gen
  \/ (PointerTo(l) = pointer <=> PointerTo(r) = pointer) /\ l.gen = r.gen /\ l.slot = "A"

\* The stable sort of open: the higher generation first, then the slot the
\* pointer names, then slot A, which is pushed first.
Before(l, r, pointer) ==
  \/ l.gen > r.gen
  \/ l.gen = r.gen /\ PointerTo(l) = pointer /\ PointerTo(r) # pointer
  \/ l.gen = r.gen /\ (PointerTo(l) = pointer <=> PointerTo(r) = pointer) /\ l.slot = "A"

Selected(c, cands, pointer) == /\ c \in cands
                               /\ \A d \in cands \ {c} : Before(c, d, pointer)

=============================================================================
