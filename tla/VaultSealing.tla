------------------------------ MODULE VaultSealing ------------------------------
(***************************************************************************)
(* How a vault is sealed (crates/vault-core: crypto.rs, and create_vault,    *)
(* unlock_vault and rewrap_vault_key of vault.rs): a random data key         *)
(* encrypts the containers, a key derived from the password encrypts the     *)
(* data key, and associated data binds either to where it is stored.        *)
(*                                                                          *)
(* Encryption and key derivation are terms: equal only when everything that  *)
(* went into them is.  Random values are arguments.  The other modules keep  *)
(* of all this that a slot opens with the metadata of its vault and the      *)
(* password that metadata names.                                            *)
(***************************************************************************)
EXTENDS Naturals, Sequences

CONSTANTS
  ValidPasswords,  \* UTF-8 of at least 16 characters
  Failed           \* any error

-----------------------------------------------------------------------------
(* push_aad_field: the length of a field precedes it. *)
Framed(field) == <<Len(field)>> \o field

(* The fields of the associated data.  Framing keeps them apart. *)
WrappedDekAad(v) == <<"pocket-vault", "wrapped-dek", 1, v>>
VaultSlotAad(v, slot, generation) == <<"pocket-vault", "vault-slot", 1, v, slot, generation>>

Encrypt(key, nonce, text, aad) == [key |-> key, nonce |-> nonce, text |-> text, aad |-> aad]

Decrypt(key, nonce, sealed, aad) ==
  IF sealed = Encrypt(key, nonce, sealed.text, aad) THEN sealed.text ELSE Failed

(* KdfParams::from_config and validate *)
KdfFrom(salt, config) ==
  [salt |-> salt, saltBytes |-> 16, memoryKib |-> config.memoryKib,
   iterations |-> config.iterations, parallelism |-> config.parallelism, outputBytes |-> 32]

KdfAccepted(kdf) == /\ kdf.memoryKib \in 19456..262144
                    /\ kdf.iterations \in 1..10
                    /\ kdf.parallelism \in 1..4
                    /\ kdf.saltBytes \in 16..64
                    /\ kdf.outputBytes = 32

DeriveKek(password, v, kdf) == [password |-> password, vaultId |-> v, kdf |-> kdf]

WrapDek(kek, dek, v, nonce) ==
  [nonce |-> nonce, ciphertext |-> Encrypt(kek, nonce, dek, WrappedDekAad(v))]

UnwrapDek(kek, wrapped, v) ==
  Decrypt(kek, wrapped.nonce, wrapped.ciphertext, WrappedDekAad(v))

(* encrypt_for_slot_at_generation *)
SealSlot(dek, container, slot, generation, nonce) ==
  [vaultId |-> container.vaultId, slot |-> slot, generation |-> generation, nonce |-> nonce,
   ciphertext |-> Encrypt(dek, nonce, [container EXCEPT !.generation = generation],
                          VaultSlotAad(container.vaultId, slot, generation))]

(* decrypt_container.  Which entries a container may hold is VaultContainer's. *)
OpenSlot(dek, s) ==
  LET c == Decrypt(dek, s.nonce, s.ciphertext, VaultSlotAad(s.vaultId, s.slot, s.generation))
  IN IF c # Failed /\ c.vaultId = s.vaultId /\ c.generation = s.generation THEN c ELSE Failed

-----------------------------------------------------------------------------
Metadata(password, v, now, kdf, dek, nonce) ==
  [vaultId |-> v, createdAt |-> now, kdf |-> kdf,
   wrappedDek |-> WrapDek(DeriveKek(password, v, kdf), dek, v, nonce)]

EmptyContainer(v, now) == [vaultId |-> v, createdAt |-> now, generation |-> 0, entries |-> {}]

CreateVault(password, config, now, v, salt, dek, nonces) ==
  LET kdf == KdfFrom(salt, config)
      container == EmptyContainer(v, now)
  IN IF password \in ValidPasswords /\ KdfAccepted(kdf)
     THEN [metadata |-> Metadata(password, v, now, kdf, dek, nonces[1]),
           slot |-> SealSlot(dek, container, "A", 0, nonces[2]),
           unlocked |-> [container |-> container, dek |-> dek, persistedSlot |-> "A"]]
     ELSE Failed

UnlockVault(password, metadata, s) ==
  LET dek == UnwrapDek(DeriveKek(password, metadata.vaultId, metadata.kdf),
                       metadata.wrappedDek, metadata.vaultId)
      c == OpenSlot(dek, s)
  IN IF /\ KdfAccepted(metadata.kdf) /\ s.vaultId = metadata.vaultId
        /\ dek # Failed /\ c # Failed
        /\ c.createdAt = metadata.createdAt
     THEN [container |-> c, dek |-> dek, persistedSlot |-> s.slot]
     ELSE Failed

RewrapVaultKey(password, newPassword, metadata, vault, config, salt, nonce) ==
  LET kdf == KdfFrom(salt, config)
      dek == UnwrapDek(DeriveKek(password, metadata.vaultId, metadata.kdf),
                       metadata.wrappedDek, metadata.vaultId)
  IN IF /\ KdfAccepted(metadata.kdf)
        /\ metadata.vaultId = vault.container.vaultId
        /\ metadata.createdAt = vault.container.createdAt
        /\ dek # Failed /\ dek = vault.dek
        /\ newPassword \in ValidPasswords /\ KdfAccepted(kdf)
     THEN Metadata(newPassword, metadata.vaultId, metadata.createdAt, kdf, vault.dek, nonce)
     ELSE Failed

-----------------------------------------------------------------------------
(* A session's container, sealed for any slot and generation, opens to itself
   with the key of the session. *)
SealedOpens(dek, container, slot, generation, nonce) ==
  OpenSlot(dek, SealSlot(dek, container, slot, generation, nonce))
    = [container EXCEPT !.generation = generation]

(* A ciphertext opens under one header only: a slot copied to the other key, or
   one whose generation or vault was changed, is refused. *)
OpensInPlace(dek, s, t) ==
  s.ciphertext = t.ciphertext /\ OpenSlot(dek, s) # Failed /\ OpenSlot(dek, t) # Failed =>
    <<s.vaultId, s.slot, s.generation>> = <<t.vaultId, t.slot, t.generation>>

(* A new vault opens with its password, to the session that created it, and with
   no other password. *)
CreatedOpens(created, password, other) ==
  created # Failed =>
    /\ UnlockVault(password, created.metadata, created.slot) = created.unlocked
    /\ other # password => UnlockVault(other, created.metadata, created.slot) = Failed

(* After a change of the password the new one opens every slot, of this vault or
   any other, to what the old one opened it to, and the old one opens none. *)
RewrapKeeps(metadata, rewrapped, password, newPassword, s) ==
  rewrapped # Failed =>
    /\ UnlockVault(newPassword, rewrapped, s) = UnlockVault(password, metadata, s)
    /\ password # newPassword => UnlockVault(password, rewrapped, s) = Failed
================================================================================
