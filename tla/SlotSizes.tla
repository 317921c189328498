------------------------------- MODULE SlotSizes -------------------------------
(***************************************************************************)
(* The sizes of a slot, in bytes: what vault-core makes of a container of a  *)
(* given length on the way into the storage, and which of its limits meet    *)
(* the slot there and on the way back.  The repository checks the JSON it    *)
(* writes; the bridge's prepare_save relies on the limit of the plaintext.   *)
(***************************************************************************)
EXTENDS Naturals

CONSTANT Limit  \* DEVICE_STORAGE_LIMIT_BYTES, of a slot and of its plaintext

ASSUME LimitAssumption == Limit \in Nat

TagBytes == 16
NonceBytes == 24
IdBytes == 16

(* encode_base64url: three bytes are four characters, and there is no padding. *)
EncodedLength(n) == 4 * (n \div 3) + (IF n % 3 = 0 THEN 0 ELSE (n % 3) + 1)

(* decode_base64url refuses padding, and with it no length but these. *)
Decodable(m) == m % 4 # 1
DecodedLength(m) == 3 * (m \div 4) + (IF m % 4 = 0 THEN 0 ELSE (m % 4) - 1)

(* The JSON of a slot but for generation and ciphertext: the names of its fields,
   their punctuation, format, version, slot and algorithm, and vaultId and nonce. *)
EnvelopeBytes == 135 + EncodedLength(IdBytes) + EncodedLength(NonceBytes)

(* A plaintext of p bytes, sealed and serialised at a generation of d digits *)
CiphertextBytes(p) == p + TagBytes
SlotJsonBytes(p, d) == EnvelopeBytes + d + EncodedLength(CiphertextBytes(p))

(* serialize_container *)
Seals(p) == p <= IF Limit < TagBytes THEN 0 ELSE Limit - TagBytes

(* write_json_verified and read_optional_json *)
WithinLimit(p, d) == SlotJsonBytes(p, d) <= Limit

(* EncryptedVaultSlotV1::validate and decrypt_container *)
Validates(p) == CiphertextBytes(p) \in TagBytes..Limit
Decrypts(p) == p <= Limit

(* What the repository saves, what the bridge hands out to be stored, and what
   open accepts of what is stored *)
Saves(p, d) == Seals(p) /\ WithinLimit(p, d)
HandedOut(p) == Seals(p)
Opens(p, d) == WithinLimit(p, d) /\ Validates(p) /\ Decrypts(p)
================================================================================
