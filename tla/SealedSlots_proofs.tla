-------------------------- MODULE SealedSlots_proofs --------------------------
(***************************************************************************)
(* The slots of the vault: what the encryption of vault-core binds together, *)
(* for all keys, passwords, nonces, vaults and containers, and how large the *)
(* slots are, for every limit.                                              *)
(***************************************************************************)
EXTENDS VaultSealing, SlotSizes, SequenceTheorems, TLAPS

-----------------------------------------------------------------------------
(* What a sealed slot is bound to *)
(* Where the elements of a concatenation are, after a first part of n + 1. *)
LEMMA Spliced ==
  ASSUME NEW T, NEW a \in Seq(T), NEW b \in Seq(T), NEW n \in Nat, Len(a) = n + 1
  PROVE  /\ Len(a \o b) = n + 1 + Len(b)
         /\ \A i \in 1..n : (a \o b)[i + 1] = a[i + 1]
         /\ \A i \in 1..Len(b) : (a \o b)[n + 1 + i] = b[i]
<1>1. /\ Len(a \o b) = Len(a) + Len(b)
      /\ \A j \in 1..Len(a) + Len(b) :
           (a \o b)[j] = IF j <= Len(a) THEN a[j] ELSE b[j - Len(a)]
  BY ConcatProperties
<1>2. Len(b) \in Nat
  OBVIOUS
<1>3. ASSUME NEW i \in 1..n
      PROVE  (a \o b)[i + 1] = a[i + 1]
  <2>1. i + 1 \in 1..Len(a) + Len(b) /\ i + 1 <= Len(a)
    BY <1>2
  <2> QED BY <1>1, <2>1
<1>4. ASSUME NEW i \in 1..Len(b)
      PROVE  (a \o b)[n + 1 + i] = b[i]
  <2>1. n + 1 + i \in 1..Len(a) + Len(b) /\ ~(n + 1 + i <= Len(a)) /\ n + 1 + i - Len(a) = i
    BY <1>2
  <2> QED BY <1>1, <2>1
<1> QED BY <1>1, <1>3, <1>4

(* text holds the length of f, f itself, and then r. *)
Reads(text, f, r) ==
  /\ text[1] = Len(f)
  /\ Len(text) = Len(f) + 1 + Len(r)
  /\ \A i \in 1..Len(f) : text[i + 1] = f[i]
  /\ \A i \in 1..Len(r) : text[Len(f) + 1 + i] = r[i]

LEMMA Fields ==
  ASSUME NEW S, NEW f \in Seq(S), NEW r \in Seq(S)
  PROVE  Reads(Framed(f) \o r, f, r)
<1> DEFINE a == Framed(f)
           T == S \cup Nat
<1>0. f \in Seq(T) /\ r \in Seq(T)
  OBVIOUS
<1>1. a \in Seq(T) /\ Len(a) = Len(f) + 1 /\ a[1] = Len(f)
  BY DEF Framed
<1>2. \A i \in 1..Len(f) : a[i + 1] = f[i]
  BY DEF Framed
<1>3. Len(f) \in Nat /\ Len(r) \in Nat
  OBVIOUS
<1> HIDE DEF a
<1>4. /\ Len(a \o r) = Len(f) + 1 + Len(r)
      /\ \A i \in 1..Len(f) : (a \o r)[i + 1] = a[i + 1]
      /\ \A i \in 1..Len(r) : (a \o r)[Len(f) + 1 + i] = r[i]
  BY <1>0, <1>1, <1>3, Spliced
<1>5. (a \o r)[1] = a[1]
  BY <1>0, <1>1, <1>3, ConcatProperties
<1> QED BY <1>1, <1>2, <1>4, <1>5 DEF a, Reads

(* push_aad_field writes no two different lists of fields alike: where two framed
   texts are equal, so are their first fields and what follows them. *)
THEOREM Framing ==
  ASSUME NEW S, NEW f \in Seq(S), NEW g \in Seq(S), NEW r \in Seq(S), NEW s \in Seq(S),
         Framed(f) \o r = Framed(g) \o s
  PROVE  f = g /\ r = s
<1>1. Reads(Framed(f) \o r, f, r) /\ Reads(Framed(f) \o r, g, s)
  <2>1. Reads(Framed(f) \o r, f, r)
    BY Fields
  <2>2. Reads(Framed(g) \o s, g, s)
    BY Fields
  <2> QED BY <2>1, <2>2
<1>2. PICK text : Reads(text, f, r) /\ Reads(text, g, s)
  BY <1>1
<1>3. Len(f) \in Nat /\ Len(r) \in Nat /\ Len(s) \in Nat
  OBVIOUS
<1>4. Len(f) = Len(g) /\ Len(r) = Len(s)
  BY <1>2, <1>3 DEF Reads
<1>5. \A i \in 1..Len(f) : f[i] = g[i]
  BY <1>2, <1>4 DEF Reads
<1>6. \A i \in 1..Len(r) : r[i] = s[i]
  BY <1>2, <1>4 DEF Reads
<1> QED BY <1>4, <1>5, <1>6, SeqEqual

(* A decryption that succeeds names everything the encryption was given. *)
LEMMA Authentic ==
  ASSUME NEW key, NEW nonce, NEW sealed, NEW aad, Decrypt(key, nonce, sealed, aad) # Failed
  PROVE  sealed = Encrypt(key, nonce, sealed.text, aad)
BY DEF Decrypt

LEMMA Decrypted ==
  ASSUME NEW key, NEW nonce, NEW text, NEW aad
  PROVE  Decrypt(key, nonce, Encrypt(key, nonce, text, aad), aad) = text
BY DEF Decrypt, Encrypt

LEMMA OtherKey ==
  ASSUME NEW key, NEW used, NEW nonce, NEW text, NEW aad, key # used
  PROVE  Decrypt(key, nonce, Encrypt(used, nonce, text, aad), aad) = Failed
<1>1. Encrypt(used, nonce, text, aad).key = used
  BY DEF Encrypt
<1>2. \A t : Encrypt(key, nonce, t, aad).key = key
  BY DEF Encrypt
<1> QED BY <1>1, <1>2 DEF Decrypt

LEMMA OtherPassword ==
  ASSUME NEW p, NEW q, NEW v, NEW kdf, p # q
  PROVE  DeriveKek(p, v, kdf) # DeriveKek(q, v, kdf)
<1>1. DeriveKek(p, v, kdf).password = p /\ DeriveKek(q, v, kdf).password = q
  BY DEF DeriveKek
<1> QED BY <1>1

(* A slot sealed by the session of a vault opens, with that session's data key, to
   the container that was sealed. *)
THEOREM SealedSlotsOpen ==
  ASSUME NEW dek, NEW V, NEW T, NEW E,
         NEW container \in [vaultId : V, createdAt : T, generation : Nat, entries : E],
         NEW slot, NEW generation \in Nat, NEW nonce
  PROVE  SealedOpens(dek, container, slot, generation, nonce)
<1> DEFINE sealed == SealSlot(dek, container, slot, generation, nonce)
           text == [container EXCEPT !.generation = generation]
           aad == VaultSlotAad(container.vaultId, slot, generation)
<1>1. /\ sealed.vaultId = container.vaultId /\ sealed.slot = slot
      /\ sealed.generation = generation /\ sealed.nonce = nonce
      /\ sealed.ciphertext = Encrypt(dek, nonce, text, aad)
  BY DEF SealSlot
<1>2. Decrypt(dek, sealed.nonce, sealed.ciphertext,
              VaultSlotAad(sealed.vaultId, sealed.slot, sealed.generation)) = text
  BY <1>1, Decrypted
<1>3. text.vaultId = container.vaultId /\ text.generation = generation
  OBVIOUS
<1>4. OpenSlot(dek, sealed) = text
  <2> HIDE DEF sealed, text
  <2> QED BY <1>1, <1>2, <1>3 DEF OpenSlot
<1> QED BY <1>4 DEF SealedOpens

(* The ciphertext of a slot opens under one vault, one slot and one generation:
   moved to the other key, or relabelled with another generation, it is refused. *)
THEOREM SlotsOpenInPlace ==
  ASSUME NEW dek, NEW s, NEW t
  PROVE  OpensInPlace(dek, s, t)
<1> SUFFICES ASSUME s.ciphertext = t.ciphertext,
                    OpenSlot(dek, s) # Failed, OpenSlot(dek, t) # Failed
             PROVE  <<s.vaultId, s.slot, s.generation>> = <<t.vaultId, t.slot, t.generation>>
  BY DEF OpensInPlace
<1> DEFINE aad(x) == VaultSlotAad(x.vaultId, x.slot, x.generation)
<1>1. Decrypt(dek, s.nonce, s.ciphertext, aad(s)) # Failed
  BY DEF OpenSlot
<1>2. Decrypt(dek, t.nonce, t.ciphertext, aad(t)) # Failed
  BY DEF OpenSlot
<1>3. s.ciphertext = Encrypt(dek, s.nonce, s.ciphertext.text, aad(s))
  BY <1>1, Authentic
<1>4. t.ciphertext = Encrypt(dek, t.nonce, t.ciphertext.text, aad(t))
  BY <1>2, Authentic
<1>5. \A n, x, a : Encrypt(dek, n, x, a).aad = a
  BY DEF Encrypt
<1>6. aad(s) = aad(t)
  <2> HIDE DEF aad
  <2> QED BY <1>3, <1>4, <1>5
<1>7. /\ aad(s)[4] = aad(t)[4] /\ aad(s)[5] = aad(t)[5] /\ aad(s)[6] = aad(t)[6]
  BY <1>6
<1> QED BY <1>7 DEF VaultSlotAad

(* The metadata of a password gives the data key to that password alone. *)
LEMMA MetadataNamesPassword ==
  ASSUME NEW p, NEW q, NEW v, NEW now, NEW kdf, NEW dek, NEW nonce,
         NEW m, m = Metadata(p, v, now, kdf, dek, nonce)
  PROVE  UnwrapDek(DeriveKek(q, m.vaultId, m.kdf), m.wrappedDek, m.vaultId)
           = IF q = p THEN dek ELSE Failed
<1> DEFINE kek(x) == DeriveKek(x, v, kdf)
           wrapped == WrapDek(kek(p), dek, v, nonce)
<1>1. m.vaultId = v /\ m.kdf = kdf /\ m.wrappedDek = wrapped
  BY DEF Metadata
<1>2. wrapped.nonce = nonce /\ wrapped.ciphertext = Encrypt(kek(p), nonce, dek, WrappedDekAad(v))
  BY DEF WrapDek
<1>3. UnwrapDek(kek(q), wrapped, v)
        = Decrypt(kek(q), nonce, Encrypt(kek(p), nonce, dek, WrappedDekAad(v)), WrappedDekAad(v))
  <2> HIDE DEF wrapped, kek
  <2> QED BY <1>2 DEF UnwrapDek
<1>4. CASE q = p
  BY <1>1, <1>3, <1>4, Decrypted
<1>5. CASE q # p
  <2>1. kek(q) # kek(p)
    BY <1>5, OtherPassword
  <2> QED BY <1>1, <1>3, <1>5, <2>1, OtherKey
<1> QED BY <1>4, <1>5

(* create_vault hands out a vault that its password opens to the session returned
   with it, and that every other password is refused by. *)
THEOREM NewVaultsOpen ==
  ASSUME NEW password, NEW config, NEW now, NEW v, NEW salt, NEW dek, NEW nonces, NEW other,
         dek # Failed, EmptyContainer(v, now) # Failed
  PROVE  CreatedOpens(CreateVault(password, config, now, v, salt, dek, nonces), password, other)
<1> DEFINE kdf == KdfFrom(salt, config)
           container == EmptyContainer(v, now)
           m == Metadata(password, v, now, kdf, dek, nonces[1])
           s == SealSlot(dek, container, "A", 0, nonces[2])
           made == CreateVault(password, config, now, v, salt, dek, nonces)
           session == [container |-> container, dek |-> dek, persistedSlot |-> "A"]
<1> SUFFICES ASSUME made # Failed
             PROVE  /\ UnlockVault(password, made.metadata, made.slot) = made.unlocked
                    /\ other # password => UnlockVault(other, made.metadata, made.slot) = Failed
  BY DEF CreatedOpens
<1>1. KdfAccepted(kdf) /\ made.metadata = m /\ made.slot = s /\ made.unlocked = session
  BY DEF CreateVault
<1>2. container \in [vaultId : {v}, createdAt : {now}, generation : Nat, entries : {{}}]
  BY DEF EmptyContainer
<1>3. [container EXCEPT !.generation = 0] = container /\ container.createdAt = now
  BY DEF EmptyContainer
<1>4. SealedOpens(dek, container, "A", 0, nonces[2])
  <2> HIDE DEF container
  <2> QED BY <1>2, SealedSlotsOpen
<1>5. OpenSlot(dek, s) = container
  BY <1>3, <1>4 DEF SealedOpens
<1>6. s.vaultId = v /\ s.slot = "A"
  BY DEF SealSlot, EmptyContainer
<1>7. m.vaultId = v /\ m.kdf = kdf /\ m.createdAt = now
  BY DEF Metadata
<1>8. \A q : UnwrapDek(DeriveKek(q, m.vaultId, m.kdf), m.wrappedDek, m.vaultId)
               = IF q = password THEN dek ELSE Failed
  BY MetadataNamesPassword
<1>9. UnlockVault(password, m, s) = session
  <2>1. container # Failed
    OBVIOUS
  <2> HIDE DEF m, s, kdf, container
  <2> QED BY <1>1, <1>3, <2>1, <1>5, <1>6, <1>7, <1>8 DEF UnlockVault
<1>10. other # password => UnlockVault(other, m, s) = Failed
  <2> HIDE DEF m, s
  <2> QED BY <1>8 DEF UnlockVault
<1> QED BY <1>1, <1>9, <1>10

(* rewrap_vault_key leaves every slot readable, by the new password alone: no slot
   has to be written again when the password changes. *)
THEOREM RewrappingKeepsSlots ==
  ASSUME NEW password, NEW newPassword, NEW metadata, NEW vault, NEW config, NEW salt,
         NEW nonce, NEW s
  PROVE  RewrapKeeps(metadata,
                     RewrapVaultKey(password, newPassword, metadata, vault, config, salt, nonce),
                     password, newPassword, s)
<1> DEFINE kdf == KdfFrom(salt, config)
           v == metadata.vaultId
           old == UnwrapDek(DeriveKek(password, v, metadata.kdf), metadata.wrappedDek, v)
           m == Metadata(newPassword, v, metadata.createdAt, kdf, vault.dek, nonce)
           made == RewrapVaultKey(password, newPassword, metadata, vault, config, salt, nonce)
<1> SUFFICES ASSUME made # Failed
             PROVE  /\ UnlockVault(newPassword, made, s) = UnlockVault(password, metadata, s)
                    /\ password # newPassword => UnlockVault(password, made, s) = Failed
  BY DEF RewrapKeeps
<1>1. /\ made = m /\ KdfAccepted(metadata.kdf) /\ KdfAccepted(kdf)
      /\ old # Failed /\ old = vault.dek
  BY DEF RewrapVaultKey
<1>2. m.vaultId = v /\ m.kdf = kdf /\ m.createdAt = metadata.createdAt
  BY DEF Metadata
<1>3. \A q : UnwrapDek(DeriveKek(q, m.vaultId, m.kdf), m.wrappedDek, m.vaultId)
               = IF q = newPassword THEN vault.dek ELSE Failed
  BY MetadataNamesPassword
<1>4. UnlockVault(newPassword, m, s) = UnlockVault(password, metadata, s)
  <2>1. KdfAccepted(m.kdf)
    BY <1>1, <1>2
  <2>2. UnwrapDek(DeriveKek(newPassword, m.vaultId, m.kdf), m.wrappedDek, m.vaultId) = old
    BY <1>1, <1>3
  <2> DEFINE unwrapped == UnwrapDek(DeriveKek(newPassword, m.vaultId, m.kdf), m.wrappedDek, m.vaultId)
             read == UnwrapDek(DeriveKek(password, metadata.vaultId, metadata.kdf),
                               metadata.wrappedDek, metadata.vaultId)
  <2>3. unwrapped = read
    BY <2>2
  <2> HIDE DEF m, unwrapped, read
  <2>4. UnlockVault(newPassword, m, s)
          = IF s.vaultId = m.vaultId /\ unwrapped # Failed /\ OpenSlot(unwrapped, s) # Failed
               /\ OpenSlot(unwrapped, s).createdAt = m.createdAt
            THEN [container |-> OpenSlot(unwrapped, s), dek |-> unwrapped, persistedSlot |-> s.slot]
            ELSE Failed
    BY <2>1 DEF UnlockVault, unwrapped
  <2>5. UnlockVault(password, metadata, s)
          = IF s.vaultId = metadata.vaultId /\ read # Failed /\ OpenSlot(read, s) # Failed
               /\ OpenSlot(read, s).createdAt = metadata.createdAt
            THEN [container |-> OpenSlot(read, s), dek |-> read, persistedSlot |-> s.slot]
            ELSE Failed
    BY <1>1 DEF UnlockVault, read
  <2> QED BY <1>2, <2>3, <2>4, <2>5
<1>5. password # newPassword => UnlockVault(password, m, s) = Failed
  <2> HIDE DEF m
  <2> QED BY <1>3 DEF UnlockVault
<1> QED BY <1>1, <1>4, <1>5

-----------------------------------------------------------------------------
(* How large it is *)
(* What encode_base64url writes, decode_base64url accepts, and it has as many
   bytes again. *)
THEOREM RoundTrip ==
  \A n \in Nat : /\ Decodable(EncodedLength(n))
                 /\ DecodedLength(EncodedLength(n)) = n
<1> SUFFICES ASSUME NEW n \in Nat
             PROVE  Decodable(EncodedLength(n)) /\ DecodedLength(EncodedLength(n)) = n
  OBVIOUS
<1> DEFINE q == n \div 3
           r == n % 3
<1>1. q \in Nat /\ r \in 0..2 /\ n = 3 * q + r
  OBVIOUS
<1> HIDE DEF q, r
<1>2. EncodedLength(n) = 4 * q + (IF r = 0 THEN 0 ELSE r + 1)
  BY DEF EncodedLength, q, r
<1>3. CASE r = 0
  <2>1. EncodedLength(n) % 4 = 0 /\ EncodedLength(n) \div 4 = q
    BY <1>1, <1>2, <1>3
  <2> QED BY <1>1, <1>3, <2>1 DEF Decodable, DecodedLength
<1>4. CASE r # 0
  <2>1. EncodedLength(n) % 4 = r + 1 /\ EncodedLength(n) \div 4 = q
    BY <1>1, <1>2, <1>4
  <2> QED BY <1>1, <1>4, <2>1 DEF Decodable, DecodedLength
<1> QED BY <1>1, <1>3, <1>4

(* The encoding is four thirds of the bytes, rounded up. *)
LEMMA EncodedBounds ==
  ASSUME NEW n \in Nat
  PROVE  /\ EncodedLength(n) \in Nat
         /\ 4 * n <= 3 * EncodedLength(n) /\ 3 * EncodedLength(n) <= 4 * n + 2
<1> DEFINE q == n \div 3
           r == n % 3
<1>1. q \in Nat /\ r \in 0..2 /\ n = 3 * q + r
  OBVIOUS
<1> HIDE DEF q, r
<1>2. EncodedLength(n) = 4 * q + (IF r = 0 THEN 0 ELSE r + 1)
  BY DEF EncodedLength, q, r
<1> QED BY <1>1, <1>2

LEMMA EnvelopeValue == EnvelopeBytes = 189
BY DEF EnvelopeBytes, EncodedLength, IdBytes, NonceBytes

(* Generations are u64: of 1 to 20 digits. *)
LEMMA JsonExceedsCiphertext ==
  ASSUME NEW p \in Nat, NEW d \in 1..20
  PROVE  SlotJsonBytes(p, d) \in Nat /\ p + TagBytes < SlotJsonBytes(p, d)
<1>1. EnvelopeBytes \in Nat
  BY EnvelopeValue
<1>2. p + TagBytes \in Nat
  BY DEF TagBytes
<1> QED BY <1>1, <1>2, EncodedBounds DEF SlotJsonBytes, CiphertextBytes

(* The one check of write_json_verified implies every check open makes: what the
   repository saves, it opens, whatever the limit. *)
THEOREM SavedOpens ==
  \A p \in Nat, d \in 1..20 : Saves(p, d) => Opens(p, d)
<1> SUFFICES ASSUME NEW p \in Nat, NEW d \in 1..20, Saves(p, d)
             PROVE  Opens(p, d)
  OBVIOUS
<1>1. WithinLimit(p, d) /\ p + TagBytes <= Limit
  <2>1. SlotJsonBytes(p, d) <= Limit
    BY DEF Saves, WithinLimit
  <2>2. SlotJsonBytes(p, d) \in Nat /\ p + TagBytes < SlotJsonBytes(p, d)
    BY JsonExceedsCiphertext
  <2>3. p + TagBytes \in Nat
    BY DEF TagBytes
  <2> QED BY <2>1, <2>2, <2>3, LimitAssumption DEF WithinLimit
<1> QED BY <1>1, LimitAssumption DEF Opens, Validates, Decrypts, CiphertextBytes, TagBytes

(* The check of the plaintext, which is all that prepare_save makes, does not:
   whatever the limit, a plaintext that just passes it becomes a slot that open
   refuses. *)
THEOREM HandedOutNeedNotOpen ==
  Limit >= TagBytes => \E p \in Nat : HandedOut(p) /\ \A d \in 1..20 : ~Opens(p, d)
<1> SUFFICES ASSUME Limit >= TagBytes
             PROVE  \E p \in Nat : HandedOut(p) /\ \A d \in 1..20 : ~Opens(p, d)
  OBVIOUS
<1> DEFINE p == Limit - TagBytes
<1>1. p \in Nat /\ HandedOut(p) /\ p + TagBytes = Limit
  BY LimitAssumption DEF HandedOut, Seals, TagBytes
<1>2. \A d \in 1..20 : ~Opens(p, d)
  <2> SUFFICES ASSUME NEW d \in 1..20 PROVE ~(SlotJsonBytes(p, d) <= Limit)
    BY DEF Opens, WithinLimit
  <2>1. SlotJsonBytes(p, d) \in Nat /\ Limit < SlotJsonBytes(p, d)
    BY <1>1, JsonExceedsCiphertext
  <2> QED BY <2>1, LimitAssumption
<1> QED BY <1>1, <1>2

(* A limit on the plaintext that would do: three quarters of what the envelope
   leaves, without the tag. *)
THEOREM SafePlaintext ==
  \A p \in Nat, d \in 1..20 :
    4 * (p + TagBytes) + 2 <= 3 * (Limit - EnvelopeBytes - 20) => Saves(p, d)
<1> SUFFICES ASSUME NEW p \in Nat, NEW d \in 1..20,
                    4 * (p + TagBytes) + 2 <= 3 * (Limit - EnvelopeBytes - 20)
             PROVE  Saves(p, d)
  OBVIOUS
<1>1. EnvelopeBytes \in Nat /\ TagBytes = 16
  BY EnvelopeValue DEF TagBytes
<1>2. EncodedLength(p + TagBytes) \in Nat /\ 3 * EncodedLength(p + TagBytes) <= 4 * (p + TagBytes) + 2
  <2>1. p + TagBytes \in Nat
    BY ONLY <1>1, p \in Nat
  <2> QED BY ONLY <2>1, EncodedBounds, Zenon
<1>3. WithinLimit(p, d)
  BY <1>1, <1>2, LimitAssumption DEF WithinLimit, SlotJsonBytes, CiphertextBytes
<1>4. Seals(p)
  <2>1. p + TagBytes < SlotJsonBytes(p, d) /\ SlotJsonBytes(p, d) \in Nat
    BY JsonExceedsCiphertext
  <2> QED BY <1>1, <1>3, <2>1, LimitAssumption DEF WithinLimit, Seals
<1> QED BY <1>3, <1>4 DEF Saves

=============================================================================
