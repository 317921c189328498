--------------------------- MODULE VaultBridge_proofs ---------------------------
(***************************************************************************)
(* Theorems about VaultBridge, for every set of vaults, contents, passwords  *)
(* and nonces and every last generation: under any order of calls a pending  *)
(* save is the next one, what was committed stands, and saving and changing  *)
(* the password are two-phase writes.                                       *)
(***************************************************************************)
EXTENDS VaultBridge, TLAPS

(* The metadata of a session, current and pending, is of its vault. *)
KeysAgree ==
  Unlocked(session) => /\ session.metadata # None /\ session.metadata.key = session.vault.key
                       /\ session.change # None => session.change.key = session.vault.key

(* Slots of one vault never have the same generation, so that open has no choice. *)
GenerationsDiffer ==
  storage["slot_a"] # None /\ storage["slot_b"] # None /\ storage["slot_a"].key = storage["slot_b"].key
    => storage["slot_a"].generation # storage["slot_b"].generation

(* A created vault on its way into the storage *)
Creating ==
  LET sealed == bundle["slot_a"] IN
  /\ sealed # None /\ Fits(sealed) /\ bundle["meta"] = session.metadata
  /\ session.vault.slot = "slot_a" /\ session.vault.key = sealed.key
  /\ session.vault.generation = sealed.generation /\ session.vault.content = sealed.content
  /\ storage["meta"] \in {None, session.metadata}
  /\ storage["meta"] # None => storage["slot_a"] = sealed
  /\ storage["slot_a"] # None /\ storage["slot_a"].key = sealed.key => storage["slot_a"] = sealed
  /\ storage["slot_b"] # None => storage["slot_b"].key # sealed.key

(* An opened one, whose pointer at most is missing *)
Opening ==
  LET v == session.vault
      own == storage[v.slot]
      other == storage[Other(v.slot)]
  IN /\ bundle["slot_a"] = None /\ bundle["meta"] = None /\ storage["meta"] = session.metadata
     /\ own # None /\ own.key = v.key /\ own.generation = v.generation
     /\ other # None /\ other.key = v.key => other.generation < v.generation

(* Every stored slot is of a size that opens. *)
StoredFits == \A s \in Slots : storage[s] # None => Fits(storage[s])

BundleStands ==
  bundle # None => /\ Unlocked(session) /\ session.pending = None /\ session.change = None
                   /\ bundle["slot_b"] = None
                   /\ Creating \/ Opening

BridgeInv == /\ TypeOK /\ LockLeavesNothing /\ PendingIsNext /\ CommittedStands
             /\ KeysAgree /\ GenerationsDiffer /\ StoredFits /\ BundleStands

-----------------------------------------------------------------------------
LEMMA TwoSlots == \A s \in Slots : /\ Other(s) \in Slots /\ Other(s) # s /\ Other(Other(s)) = s
                                   /\ \A t \in Slots : t = s \/ t = Other(s)
                                   /\ s \in Keys /\ s # "meta" /\ s # "pointer"
BY DEF Slots, Other, Keys

(* The slot of the metadata's vault that is newer than the other one, or alone,
   is what open selects. *)
LEMMA NewestIsSelected ==
  ASSUME NEW st, NEW s \in Slots, \A t \in Slots : st[t] \in SealedSlots \cup {None},
         st["meta"] # None, st[s] # None, st[s].key = st["meta"].key,
         Fits(st[s]),
         st[Other(s)] # None /\ st[Other(s)].key = st["meta"].key
           => st[Other(s)].generation < st[s].generation
  PROVE  Selected(st) = {s} /\ VersionIn(st) = Version(st[s])
<1>1. \A t \in Slots : st[t] # None => st[t].generation \in Nat
  BY MaxGenerationAssumption DEF SealedSlots
<1>2. Selected(st) = {s}
  BY <1>1, TwoSlots DEF Selected
<1>3. (CHOOSE t \in Selected(st) : TRUE) = s
  BY <1>2
<1> QED BY <1>2, <1>3 DEF VersionIn

(* What a bundle holds *)
LEMMA BundleFields ==
  ASSUME NEW a \in SealedSlots \cup {None}, NEW m \in Metadata \cup {None},
         NEW p \in Pointers \cup {None}
  PROVE  /\ Bundle(a, m, p) \in Bundles /\ Bundle(a, m, p) # None
         /\ Bundle(a, m, p)["slot_a"] = a /\ Bundle(a, m, p)["slot_b"] = None
         /\ Bundle(a, m, p)["meta"] = m /\ Bundle(a, m, p)["pointer"] = p
<1>1. Bundle(a, m, p) \in Bundles
  BY DEF Bundle, Bundles
<1>2. Bundle(a, m, p) # None
  BY <1>1, NoneAssumption
<1> QED BY <1>1, <1>2 DEF Bundle

(* Storing a value of the right sort keeps the storage typed and the other keys
   as they are. *)
LEMMA StoredType ==
  ASSUME TypeOK, NEW k \in Keys, NEW v, storage' = [storage EXCEPT ![k] = v],
         \/ v \in SealedSlots /\ k \in Slots
         \/ v \in Metadata /\ k = "meta"
         \/ v \in Pointers /\ k = "pointer"
  PROVE  /\ storage' \in [Keys -> SealedSlots \cup Metadata \cup Pointers \cup {None}]
         /\ \A s \in Slots : storage'[s] \in SealedSlots \cup {None}
         /\ storage'["meta"] \in Metadata \cup {None}
         /\ storage'[k] = v /\ v # None /\ \A j \in Keys \ {k} : storage'[j] = storage[j]
<1>1. v # None
  BY NoneAssumption
<1> QED BY <1>1, TwoSlots DEF TypeOK, Keys

LEMMA PointerType ==
  ASSUME NEW s \in Slots, NEW c \in SealedSlots
  PROVE  PointerTo(s, c) \in Pointers
BY DEF SealedSlots, Pointers, PointerTo

(* A session of a sealed slot and metadata *)
LEMMA SessionType ==
  ASSUME NEW s \in Slots, NEW c \in SealedSlots, NEW m \in Metadata
  PROVE  /\ Session(s, c, m) \in SessionRecords
         /\ Session(s, c, m).metadata = m
         /\ Session(s, c, m).pending = None /\ Session(s, c, m).change = None
         /\ Session(s, c, m).vault # None
         /\ Session(s, c, m).vault.slot = s /\ Session(s, c, m).vault.key = c.key
         /\ Session(s, c, m).vault.generation = c.generation
         /\ Session(s, c, m).vault.content = c.content
<1>1. [slot |-> s, key |-> c.key, generation |-> c.generation, content |-> c.content] \in OpenVaults
  BY DEF SealedSlots, OpenVaults
<1> QED BY <1>1, NoneAssumption DEF Session, SessionRecords

LEMMA InitInv == Init => BridgeInv
<1> SUFFICES ASSUME Init PROVE BridgeInv
  OBVIOUS
<1>1. TypeOK
  BY TwoSlots DEF Init, TypeOK, NoSession, Keys, SessionRecords
<1>2. LockLeavesNothing /\ PendingIsNext /\ CommittedStands /\ KeysAgree /\ BundleStands
  BY DEF Init, NoSession, Unlocked, LockLeavesNothing, PendingIsNext, CommittedStands,
         KeysAgree, BundleStands
<1>3. GenerationsDiffer /\ StoredFits
  BY TwoSlots DEF Init, GenerationsDiffer, StoredFits, Slots, Keys
<1> QED BY <1>1, <1>2, <1>3 DEF BridgeInv

-----------------------------------------------------------------------------
(* Creation, opening and the way of a bundle into the storage *)
LEMMA CreateInv ==
  ASSUME BridgeInv, NEW v \in Vaults, NEW p \in Passwords, NEW n \in Nonces, Create(v, p, n)
  PROVE  BridgeInv'
<1> DEFINE sealed == [key |-> v, generation |-> 0, content |-> EmptyContent, nonce |-> n]
           meta == [key |-> v, password |-> p, nonce |-> n]
<1>1. /\ sealed \in SealedSlots /\ meta \in Metadata /\ sealed # None /\ meta # None
      /\ Fits(sealed)
  <2>1. /\ sealed \in SealedSlots /\ meta \in Metadata
        /\ Version(sealed) = [generation |-> 0, content |-> EmptyContent]
    BY MaxGenerationAssumption, EmptyContentAssumption DEF SealedSlots, Metadata, Version
  <2> QED BY <2>1, EmptyContentAssumption, NoneAssumption DEF Fits
<1>2. /\ session' = Session("slot_a", sealed, meta)
      /\ bundle' = Bundle(sealed, meta, PointerTo("slot_a", sealed))
      /\ storage["meta"] = None /\ storage' = storage
      /\ \A s \in Slots : storage[s] # None => storage[s].key # v
  BY DEF Create
<1> HIDE DEF sealed, meta
<1>3. TypeOK'
  <2>1. PointerTo("slot_a", sealed) \in Pointers
    BY <1>1, PointerType DEF Slots
  <2>2. bundle' \in Bundles
    BY <1>1, <1>2, <2>1, BundleFields
  <2> QED BY <1>1, <1>2, <2>2, SessionType DEF BridgeInv, TypeOK, Slots
<1>4. /\ Unlocked(session)' /\ session'.pending = None /\ session'.change = None
      /\ session'.metadata = meta /\ session'.vault.slot = "slot_a"
      /\ session'.vault.key = v /\ session'.vault.generation = sealed.generation
      /\ session'.vault.content = sealed.content /\ sealed.key = v /\ meta.key = v
  BY <1>1, <1>2, SessionType DEF Unlocked, Slots, sealed, meta
<1>5. bundle' # None /\ bundle'["slot_a"] = sealed /\ bundle'["slot_b"] = None /\ bundle'["meta"] = meta
  <2>1. PointerTo("slot_a", sealed) \in Pointers
    BY <1>1, PointerType DEF Slots
  <2> QED BY <1>1, <1>2, <2>1, BundleFields
<1>6. BundleStands'
  BY <1>1, <1>2, <1>4, <1>5 DEF BundleStands, Creating, Slots
<1>7. /\ LockLeavesNothing' /\ PendingIsNext' /\ CommittedStands' /\ KeysAgree'
      /\ GenerationsDiffer' /\ StoredFits'
  BY <1>1, <1>2, <1>4, <1>5 DEF BridgeInv, LockLeavesNothing, PendingIsNext, CommittedStands, KeysAgree,
     GenerationsDiffer, StoredFits
<1> QED BY <1>3, <1>6, <1>7 DEF BridgeInv

LEMMA OpenInv ==
  ASSUME BridgeInv, NEW s \in Slots, Open(s)
  PROVE  BridgeInv'
<1> DEFINE m == storage["meta"]
           c == storage[s]
<1>1. /\ m \in Metadata /\ m # None /\ c \in SealedSlots /\ c # None /\ c.key = m.key
      /\ \A t \in Slots : storage[t] # None /\ storage[t].key = m.key
                            => storage[t].generation <= c.generation
  BY DEF Open, Selected, BridgeInv, TypeOK, StoredFits
<1>2. storage[Other(s)] # None /\ storage[Other(s)].key = c.key
        => storage[Other(s)].generation < c.generation
  <2>1. \A t \in Slots : storage[t] # None => storage[t].generation \in Nat
    BY MaxGenerationAssumption DEF BridgeInv, TypeOK, SealedSlots
  <2>2. storage[Other(s)] # None /\ storage[Other(s)].key = c.key
          => storage[Other(s)].generation # c.generation
    BY <1>1 DEF BridgeInv, GenerationsDiffer, Slots, Other
  <2> QED BY <1>1, <2>1, <2>2, TwoSlots
<1>3. /\ session' = Session(s, c, m) /\ storage' = storage
      /\ \E pointer \in Pointers \cup {None} : bundle' = Bundle(None, None, pointer)
  BY <1>1, PointerType DEF Open
<1>4. /\ bundle' \in Bundles /\ bundle' # None
      /\ bundle'["slot_a"] = None /\ bundle'["slot_b"] = None /\ bundle'["meta"] = None
  BY <1>3, BundleFields
<1>5. TypeOK'
  BY <1>1, <1>3, <1>4, SessionType DEF BridgeInv, TypeOK
<1>6. /\ Unlocked(session)' /\ session'.pending = None /\ session'.change = None
      /\ session'.metadata = m /\ session'.vault.slot = s
      /\ session'.vault.key = c.key /\ session'.vault.generation = c.generation
  BY <1>1, <1>3, SessionType DEF Unlocked
<1>7. Opening'
  BY <1>1, <1>2, <1>3, <1>4, <1>6 DEF Opening
<1>8. BundleStands'
  BY <1>6, <1>7, <1>4 DEF BundleStands
<1>9. LockLeavesNothing' /\ PendingIsNext' /\ KeysAgree' /\ GenerationsDiffer' /\ StoredFits'
  BY <1>1, <1>3, <1>6
     DEF BridgeInv, LockLeavesNothing, PendingIsNext, KeysAgree, GenerationsDiffer, StoredFits
<1>10. CommittedStands'
  <2>1. \A t \in Slots : storage[t] # None => storage[t].generation \in Nat
    BY MaxGenerationAssumption DEF BridgeInv, TypeOK, SealedSlots
  <2>2. Other(s) \in Slots
    BY TwoSlots
  <2>3. Fits(c)
    BY <1>1 DEF BridgeInv, StoredFits
  <2> QED BY <1>1, <1>2, <1>3, <1>6, <2>1, <2>2, <2>3 DEF CommittedStands
<1> QED BY <1>5, <1>8, <1>9, <1>10 DEF BridgeInv

(* The value of a bundle for a key has the type of the key. *)
LEMMA BundledType ==
  ASSUME BridgeInv, bundle # None, NEW k \in Keys, bundle[k] # None
  PROVE  \/ bundle[k] \in SealedSlots /\ k \in Slots
         \/ bundle[k] \in Metadata /\ k = "meta"
         \/ bundle[k] \in Pointers /\ k = "pointer"
<1>1. bundle \in Bundles
  BY DEF BridgeInv, TypeOK
<1>2. /\ bundle["slot_a"] \in SealedSlots \cup {None} /\ bundle["slot_b"] = None
      /\ bundle["meta"] \in Metadata \cup {None} /\ bundle["pointer"] \in Pointers \cup {None}
  BY <1>1 DEF Bundles
<1> QED BY <1>2 DEF Keys, Slots

LEMMA StoreBundledInv ==
  ASSUME BridgeInv, NEW k \in Keys, StoreBundled(k)
  PROVE  BridgeInv'
<1>1. /\ bundle # None /\ bundle[k] # None /\ session' = session /\ bundle' = bundle
      /\ storage' = [storage EXCEPT ![k] = bundle[k]]
      /\ k = "meta" => storage["slot_a"] = bundle["slot_a"]
  BY DEF StoreBundled
<1>2. /\ storage' \in [Keys -> SealedSlots \cup Metadata \cup Pointers \cup {None}]
      /\ \A s \in Slots : storage'[s] \in SealedSlots \cup {None}
      /\ storage'["meta"] \in Metadata \cup {None}
      /\ storage'[k] = bundle[k] /\ \A j \in Keys \ {k} : storage'[j] = storage[j]
  BY <1>1, BundledType, StoredType DEF BridgeInv
<1>3. TypeOK'
  BY <1>1, <1>2 DEF BridgeInv, TypeOK
<1>4. LockLeavesNothing' /\ PendingIsNext' /\ KeysAgree' /\ CommittedStands'
  BY <1>1 DEF BridgeInv, LockLeavesNothing, PendingIsNext, KeysAgree, CommittedStands
<1>5. /\ Unlocked(session) /\ bundle["slot_b"] = None /\ k # "slot_b"
      /\ storage'["slot_b"] = storage["slot_b"]
  BY <1>1, <1>2 DEF BridgeInv, BundleStands, Keys, Slots
<1>6. CASE Creating
  <2>1. GenerationsDiffer'
    BY <1>2, <1>5, <1>6 DEF BridgeInv, GenerationsDiffer, Creating, Keys, Slots
  <2>2. Creating'
    BY <1>1, <1>2, <1>5, <1>6 DEF Creating, Keys, Slots
  <2>3. StoredFits'
    BY <1>1, <1>2, <1>5, <1>6 DEF BridgeInv, StoredFits, Creating, Keys, Slots
  <2> QED BY <1>1, <1>3, <1>4, <2>1, <2>2, <2>3 DEF BridgeInv, BundleStands
<1>7. CASE Opening
  <2>1. k = "pointer" /\ storage'["meta"] = storage["meta"] /\ \A s \in Slots : storage'[s] = storage[s]
    BY <1>1, <1>2, <1>5, <1>7 DEF Opening, Keys, Slots
  <2>2. session.vault.slot \in Slots /\ Other(session.vault.slot) \in Slots
    BY <1>5, TwoSlots DEF BridgeInv, TypeOK, Unlocked, OpenVaults, SessionRecords
  <2>3. GenerationsDiffer' /\ StoredFits'
    BY <2>1 DEF BridgeInv, GenerationsDiffer, StoredFits, Slots
  <2>4. Opening'
    BY <1>1, <1>7, <2>1, <2>2 DEF Opening
  <2> QED BY <1>1, <1>3, <1>4, <2>3, <2>4 DEF BridgeInv, BundleStands
<1> QED BY <1>1, <1>6, <1>7 DEF BridgeInv, BundleStands

LEMMA TakeInv ==
  ASSUME BridgeInv, TakeSession
  PROVE  BridgeInv'
<1>1. /\ bundle # None /\ bundle' = None /\ session' = session /\ storage' = storage
      /\ \A k \in Keys : bundle[k] # None => storage[k] = bundle[k]
  BY DEF TakeSession
<1>2. TypeOK' /\ PendingIsNext' /\ KeysAgree' /\ GenerationsDiffer' /\ StoredFits' /\ BundleStands'
  BY <1>1 DEF BridgeInv, TypeOK, PendingIsNext, KeysAgree, GenerationsDiffer, StoredFits, BundleStands
<1>3. Unlocked(session) /\ session.pending = None /\ (Creating \/ Opening)
  BY <1>1 DEF BridgeInv, BundleStands
<1>4. LockLeavesNothing'
  BY <1>1, <1>3 DEF LockLeavesNothing
<1>5. session.vault.generation \in Nat /\ session.vault.slot \in Slots
  BY <1>3, MaxGenerationAssumption DEF BridgeInv, TypeOK, Unlocked, OpenVaults, SessionRecords
<1>6. \A t \in Slots : storage[t] # None => storage[t].generation \in Nat
  BY MaxGenerationAssumption DEF BridgeInv, TypeOK, SealedSlots
<1>7. CommittedStands'
  <2>1. CASE Creating
    <3>1. session.metadata # None /\ session.metadata.key = session.vault.key
      BY <1>3 DEF BridgeInv, KeysAgree
    <3>2. storage["slot_a"] = bundle["slot_a"] /\ storage["meta"] = session.metadata
      BY <1>1, <2>1, <3>1 DEF Creating, Keys, Slots
    <3>3. Other(session.vault.slot) = "slot_b"
      BY <2>1 DEF Creating, Other
    <3> QED BY <1>1, <1>3, <2>1, <3>1, <3>2, <3>3 DEF CommittedStands, Creating, Slots
  <2>2. CASE Opening
    <3>1. session.metadata # None /\ session.metadata.key = session.vault.key
      BY <1>3 DEF BridgeInv, KeysAgree
    <3>2. Fits(storage[session.vault.slot])
      BY <1>5, <2>2 DEF BridgeInv, StoredFits, Opening
    <3> QED BY <1>1, <1>3, <1>5, <1>6, <2>2, <3>1, <3>2, TwoSlots DEF CommittedStands, Opening
  <2> QED BY <1>3, <2>1, <2>2
<1> QED BY <1>2, <1>4, <1>7 DEF BridgeInv

-----------------------------------------------------------------------------
(* Calls *)

(* The parts of an unlocked session *)
LEMMA UnlockedParts ==
  ASSUME BridgeInv, Unlocked(session)
  PROVE  /\ session.vault \in OpenVaults /\ session.vault.slot \in Slots
         /\ session.vault.key \in Vaults /\ session.vault.generation \in 0..MaxGeneration
         /\ session.vault.content \in Contents
         /\ session.metadata \in Metadata /\ session.metadata.key = session.vault.key
         /\ session.pending \in PendingSaves \cup {None} /\ session.change \in Metadata \cup {None}
BY DEF BridgeInv, TypeOK, KeysAgree, Unlocked, SessionRecords, OpenVaults

(* A call that leaves a typed session, unlocked, of which the invariants about
   the session hold, preserves the invariant. *)
LEMMA CallInv ==
  ASSUME BridgeInv, NEW s \in SessionRecords, Call(s), Unlocked(s),
         PendingIsNext', CommittedStands', KeysAgree'
  PROVE  BridgeInv'
<1>1. bundle = None /\ bundle' = None /\ session' = s /\ storage' = storage
  BY DEF Call
<1> QED BY <1>1 DEF BridgeInv, TypeOK, LockLeavesNothing, GenerationsDiffer, StoredFits, BundleStands

LEMMA EditInv ==
  ASSUME BridgeInv, NEW c \in Contents, Edit(c)
  PROVE  BridgeInv'
<1> DEFINE s == WithContent(session, c)
<1>1. Unlocked(session) /\ session.pending = None /\ Call(s) /\ bundle = None
  BY DEF Edit, Callable, Mutable
<1>2. /\ s \in SessionRecords /\ Unlocked(s) /\ s.pending = None /\ s.change = session.change
      /\ s.metadata = session.metadata /\ s.vault.slot = session.vault.slot
      /\ s.vault.key = session.vault.key /\ s.vault.generation = session.vault.generation
  <2>1. s.vault \in OpenVaults
    BY <1>1, UnlockedParts DEF WithContent, OpenVaults, BridgeInv, TypeOK, SessionRecords
  <2> QED BY <1>1, <2>1, UnlockedParts, NoneAssumption
          DEF WithContent, BridgeInv, TypeOK, SessionRecords, OpenVaults, Unlocked
<1> HIDE DEF s
<1>3. session' = s /\ storage' = storage /\ bundle' = None
  BY <1>1 DEF Call
<1>4. PendingIsNext' /\ CommittedStands' /\ KeysAgree'
  BY <1>1, <1>2, <1>3 DEF BridgeInv, PendingIsNext, CommittedStands, KeysAgree, Unlocked
<1> QED BY <1>1, <1>2, <1>4, CallInv

LEMMA PrepareSaveInv ==
  ASSUME BridgeInv, NEW n \in Nonces, PrepareSave(n)
  PROVE  BridgeInv'
<1> DEFINE s == WithPreparedSave(session, n)
           p == [slot |-> Other(session.vault.slot), sealed |-> NextSealed(session, n), verified |-> FALSE]
<1>1. /\ Unlocked(session) /\ session.change = None /\ Call(s) /\ bundle = None
      /\ session.vault.generation < MaxGeneration
  BY DEF PrepareSave, Callable, Mutable
<1>2. NextSealed(session, n) \in SealedSlots /\ p \in PendingSaves /\ p # None
  <2>1. NextSealed(session, n) \in SealedSlots
    BY <1>1, UnlockedParts, MaxGenerationAssumption DEF NextSealed, SealedSlots
  <2>2. p \in PendingSaves
    BY <2>1, <1>1, UnlockedParts, TwoSlots DEF PendingSaves
  <2> QED BY <2>1, <2>2, NoneAssumption
<1>3. /\ s \in SessionRecords /\ Unlocked(s) /\ s.pending = p /\ s.change = None
      /\ s.metadata = session.metadata /\ s.vault = session.vault
  BY <1>1, <1>2 DEF WithPreparedSave, BridgeInv, TypeOK, SessionRecords, Unlocked
<1>4. IsNextSlot(s, p.slot, p.sealed)
  BY <1>3 DEF IsNextSlot, NextSealed
<1>5. p.verified = FALSE
  OBVIOUS
<1> HIDE DEF s, p
<1>6. session' = s /\ storage' = storage /\ bundle' = None
  BY <1>1 DEF Call
<1>7. PendingIsNext' /\ CommittedStands' /\ KeysAgree'
  BY <1>1, <1>2, <1>3, <1>4, <1>5, <1>6 DEF BridgeInv, PendingIsNext, CommittedStands, KeysAgree, Unlocked
<1> QED BY <1>1, <1>3, <1>7, CallInv

LEMMA VerifyInv ==
  ASSUME BridgeInv, NEW k \in Slots, VerifyPendingSlot(k)
  PROVE  BridgeInv'
<1> DEFINE s == WithVerifiedSlot(session)
<1>1. /\ Unlocked(session) /\ session.pending # None /\ Call(s) /\ bundle = None
      /\ storage[k] # None /\ storage[k] = session.pending.sealed
      /\ IsNextSlot(session, session.pending.slot, session.pending.sealed)
  BY DEF VerifyPendingSlot, SlotVerifies, Call
<1>2. session.pending \in PendingSaves
  BY <1>1, UnlockedParts
<1>3. /\ s \in SessionRecords /\ Unlocked(s) /\ s.pending # None /\ s.change = session.change
      /\ s.pending.sealed = session.pending.sealed /\ s.pending.slot = session.pending.slot
      /\ s.metadata = session.metadata /\ s.vault = session.vault
  BY <1>1, <1>2, NoneAssumption
     DEF WithVerifiedSlot, BridgeInv, TypeOK, SessionRecords, Unlocked, PendingSaves
<1> HIDE DEF s
<1>4. session' = s /\ storage' = storage /\ bundle' = None
  BY <1>1 DEF Call
<1>5. k = Other(session.vault.slot)
  <2>1. session.pending.sealed.generation = session.vault.generation + 1
    BY <1>1 DEF IsNextSlot, NextSealed
  <2>2. storage[session.vault.slot].generation = session.vault.generation
    BY <1>1 DEF BridgeInv, CommittedStands
  <2>3. k # session.vault.slot
    BY <1>1, <2>1, <2>2, UnlockedParts, MaxGenerationAssumption
  <2> QED BY <1>1, <2>3, UnlockedParts, TwoSlots
<1>6. PendingIsNext' /\ CommittedStands' /\ KeysAgree'
  BY <1>1, <1>3, <1>4, <1>5
     DEF BridgeInv, PendingIsNext, CommittedStands, KeysAgree, Unlocked, IsNextSlot, NextSealed
<1> QED BY <1>1, <1>3, <1>6, CallInv

LEMMA CommitInv ==
  ASSUME BridgeInv, CommitPendingSave
  PROVE  BridgeInv'
<1> DEFINE s == WithCommittedSave(session)
           old == session.vault
           p == session.pending
<1>1. /\ Unlocked(session) /\ p # None /\ p.verified /\ Call(s) /\ bundle = None
  BY DEF CommitPendingSave, SaveCommits, Call
<1>2. /\ p \in PendingSaves /\ session.change = None /\ p.slot = Other(old.slot)
      /\ p.sealed.key = old.key /\ p.sealed.generation = old.generation + 1
      /\ storage[p.slot] = p.sealed
  BY <1>1, UnlockedParts DEF BridgeInv, PendingIsNext, CommittedStands, IsNextSlot, NextSealed
<1>3. p.sealed \in SealedSlots /\ p.slot \in Slots /\ p.sealed # None
      /\ p.sealed.generation \in 0..MaxGeneration
  BY <1>2, NoneAssumption DEF PendingSaves, SealedSlots
<1>4. /\ s \in SessionRecords /\ Unlocked(s) /\ s.pending = None /\ s.change = None
      /\ s.metadata = session.metadata /\ s.vault.slot = p.slot /\ s.vault.key = old.key
      /\ s.vault.generation = old.generation + 1
  <2>1. s.vault \in OpenVaults /\ s.vault.slot = p.slot /\ s.vault.key = old.key
        /\ s.vault.generation = p.sealed.generation
    BY <1>1, <1>2, <1>3, UnlockedParts DEF WithCommittedSave, OpenVaults, BridgeInv, TypeOK, SessionRecords
  <2>2. s.pending = None /\ s.metadata = session.metadata /\ s.change = session.change
    BY DEF WithCommittedSave, BridgeInv, TypeOK, SessionRecords
  <2>3. s \in SessionRecords
    BY <2>1 DEF WithCommittedSave, BridgeInv, TypeOK, SessionRecords
  <2> QED BY <1>2, <2>1, <2>2, <2>3, NoneAssumption DEF Unlocked
<1> HIDE DEF s
<1>5. session' = s /\ storage' = storage /\ bundle' = None
  BY <1>1 DEF Call
<1>6. Other(p.slot) = old.slot /\ Fits(storage[p.slot])
  BY <1>1, <1>2, <1>3, UnlockedParts, TwoSlots DEF BridgeInv, StoredFits
<1>7. CommittedStands'
  BY <1>1, <1>2, <1>3, <1>4, <1>5, <1>6, UnlockedParts, MaxGenerationAssumption
     DEF BridgeInv, CommittedStands
<1>8. PendingIsNext' /\ KeysAgree'
  BY <1>1, <1>4, <1>5 DEF BridgeInv, PendingIsNext, KeysAgree
<1> QED BY <1>1, <1>4, <1>7, <1>8, CallInv

(* A call that changes only what is pending, to nothing or to a password change
   of the session's vault, or the metadata to such a change. *)
LEMMA MetadataCallInv ==
  ASSUME BridgeInv, NEW s \in SessionRecords, Call(s), Unlocked(session),
         s.vault = session.vault, s.pending = None \/ s.pending = session.pending,
         s.pending # None => s.change = None,
         s.metadata # None, s.metadata.key = session.vault.key,
         s.change # None => s.change.key = session.vault.key
  PROVE  BridgeInv'
<1>1. session' = s /\ storage' = storage /\ bundle = None /\ bundle' = None /\ Unlocked(s)
  BY DEF Call, Unlocked
<1>2. PendingIsNext' /\ CommittedStands' /\ KeysAgree'
  BY <1>1 DEF BridgeInv, PendingIsNext, CommittedStands, KeysAgree, Unlocked, IsNextSlot, NextSealed
<1> QED BY <1>1, <1>2, CallInv

(* Calls on a locked session change nothing. *)
LEMMA LockedParts ==
  ASSUME BridgeInv, ~Unlocked(session)
  PROVE  /\ session = NoSession /\ bundle = None
         /\ session.vault = None /\ session.metadata = None
         /\ session.pending = None /\ session.change = None
BY DEF BridgeInv, LockLeavesNothing, NoSession

LEMMA StutterInv == ASSUME BridgeInv, UNCHANGED vars PROVE BridgeInv'
BY DEF vars, BridgeInv, TypeOK, LockLeavesNothing, PendingIsNext, CommittedStands, KeysAgree,
       GenerationsDiffer, StoredFits, BundleStands, Creating, Opening

LEMMA CancelInv ==
  ASSUME BridgeInv, CancelPendingSave \/ CancelPasswordChange
  PROVE  BridgeInv'
<1>1. PICK s \in {WithoutPendingSave(session), WithoutPasswordChange(session)} : Call(s)
  BY DEF CancelPendingSave, CancelPasswordChange
<1>2. /\ s \in SessionRecords /\ s.vault = session.vault /\ s.metadata = session.metadata
      /\ s.pending \in {None, session.pending} /\ s.change \in {None, session.change}
  BY <1>1 DEF WithoutPendingSave, WithoutPasswordChange, BridgeInv, TypeOK, SessionRecords
<1>3. CASE Unlocked(session)
  <2>1. session.pending # None => session.change = None
    BY DEF BridgeInv, PendingIsNext
  <2>2. session.metadata # None
    BY <1>3 DEF BridgeInv, KeysAgree
  <2>3. session.change # None => session.change.key = session.vault.key
    BY <1>3 DEF BridgeInv, KeysAgree
  <2> QED BY <1>1, <1>2, <1>3, <2>1, <2>2, <2>3, UnlockedParts, MetadataCallInv
<1>4. CASE ~Unlocked(session)
  <2>1. WithoutPendingSave(session) = session /\ WithoutPasswordChange(session) = session
    BY <1>4, LockedParts DEF WithoutPendingSave, WithoutPasswordChange, NoSession
  <2>2. UNCHANGED vars
    BY <1>1, <2>1 DEF Call, vars
  <2> QED BY <2>2, StutterInv
<1> QED BY <1>3, <1>4

LEMMA PreparePasswordInv ==
  ASSUME BridgeInv, NEW p \in Passwords, NEW q \in Passwords, NEW n \in Nonces,
         PreparePasswordChange(p, q, n)
  PROVE  BridgeInv'
<1> DEFINE s == WithPreparedPassword(session, q, n)
           m == [key |-> session.metadata.key, password |-> q, nonce |-> n]
<1>1. Unlocked(session) /\ session.pending = None /\ Call(s)
  BY DEF PreparePasswordChange, Callable, Mutable
<1>2. m \in Metadata /\ m.key = session.vault.key
  BY <1>1, UnlockedParts DEF Metadata
<1>3. /\ s \in SessionRecords /\ s.vault = session.vault /\ s.metadata = session.metadata
      /\ s.pending = None /\ s.change = m
  BY <1>1, <1>2 DEF WithPreparedPassword, BridgeInv, TypeOK, SessionRecords
<1>4. session.metadata # None
  BY <1>1 DEF BridgeInv, KeysAgree
<1> HIDE DEF s, m
<1> QED BY <1>1, <1>2, <1>3, <1>4, UnlockedParts, MetadataCallInv

LEMMA CommitPasswordInv ==
  ASSUME BridgeInv, CommitPasswordChange
  PROVE  BridgeInv'
<1> DEFINE s == WithCommittedPassword(session)
<1>1. session.change # None /\ Call(s)
  BY DEF CommitPasswordChange, PasswordCommits
<1>2. Unlocked(session)
  BY <1>1, LockedParts
<1>3. session.pending = None
  BY <1>1 DEF BridgeInv, PendingIsNext
<1>4. session.change \in Metadata /\ session.change.key = session.vault.key
  BY <1>1, <1>2, UnlockedParts DEF BridgeInv, KeysAgree
<1>5. /\ s \in SessionRecords /\ s.vault = session.vault /\ s.metadata = session.change
      /\ s.pending = None /\ s.change = None
  BY <1>3, <1>4 DEF WithCommittedPassword, BridgeInv, TypeOK, SessionRecords
<1> HIDE DEF s
<1> QED BY <1>1, <1>2, <1>4, <1>5, MetadataCallInv

LEMMA LockInv ==
  ASSUME BridgeInv, Lock
  PROVE  BridgeInv'
<1>1. session' = NoSession /\ bundle' = None /\ storage' = storage
  BY DEF Lock, Locked
<1>2. NoSession \in SessionRecords /\ ~Unlocked(NoSession) /\ NoSession.pending = None
  BY DEF NoSession, SessionRecords, Unlocked
<1> QED BY <1>1, <1>2 DEF BridgeInv, TypeOK, LockLeavesNothing, PendingIsNext, CommittedStands,
           KeysAgree, GenerationsDiffer, StoredFits, BundleStands

-----------------------------------------------------------------------------
(* The host stores what is pending. *)
LEMMA StoreSlotInv ==
  ASSUME BridgeInv, StoreSlot
  PROVE  BridgeInv'
<1> DEFINE p == session.pending
           v == session.vault
<1>1. /\ p # None /\ bundle = None /\ bundle' = bundle /\ session' = session
      /\ storage' = [storage EXCEPT ![p.slot] = p.sealed] /\ Fits(p.sealed)
  BY DEF StoreSlot, Store
<1>2. /\ Unlocked(session) /\ p \in PendingSaves /\ p.slot = Other(v.slot)
      /\ p.sealed.key = v.key /\ p.sealed.generation = v.generation + 1
      /\ v.generation \in Nat /\ v.slot \in Slots
  BY <1>1, UnlockedParts, MaxGenerationAssumption DEF BridgeInv, PendingIsNext, IsNextSlot, NextSealed
<1>3. p.sealed \in SealedSlots /\ p.slot \in Slots /\ v.slot # p.slot
  BY <1>2, TwoSlots DEF PendingSaves
<1>4. /\ storage' \in [Keys -> SealedSlots \cup Metadata \cup Pointers \cup {None}]
      /\ \A s \in Slots : storage'[s] \in SealedSlots \cup {None}
      /\ storage'["meta"] \in Metadata \cup {None}
      /\ storage'[p.slot] = p.sealed /\ p.sealed # None
      /\ \A j \in Keys \ {p.slot} : storage'[j] = storage[j]
  BY <1>1, <1>3, StoredType, TwoSlots DEF BridgeInv
<1>5. storage'[v.slot] = storage[v.slot] /\ storage'["meta"] = storage["meta"]
  BY <1>2, <1>3, <1>4, TwoSlots DEF Keys
<1>6. CommittedStands'
  BY <1>1, <1>2, <1>4, <1>5 DEF BridgeInv, CommittedStands
<1>7. GenerationsDiffer'
  BY <1>1, <1>2, <1>3, <1>4, <1>5 DEF BridgeInv, CommittedStands, GenerationsDiffer, Slots, Other
<1>8. StoredFits'
  BY <1>1, <1>4, TwoSlots DEF BridgeInv, StoredFits
<1>9. TypeOK' /\ LockLeavesNothing' /\ PendingIsNext' /\ KeysAgree' /\ BundleStands'
  BY <1>1, <1>4 DEF BridgeInv, TypeOK, LockLeavesNothing, PendingIsNext, KeysAgree, BundleStands
<1> QED BY <1>6, <1>7, <1>8, <1>9 DEF BridgeInv

(* Storing under the pointer or the metadata leaves the slots. *)
LEMMA StoreBesideSlotsInv ==
  ASSUME BridgeInv, NEW k \in {"pointer", "meta"}, NEW x, Store(k, x),
         \/ x \in Metadata /\ k = "meta" /\ x.key = session.vault.key
         \/ x \in Pointers /\ k = "pointer"
  PROVE  BridgeInv' /\ \A s \in Slots : storage'[s] = storage[s]
<1>1. /\ bundle = None /\ bundle' = bundle /\ session' = session
      /\ storage' = [storage EXCEPT ![k] = x]
  BY DEF Store
<1>2. /\ storage' \in [Keys -> SealedSlots \cup Metadata \cup Pointers \cup {None}]
      /\ \A s \in Slots : storage'[s] \in SealedSlots \cup {None}
      /\ storage'["meta"] \in Metadata \cup {None}
      /\ storage'[k] = x /\ x # None /\ \A j \in Keys \ {k} : storage'[j] = storage[j]
  BY <1>1, StoredType DEF BridgeInv, Keys
<1>3. \A s \in Slots : storage'[s] = storage[s]
  BY <1>2 DEF Keys, Slots
<1>4. GenerationsDiffer' /\ StoredFits'
  BY <1>3 DEF BridgeInv, GenerationsDiffer, StoredFits, Slots
<1>5. CommittedStands'
  <2> SUFFICES ASSUME Unlocked(session), bundle = None PROVE CommittedStands'
    BY <1>1 DEF CommittedStands
  <2>1. session.vault.slot \in Slots /\ Other(session.vault.slot) \in Slots
    BY UnlockedParts, TwoSlots
  <2>2. storage'["meta"] # None /\ storage'["meta"].key = session.vault.key
    BY <1>2 DEF BridgeInv, CommittedStands, Keys
  <2> QED BY <1>1, <1>3, <2>1, <2>2 DEF BridgeInv, CommittedStands
<1>6. TypeOK' /\ LockLeavesNothing' /\ PendingIsNext' /\ KeysAgree' /\ BundleStands'
  BY <1>1, <1>2 DEF BridgeInv, TypeOK, LockLeavesNothing, PendingIsNext, KeysAgree, BundleStands
<1> QED BY <1>3, <1>4, <1>5, <1>6 DEF BridgeInv

LEMMA StorePointerInv ==
  ASSUME BridgeInv, StorePointer
  PROVE  BridgeInv' /\ \A s \in Slots : storage'[s] = storage[s]
<1>1. session.pending # None /\ Unlocked(session)
  BY DEF StorePointer, BridgeInv, PendingIsNext
<1>2. PointerTo(session.pending.slot, session.pending.sealed) \in Pointers
  BY <1>1, UnlockedParts, PointerType DEF PendingSaves
<1> QED BY <1>2, StoreBesideSlotsInv DEF StorePointer

LEMMA StoreMetadataInv ==
  ASSUME BridgeInv, StoreMetadata
  PROVE  BridgeInv' /\ \A s \in Slots : storage'[s] = storage[s]
<1>1. session.change # None /\ Unlocked(session)
  BY LockedParts DEF StoreMetadata
<1>2. session.change \in Metadata /\ session.change.key = session.vault.key
  BY <1>1, UnlockedParts DEF BridgeInv, KeysAgree
<1> QED BY <1>2, StoreBesideSlotsInv DEF StoreMetadata

LEMMA NextInv == BridgeInv /\ [Next]_vars => BridgeInv'
<1> SUFFICES ASSUME BridgeInv, [Next]_vars PROVE BridgeInv'
  OBVIOUS
<1>1. CASE UNCHANGED vars
  BY <1>1, StutterInv
<1>2. ASSUME NEW v \in Vaults, NEW p \in Passwords, NEW n \in Nonces, Create(v, p, n)
      PROVE  BridgeInv'
  BY <1>2, CreateInv
<1>3. ASSUME NEW s \in Slots, Open(s) \/ VerifyPendingSlot(s) PROVE BridgeInv'
  BY <1>3, OpenInv, VerifyInv
<1>4. CASE TakeSession
  BY <1>4, TakeInv
<1>5. ASSUME NEW c \in Contents, Edit(c) PROVE BridgeInv'
  BY <1>5, EditInv
<1>6. ASSUME NEW n \in Nonces, PrepareSave(n) PROVE BridgeInv'
  BY <1>6, PrepareSaveInv
<1>7. CASE CommitPendingSave \/ CancelPendingSave \/ CommitPasswordChange \/ CancelPasswordChange
  BY <1>7, CommitInv, CommitPasswordInv, CancelInv
<1>8. ASSUME NEW p \in Passwords, NEW q \in Passwords, NEW n \in Nonces,
             PreparePasswordChange(p, q, n)
      PROVE  BridgeInv'
  BY <1>8, PreparePasswordInv
<1>9. CASE Lock
  BY <1>9, LockInv
<1>10. CASE Host
  BY <1>10, StoreBundledInv, StoreSlotInv, StorePointerInv, StoreMetadataInv DEF Host
<1> QED BY <1>1, <1>2, <1>3, <1>4, <1>5, <1>6, <1>7, <1>8, <1>9, <1>10 DEF Next

(* The inductive invariant, and what it is for. *)
THEOREM Invariance == Spec => []BridgeInv
BY InitInv, NextInv, PTL DEF Spec

(* Session, bundle and storage hold what bridge.rs declares (VaultBridge,
   CreateBundle, OpenBundle, PendingSave). *)
THEOREM Typing == Spec => []TypeOK
BY Invariance, PTL DEF BridgeInv

(* Locking leaves nothing a later call could act upon (lock). *)
THEOREM Locking == Spec => []LockLeavesNothing
BY Invariance, PTL DEF BridgeInv

(* Under any order of calls a pending save seals the session's container for the
   slot and generation that are due, so that commit_pending_save cannot be
   refused after the storage holds it. *)
THEOREM PendingSave == Spec => []PendingIsNext
BY Invariance, PTL DEF BridgeInv

(* The last committed generation stands in its slot, under metadata that opens
   it, whatever is prepared, stored, cancelled or repeated afterwards. *)
THEOREM Committed == Spec => []CommittedStands
BY Invariance, PTL DEF BridgeInv

-----------------------------------------------------------------------------
(* Saving is a two-phase write of the container. *)

WorkingVersion == IF Unlocked(session) THEN Version(session.vault) ELSE None

VersionView == <<VersionIn(storage), WorkingVersion, OfferedVersion>>

(* A step that leaves slots and the vault of the metadata opens the same. *)
LEMMA SameVersion ==
  ASSUME NEW st, NEW new, \A s \in Slots : new[s] = st[s],
         new["meta"] = None <=> st["meta"] = None,
         st["meta"] # None => new["meta"].key = st["meta"].key
  PROVE  VersionIn(new) = VersionIn(st)
<1>1. CASE st["meta"] = None
  BY <1>1 DEF VersionIn
<1>2. CASE st["meta"] # None
  <2>1. Selected(new) = Selected(st) /\ Selected(st) \subseteq Slots
    BY <1>2 DEF Selected
  <2>2. CASE Selected(st) = {}
    BY <1>2, <2>1, <2>2 DEF VersionIn
  <2>3. CASE Selected(st) # {}
    <3>1. (CHOOSE s \in Selected(st) : TRUE) \in Slots
      BY <2>1, <2>3
    <3> QED BY <1>2, <2>1, <2>3, <3>1 DEF VersionIn
  <2> QED BY <2>2, <2>3
<1> QED BY <1>1, <1>2

(* Versions are no placeholders. *)
LEMMA VersionType ==
  /\ \A c \in SealedSlots \cup OpenVaults : Version(c) \in Versions
  /\ \A v \in Versions : v # None
BY NoneAssumption DEF Version, Versions, SealedSlots, OpenVaults

LEMMA ContainerInit == Init => Container!Init
BY DEF Init, NoSession, Unlocked, Container!Init, VersionIn, OfferedVersion, Keys

(* What a call leaves of the view *)
LEMMA CallView ==
  ASSUME NEW s, Call(s)
  PROVE  /\ VersionIn(storage)' = VersionIn(storage) /\ bundle' = None /\ bundle = None
         /\ session' = s
BY DEF Call

LEMMA CreateSaves ==
  ASSUME BridgeInv, NEW v \in Vaults, NEW p \in Passwords, NEW n \in Nonces, Create(v, p, n)
  PROVE  Container!Next
<1> DEFINE sealed == [key |-> v, generation |-> 0, content |-> EmptyContent, nonce |-> n]
           meta == [key |-> v, password |-> p, nonce |-> n]
<1>1. /\ sealed \in SealedSlots /\ meta \in Metadata /\ sealed # None
      /\ Version(sealed) \in Versions
  BY VersionType, MaxGenerationAssumption, EmptyContentAssumption, NoneAssumption DEF SealedSlots, Metadata
<1>2. /\ session' = Session("slot_a", sealed, meta) /\ ~Unlocked(session)
      /\ bundle' = Bundle(sealed, meta, PointerTo("slot_a", sealed))
      /\ storage["meta"] = None /\ storage' = storage
  BY DEF Create
<1> HIDE DEF sealed, meta
<1>4. Unlocked(session)' /\ session'.pending = None /\ Version(session.vault)' = Version(sealed)
  BY <1>1, <1>2, SessionType DEF Unlocked, Slots, Version
<1>5. bundle' # None /\ bundle'["slot_a"] = sealed
  BY <1>1, <1>2, BundleFields, PointerType DEF Slots
<1>6. VersionIn(storage) = None /\ VersionIn(storage)' = None
  BY <1>2 DEF VersionIn
<1>7. Container!Begin(Version(sealed))
  BY <1>1, <1>2, <1>4, <1>5, <1>6 DEF Container!Begin, OfferedVersion
<1> QED BY <1>1, <1>7 DEF Container!Next

LEMMA OpenSaves ==
  ASSUME BridgeInv, NEW s \in Slots, Open(s)
  PROVE  Container!Open
<1> DEFINE m == storage["meta"]
           c == storage[s]
<1>1. /\ m \in Metadata /\ m # None /\ c \in SealedSlots /\ c # None /\ c.key = m.key
      /\ \A t \in Slots : storage[t] # None /\ storage[t].key = m.key
                            => storage[t].generation <= c.generation
  BY DEF Open, Selected, BridgeInv, TypeOK, StoredFits
<1>2. storage[Other(s)] # None /\ storage[Other(s)].key = m.key
        => storage[Other(s)].generation < c.generation
  <2>1. \A t \in Slots : storage[t] # None => storage[t].generation \in Nat
    BY MaxGenerationAssumption DEF BridgeInv, TypeOK, SealedSlots
  <2>2. storage[Other(s)] # None /\ storage[Other(s)].key = c.key
          => storage[Other(s)].generation # c.generation
    BY <1>1 DEF BridgeInv, GenerationsDiffer, Slots, Other
  <2> QED BY <1>1, <2>1, <2>2, TwoSlots
<1>3. VersionIn(storage) = Version(c)
  BY <1>1, <1>2, NewestIsSelected DEF BridgeInv, TypeOK, StoredFits
<1>4. /\ session' = Session(s, c, m) /\ storage' = storage /\ ~Unlocked(session)
      /\ \E pointer \in Pointers \cup {None} : bundle' = Bundle(None, None, pointer)
  BY <1>1, PointerType DEF Open
<1>5. bundle'["slot_a"] = None
  BY <1>4, BundleFields
<1>6. Unlocked(session)' /\ session'.pending = None /\ Version(session.vault)' = Version(c)
  BY <1>1, <1>4, SessionType DEF Unlocked, Version
<1>7. Version(c) # None
  BY <1>1, VersionType
<1>8. OfferedVersion = None /\ OfferedVersion' = None
  BY <1>4, <1>5, <1>6, LockedParts DEF OfferedVersion
<1>9. VersionIn(storage)' = VersionIn(storage)
  BY <1>4
<1> QED BY <1>3, <1>4, <1>6, <1>7, <1>8, <1>9 DEF Container!Open

LEMMA StoreBundledSaves ==
  ASSUME BridgeInv, NEW k \in Keys, StoreBundled(k)
  PROVE  Container!Store \/ UNCHANGED VersionView
<1>1. /\ bundle # None /\ bundle[k] # None /\ session' = session /\ bundle' = bundle
      /\ storage' = [storage EXCEPT ![k] = bundle[k]]
      /\ k = "meta" => storage["slot_a"] = bundle["slot_a"]
  BY DEF StoreBundled
<1>2. /\ storage' \in [Keys -> SealedSlots \cup Metadata \cup Pointers \cup {None}]
      /\ \A s \in Slots : storage'[s] \in SealedSlots \cup {None}
      /\ storage'[k] = bundle[k] /\ \A j \in Keys \ {k} : storage'[j] = storage[j]
  BY <1>1, BundledType, StoredType DEF BridgeInv
<1>3. WorkingVersion' = WorkingVersion /\ OfferedVersion' = OfferedVersion
  BY <1>1 DEF WorkingVersion, OfferedVersion
<1>4. /\ Unlocked(session) /\ session.pending = None /\ (Creating \/ Opening)
      /\ bundle["slot_b"] = None
  BY <1>1 DEF BridgeInv, BundleStands
<1>5. CASE k = "pointer"
  <2>1. VersionIn(storage') = VersionIn(storage)
    BY <1>2, <1>5, SameVersion DEF Keys, Slots
  <2> QED BY <1>3, <2>1 DEF VersionView
<1>6. CASE k \in Slots
  <2>1. k = "slot_a" /\ Creating
    BY <1>1, <1>4, <1>6 DEF Slots, Opening
  <2>2. CASE storage["meta"] = None
    <3>1. storage'["meta"] = None
      BY <1>2, <2>1, <2>2 DEF Keys
    <3> QED BY <1>3, <2>2, <3>1 DEF VersionView, VersionIn
  <2>3. CASE storage["meta"] # None
    <3>1. \A s \in Slots : storage'[s] = storage[s]
      BY <1>1, <1>2, <2>1, <2>3 DEF Creating, Keys, Slots
    <3>2. storage'["meta"] = storage["meta"]
      BY <1>2, <2>1 DEF Keys
    <3>3. VersionIn(storage') = VersionIn(storage)
      BY <3>1, <3>2, SameVersion
    <3> QED BY <1>3, <3>3 DEF VersionView
  <2> QED BY <2>2, <2>3
<1>7. CASE k = "meta"
  <2>1. Creating
    BY <1>1, <1>4, <1>7 DEF Opening
  <2>2. /\ storage'["slot_a"] = bundle["slot_a"] /\ bundle["slot_a"] # None
        /\ storage'["meta"] = session.metadata /\ storage'["slot_b"] = storage["slot_b"]
    BY <1>1, <1>2, <1>7, <2>1 DEF Creating, Keys, Slots
  <2>3. session.metadata # None /\ session.metadata.key = session.vault.key
    BY <1>4 DEF BridgeInv, KeysAgree
  <2>4. Other("slot_a") = "slot_b" /\ "slot_a" \in Slots
    BY DEF Other, Slots
  <2>5. VersionIn(storage') = Version(bundle["slot_a"])
    BY <1>2, <2>1, <2>2, <2>3, <2>4, NewestIsSelected DEF Creating
  <2>6. OfferedVersion = Version(bundle["slot_a"])
    BY <1>1, <1>4, <2>2 DEF OfferedVersion
  <2>7. OfferedVersion # None
    BY <1>1, <2>2, <2>6, VersionType DEF BridgeInv, TypeOK, Bundles
  <2> QED BY <1>1, <1>3, <2>5, <2>6, <2>7 DEF Container!Store, WorkingVersion
<1> QED BY <1>5, <1>6, <1>7 DEF Keys

LEMMA TakeSaves ==
  ASSUME BridgeInv, TakeSession
  PROVE  Container!Settle \/ UNCHANGED VersionView
<1>1. /\ bundle # None /\ bundle' = None /\ session' = session /\ storage' = storage
      /\ \A k \in Keys : bundle[k] # None => storage[k] = bundle[k]
  BY DEF TakeSession
<1>2. Unlocked(session) /\ session.pending = None /\ (Creating \/ Opening)
  BY <1>1 DEF BridgeInv, BundleStands
<1>3. OfferedVersion' = None
  BY <1>1, <1>2 DEF OfferedVersion
<1>4. CASE Opening
  BY <1>1, <1>2, <1>3, <1>4 DEF Opening, VersionView, WorkingVersion, OfferedVersion
<1>5. CASE Creating
  <2>1. session.metadata # None /\ session.metadata.key = session.vault.key
    BY <1>2 DEF BridgeInv, KeysAgree
  <2>2. /\ storage["meta"] = session.metadata /\ storage["slot_a"] = bundle["slot_a"]
        /\ bundle["slot_a"] # None
    BY <1>1, <1>5, <2>1 DEF Creating, Keys, Slots
  <2>3. Other("slot_a") = "slot_b" /\ "slot_a" \in Slots
    BY DEF Other, Slots
  <2>4. VersionIn(storage) = Version(bundle["slot_a"])
    BY <1>5, <2>1, <2>2, <2>3, NewestIsSelected DEF Creating, BridgeInv, TypeOK
  <2>5. /\ OfferedVersion = Version(bundle["slot_a"])
        /\ Version(session.vault) = Version(bundle["slot_a"])
    BY <1>1, <1>2, <1>5, <2>2 DEF OfferedVersion, Creating, Version
  <2>6. OfferedVersion # None
    BY <1>1, <2>2, <2>5, VersionType DEF BridgeInv, TypeOK, Bundles
  <2> QED BY <1>1, <1>2, <1>3, <2>4, <2>5, <2>6 DEF Container!Settle
<1> QED BY <1>2, <1>4, <1>5

LEMMA EditSaves ==
  ASSUME BridgeInv, NEW c \in Contents, Edit(c)
  PROVE  Container!Next
<1>1. /\ Unlocked(session) /\ session.pending = None /\ Call(WithContent(session, c))
      /\ session.vault \in OpenVaults /\ Version(session.vault) # None
  BY UnlockedParts, VersionType DEF Edit, Callable, Mutable
<1>2. WithContent(session, c).vault \in OpenVaults /\ WithContent(session, c).pending = None
  BY <1>1 DEF WithContent, BridgeInv, TypeOK, SessionRecords, OpenVaults
<1>3. WithContent(session, c).vault # None
  BY <1>2, NoneAssumption
<1>4. Container!Change(Version(WithContent(session, c).vault))
  BY <1>1, <1>2, <1>3, CallView DEF Container!Change, OfferedVersion, Unlocked
<1> QED BY <1>2, <1>4, VersionType DEF Container!Next

LEMMA PrepareSaves ==
  ASSUME BridgeInv, NEW n \in Nonces, PrepareSave(n)
  PROVE  Container!Next
<1> DEFINE sealed == NextSealed(session, n)
           p == [slot |-> Other(session.vault.slot), sealed |-> sealed, verified |-> FALSE]
<1>1. /\ Unlocked(session) /\ session.pending = None /\ Call(WithPreparedSave(session, n))
      /\ Version(session.vault) # None
  BY UnlockedParts, VersionType DEF PrepareSave, Callable, Mutable
<1>2. sealed \in SealedSlots
  BY <1>1, UnlockedParts, MaxGenerationAssumption DEF NextSealed, SealedSlots, PrepareSave
<1>3. p \in PendingSaves
  BY <1>2, <1>1, UnlockedParts, TwoSlots DEF PendingSaves
<1>4. WithPreparedSave(session, n).vault = session.vault /\ WithPreparedSave(session, n).pending = p
  BY DEF WithPreparedSave, BridgeInv, TypeOK, SessionRecords
<1>5. p # None /\ p.sealed = sealed
  BY <1>3, NoneAssumption
<1> HIDE DEF sealed, p
<1>6. OfferedVersion = None /\ OfferedVersion' = Version(sealed)
  BY <1>1, <1>4, <1>5, CallView DEF OfferedVersion
<1>7. Version(sealed) \in Versions /\ Version(sealed) # None
  BY <1>2, VersionType
<1>8. Container!Offer(Version(sealed))
  BY <1>1, <1>4, <1>6, <1>7, CallView DEF Container!Offer, Unlocked
<1> QED BY <1>7, <1>8 DEF Container!Next

LEMMA VerifySaves ==
  ASSUME BridgeInv, NEW k \in Slots, VerifyPendingSlot(k)
  PROVE  UNCHANGED VersionView
<1>1. Unlocked(session) /\ session.pending # None /\ Call(WithVerifiedSlot(session))
  BY DEF VerifyPendingSlot, SlotVerifies
<1>2. session.pending \in PendingSaves
  BY <1>1, UnlockedParts
<1>3. /\ WithVerifiedSlot(session).vault = session.vault
      /\ WithVerifiedSlot(session).pending \in PendingSaves
      /\ WithVerifiedSlot(session).pending.sealed = session.pending.sealed
  BY <1>1, <1>2 DEF WithVerifiedSlot, BridgeInv, TypeOK, SessionRecords, PendingSaves
<1>4. WithVerifiedSlot(session).pending # None
  BY <1>3, NoneAssumption
<1> QED BY <1>1, <1>3, <1>4, CallView DEF VersionView, WorkingVersion, OfferedVersion, Unlocked

(* A verified pending save is what opens. *)
LEMMA VerifiedOpens ==
  ASSUME BridgeInv, bundle = None, session.pending # None, NEW st,
         \A s \in Slots : st[s] \in SealedSlots \cup {None},
         st[session.pending.slot] = session.pending.sealed,
         st[session.vault.slot] = storage[session.vault.slot],
         st["meta"] # None, st["meta"].key = session.vault.key,
         Fits(session.pending.sealed)
  PROVE  /\ VersionIn(st) = Version(session.pending.sealed)
         /\ Version(session.pending.sealed) # None
<1> DEFINE p == session.pending
           v == session.vault
<1>1. /\ Unlocked(session) /\ p \in PendingSaves /\ p.slot = Other(v.slot)
      /\ p.sealed.key = v.key /\ p.sealed.generation = v.generation + 1
      /\ v.generation \in Nat /\ v.slot \in Slots
  BY UnlockedParts, MaxGenerationAssumption DEF BridgeInv, PendingIsNext, IsNextSlot, NextSealed
<1>2. p.sealed \in SealedSlots /\ p.sealed # None /\ p.slot \in Slots /\ Other(p.slot) = v.slot
  BY <1>1, TwoSlots, NoneAssumption DEF PendingSaves
<1>3. storage[v.slot].generation = v.generation
  BY <1>1 DEF BridgeInv, CommittedStands
<1>4. VersionIn(st) = Version(p.sealed)
  BY <1>1, <1>2, <1>3, NewestIsSelected
<1> QED BY <1>2, <1>4, VersionType

LEMMA CommitSaves ==
  ASSUME BridgeInv, CommitPendingSave
  PROVE  Container!Settle
<1> DEFINE p == session.pending
           v == WithCommittedSave(session).vault
<1>1. /\ Unlocked(session) /\ p # None /\ p.verified /\ Call(WithCommittedSave(session))
      /\ bundle = None
  BY DEF CommitPendingSave, SaveCommits, Call
<1>2. /\ storage[p.slot] = p.sealed /\ storage["meta"] # None
      /\ storage["meta"].key = session.vault.key /\ p.sealed.content = session.vault.content
      /\ session.vault \in OpenVaults /\ p \in PendingSaves
  BY <1>1, UnlockedParts DEF BridgeInv, CommittedStands, PendingIsNext, IsNextSlot, NextSealed
<1>3. p.slot \in Slots /\ p.sealed \in SealedSlots /\ p.sealed # None
  BY <1>2, NoneAssumption DEF PendingSaves
<1>4. Fits(p.sealed)
  BY <1>2, <1>3 DEF BridgeInv, StoredFits
<1>5. VersionIn(storage) = Version(p.sealed) /\ Version(p.sealed) # None
  BY <1>1, <1>2, <1>4, VerifiedOpens DEF BridgeInv, TypeOK
<1>6. /\ WithCommittedSave(session).pending = None /\ v \in OpenVaults
      /\ v.generation = p.sealed.generation /\ v.content = session.vault.content
  BY <1>2, <1>3 DEF WithCommittedSave, BridgeInv, TypeOK, SessionRecords, OpenVaults, SealedSlots
<1>7. v # None /\ Version(v) = Version(p.sealed)
  BY <1>2, <1>6, NoneAssumption DEF Version
<1> QED BY <1>1, <1>5, <1>6, <1>7, CallView DEF Container!Settle, OfferedVersion, Unlocked

LEMMA OtherCallSaves ==
  ASSUME BridgeInv, NEW s, Call(s), s.vault = session.vault, s.pending = session.pending
  PROVE  UNCHANGED VersionView
BY CallView DEF VersionView, WorkingVersion, OfferedVersion, Unlocked

LEMMA PasswordCallSaves ==
  ASSUME BridgeInv, NEW q,
         \/ CancelPasswordChange \/ CommitPasswordChange
         \/ \E n \in Nonces : Call(WithPreparedPassword(session, q, n))
  PROVE  UNCHANGED VersionView
BY OtherCallSaves DEF CancelPasswordChange, CommitPasswordChange, WithoutPasswordChange,
   WithCommittedPassword, WithPreparedPassword, BridgeInv, TypeOK, SessionRecords

LEMMA CancelSaves ==
  ASSUME BridgeInv, CancelPendingSave
  PROVE  Container!Withdraw
<1>1. Call(WithoutPendingSave(session))
  BY DEF CancelPendingSave
<1>2. WithoutPendingSave(session).vault = session.vault /\ WithoutPendingSave(session).pending = None
  BY DEF WithoutPendingSave, BridgeInv, TypeOK, SessionRecords
<1> QED BY <1>1, <1>2, CallView DEF Container!Withdraw, OfferedVersion, Unlocked

LEMMA LockSaves ==
  ASSUME Lock
  PROVE  Container!Close
BY DEF Lock, Locked, NoSession, Container!Close, OfferedVersion, Unlocked

LEMMA StoreSlotSaves ==
  ASSUME BridgeInv, StoreSlot
  PROVE  Container!Store
<1> DEFINE p == session.pending
<1>1. /\ p # None /\ bundle = None /\ bundle' = bundle /\ session' = session
      /\ storage' = [storage EXCEPT ![p.slot] = p.sealed] /\ Unlocked(session)
      /\ Fits(p.sealed)
  BY DEF StoreSlot, Store, BridgeInv, PendingIsNext
<1>2. p \in PendingSaves /\ p.slot = Other(session.vault.slot) /\ session.vault.slot \in Slots
  BY <1>1, UnlockedParts DEF BridgeInv, PendingIsNext, IsNextSlot
<1>3. /\ \A s \in Slots : storage'[s] \in SealedSlots \cup {None}
      /\ storage'[p.slot] = p.sealed /\ \A j \in Keys \ {p.slot} : storage'[j] = storage[j]
  <2>1. p.sealed \in SealedSlots /\ p.slot \in Slots /\ p.slot \in Keys
    BY <1>2, TwoSlots DEF PendingSaves
  <2> QED BY <1>1, <2>1, StoredType DEF BridgeInv
<1>4. storage'[session.vault.slot] = storage[session.vault.slot] /\ storage'["meta"] = storage["meta"]
  BY <1>2, <1>3, TwoSlots DEF Keys
<1>5. storage["meta"] # None /\ storage["meta"].key = session.vault.key
  BY <1>1 DEF BridgeInv, CommittedStands
<1>6. VersionIn(storage') = Version(p.sealed) /\ Version(p.sealed) # None
  BY <1>1, <1>3, <1>4, <1>5, VerifiedOpens
<1> QED BY <1>1, <1>6 DEF Container!Store, OfferedVersion

LEMMA StoreBesideSaves ==
  ASSUME BridgeInv, StorePointer \/ StoreMetadata
  PROVE  UNCHANGED VersionView
<1>1. bundle = None /\ bundle' = bundle /\ session' = session
  BY DEF StorePointer, StoreMetadata, Store
<1>2. BridgeInv' /\ \A s \in Slots : storage'[s] = storage[s]
  BY StorePointerInv, StoreMetadataInv
<1>3. Unlocked(session)
  BY LockedParts DEF StorePointer, StoreMetadata
<1>4. /\ storage["meta"] # None /\ storage["meta"].key = session.vault.key
      /\ storage'["meta"] # None /\ storage'["meta"].key = session.vault.key
  BY <1>1, <1>2, <1>3 DEF BridgeInv, CommittedStands
<1>5. VersionIn(storage') = VersionIn(storage)
  BY <1>2, <1>4, SameVersion
<1> QED BY <1>1, <1>5 DEF VersionView, WorkingVersion, OfferedVersion

LEMMA ContainerStep == BridgeInv /\ [Next]_vars => [Container!Next]_(Container!vars)
<1> SUFFICES ASSUME BridgeInv, [Next]_vars PROVE [Container!Next]_(Container!vars)
  OBVIOUS
<1>0. ASSUME UNCHANGED VersionView PROVE UNCHANGED Container!vars
  BY <1>0 DEF VersionView, WorkingVersion, Container!vars
<1>1. CASE UNCHANGED vars
  BY <1>1 DEF vars, Container!vars, OfferedVersion
<1>2. ASSUME NEW v \in Vaults, NEW p \in Passwords, NEW n \in Nonces, Create(v, p, n)
      PROVE  Container!Next
  BY <1>2, CreateSaves
<1>3. ASSUME NEW s \in Slots, Open(s) \/ VerifyPendingSlot(s) PROVE [Container!Next]_(Container!vars)
  BY <1>0, <1>3, OpenSaves, VerifySaves DEF Container!Next
<1>4. CASE TakeSession
  BY <1>0, <1>4, TakeSaves DEF Container!Next
<1>5. ASSUME NEW c \in Contents, Edit(c) PROVE Container!Next
  BY <1>5, EditSaves
<1>6. ASSUME NEW n \in Nonces, PrepareSave(n) PROVE Container!Next
  BY <1>6, PrepareSaves
<1>7. CASE CommitPendingSave \/ CancelPendingSave
  BY <1>7, CommitSaves, CancelSaves DEF Container!Next
<1>8. ASSUME NEW p \in Passwords, NEW q \in Passwords, NEW n \in Nonces,
             PreparePasswordChange(p, q, n)
      PROVE  UNCHANGED Container!vars
  BY <1>0, <1>8, PasswordCallSaves DEF PreparePasswordChange
<1>9. CASE CommitPasswordChange \/ CancelPasswordChange
  BY <1>0, <1>9, PasswordCallSaves
<1>10. CASE Lock
  BY <1>10, LockSaves DEF Container!Next
<1>11. CASE Host
  BY <1>0, <1>11, StoreBundledSaves, StoreSlotSaves, StoreBesideSaves DEF Host, Container!Next
<1> QED BY <1>1, <1>2, <1>3, <1>4, <1>5, <1>6, <1>7, <1>8, <1>9, <1>10, <1>11 DEF Next

(* prepare_save, verify_pending_slot and commit_pending_save, in whatever order
   and however often they are called, are a two-phase write of the container. *)
THEOREM Saves == Spec => SavesInTwoPhases
BY Invariance, ContainerInit, ContainerStep, PTL DEF Spec, SavesInTwoPhases, Container!Spec

-----------------------------------------------------------------------------
(* Changing the password is a two-phase write of the metadata. *)

PasswordView == <<storage["meta"], session.metadata, OfferedMetadata>>

LEMMA PasswordInit == Init => Password!Init
BY DEF Init, NoSession, Password!Init, OfferedMetadata, Keys

(* A call that touches neither metadata nor a pending change *)
LEMMA OtherCallChanges ==
  ASSUME NEW s, Call(s), s.metadata = session.metadata, s.change = session.change
  PROVE  UNCHANGED PasswordView
BY DEF Call, PasswordView, OfferedMetadata

LEMMA CreateChanges ==
  ASSUME BridgeInv, NEW v \in Vaults, NEW p \in Passwords, NEW n \in Nonces, Create(v, p, n)
  PROVE  Password!Next
<1> DEFINE sealed == [key |-> v, generation |-> 0, content |-> EmptyContent, nonce |-> n]
           meta == [key |-> v, password |-> p, nonce |-> n]
<1>1. sealed \in SealedSlots /\ meta \in Metadata
  BY MaxGenerationAssumption, EmptyContentAssumption DEF SealedSlots, Metadata
<1>2. /\ session' = Session("slot_a", sealed, meta) /\ ~Unlocked(session)
      /\ bundle' = Bundle(sealed, meta, PointerTo("slot_a", sealed))
      /\ storage["meta"] = None /\ storage' = storage
  BY DEF Create
<1> HIDE DEF sealed, meta
<1>3. /\ session'.metadata = meta /\ session'.change = None
      /\ bundle' # None /\ bundle'["meta"] = meta
  BY <1>1, <1>2, SessionType, BundleFields, PointerType DEF Slots
<1>4. session.metadata = None
  BY <1>2, LockedParts
<1>5. Password!Begin(meta)
  BY <1>2, <1>3, <1>4 DEF Password!Begin, OfferedMetadata
<1> QED BY <1>1, <1>5 DEF Password!Next

LEMMA OpenChanges ==
  ASSUME BridgeInv, NEW s \in Slots, Open(s)
  PROVE  Password!Open
<1>1. /\ storage["meta"] \in Metadata /\ storage["meta"] # None
      /\ storage[s] \in SealedSlots /\ ~Unlocked(session) /\ storage' = storage
      /\ session' = Session(s, storage[s], storage["meta"])
  BY DEF Open, Selected, BridgeInv, TypeOK
<1>2. \E pointer \in Pointers \cup {None} : bundle' = Bundle(None, None, pointer)
  BY <1>1, PointerType DEF Open
<1>3. bundle'["meta"] = None
  BY <1>2, BundleFields
<1>4. session'.metadata = storage["meta"] /\ session'.change = None
  BY <1>1, SessionType
<1> QED BY <1>1, <1>3, <1>4, LockedParts DEF Password!Open, OfferedMetadata

LEMMA BundleChanges ==
  ASSUME BridgeInv, TakeSession \/ \E k \in Keys : StoreBundled(k)
  PROVE  Password!Settle \/ Password!Store \/ UNCHANGED PasswordView
<1>1. /\ bundle # None /\ Unlocked(session) /\ session.change = None /\ session' = session
      /\ Creating \/ Opening
  BY DEF TakeSession, StoreBundled, BridgeInv, BundleStands
<1>2. OfferedMetadata = bundle["meta"]
  BY <1>1 DEF OfferedMetadata
<1>3. CASE TakeSession
  <2>1. /\ bundle' = None /\ storage' = storage /\ OfferedMetadata' = None
        /\ bundle["meta"] # None => storage["meta"] = bundle["meta"]
    BY <1>1, <1>3 DEF TakeSession, OfferedMetadata, Keys
  <2>2. bundle["meta"] # None => session.metadata = bundle["meta"]
    BY <1>1 DEF Creating, Opening
  <2> QED BY <1>1, <1>2, <2>1, <2>2 DEF Password!Settle, PasswordView
<1>4. ASSUME NEW k \in Keys, StoreBundled(k)
      PROVE  Password!Store \/ UNCHANGED PasswordView
  <2>1. /\ bundle' = bundle /\ bundle[k] # None /\ storage' = [storage EXCEPT ![k] = bundle[k]]
    BY <1>4 DEF StoreBundled
  <2>2. CASE k = "meta"
    <3>1. storage'["meta"] = bundle["meta"]
      BY <2>1, <2>2 DEF BridgeInv, TypeOK
    <3> QED BY <1>1, <1>2, <2>1, <2>2, <3>1 DEF Password!Store, OfferedMetadata
  <2>3. CASE k # "meta"
    <3>1. storage'["meta"] = storage["meta"]
      BY <2>1, <2>3 DEF BridgeInv, TypeOK, Keys
    <3> QED BY <1>1, <2>1, <3>1 DEF PasswordView, OfferedMetadata
  <2> QED BY <2>2, <2>3
<1> QED BY <1>3, <1>4

LEMMA PrepareChanges ==
  ASSUME BridgeInv, NEW p \in Passwords, NEW q \in Passwords, NEW n \in Nonces,
         PreparePasswordChange(p, q, n)
  PROVE  Password!Next
<1> DEFINE m == [key |-> session.metadata.key, password |-> q, nonce |-> n]
<1>1. /\ Unlocked(session) /\ session.change = None /\ bundle = None /\ session.metadata # None
      /\ Call(WithPreparedPassword(session, q, n))
  BY DEF PreparePasswordChange, Callable, Mutable, BridgeInv, KeysAgree
<1>2. m \in Metadata
  BY <1>1, UnlockedParts DEF Metadata
<1>3. m # None
  BY <1>2, NoneAssumption
<1>4. /\ WithPreparedPassword(session, q, n).metadata = session.metadata
      /\ WithPreparedPassword(session, q, n).change = m
  BY DEF WithPreparedPassword, BridgeInv, TypeOK, SessionRecords
<1> HIDE DEF m
<1>5. Password!Offer(m)
  BY <1>1, <1>3, <1>4 DEF Password!Offer, OfferedMetadata, Call
<1> QED BY <1>2, <1>5 DEF Password!Next

LEMMA CommitChanges ==
  ASSUME BridgeInv, CommitPasswordChange
  PROVE  Password!Settle
<1>1. /\ session.change # None /\ storage["meta"] = session.change /\ bundle = None
      /\ Call(WithCommittedPassword(session))
  BY DEF CommitPasswordChange, PasswordCommits, Call
<1>2. /\ WithCommittedPassword(session).metadata = session.change
      /\ WithCommittedPassword(session).change = None
  BY DEF WithCommittedPassword, BridgeInv, TypeOK, SessionRecords
<1> QED BY <1>1, <1>2 DEF Password!Settle, OfferedMetadata, Call

LEMMA CancelChanges ==
  ASSUME BridgeInv, CancelPasswordChange
  PROVE  Password!Withdraw
<1>1. Call(WithoutPasswordChange(session))
  BY DEF CancelPasswordChange
<1>2. /\ WithoutPasswordChange(session).metadata = session.metadata
      /\ WithoutPasswordChange(session).change = None
  BY DEF WithoutPasswordChange, BridgeInv, TypeOK, SessionRecords
<1> QED BY <1>1, <1>2 DEF Password!Withdraw, OfferedMetadata, Call

LEMMA SaveCallChanges ==
  ASSUME BridgeInv,
         \/ \E c \in Contents : Edit(c)
         \/ \E n \in Nonces : PrepareSave(n)
         \/ \E s \in Slots : VerifyPendingSlot(s)
         \/ CommitPendingSave \/ CancelPendingSave
  PROVE  UNCHANGED PasswordView
<1>1. ASSUME NEW c \in Contents, Edit(c) PROVE UNCHANGED PasswordView
  BY <1>1, OtherCallChanges DEF Edit, WithContent, BridgeInv, TypeOK, SessionRecords
<1>2. ASSUME NEW n \in Nonces, PrepareSave(n) PROVE UNCHANGED PasswordView
  BY <1>2, OtherCallChanges DEF PrepareSave, WithPreparedSave, BridgeInv, TypeOK, SessionRecords
<1>3. ASSUME NEW s \in Slots, VerifyPendingSlot(s) PROVE UNCHANGED PasswordView
  BY <1>3, OtherCallChanges DEF VerifyPendingSlot, WithVerifiedSlot, BridgeInv, TypeOK, SessionRecords
<1>4. CASE CommitPendingSave
  BY <1>4, OtherCallChanges DEF CommitPendingSave, WithCommittedSave, BridgeInv, TypeOK, SessionRecords
<1>5. CASE CancelPendingSave
  BY <1>5, OtherCallChanges DEF CancelPendingSave, WithoutPendingSave, BridgeInv, TypeOK, SessionRecords
<1> QED BY <1>1, <1>2, <1>3, <1>4, <1>5

LEMMA StoreChanges ==
  ASSUME BridgeInv, StoreSlot \/ StorePointer \/ StoreMetadata
  PROVE  Password!Store \/ UNCHANGED PasswordView
<1>1. bundle = None /\ bundle' = bundle /\ session' = session
  BY DEF StoreSlot, StorePointer, StoreMetadata, Store
<1>2. CASE StoreMetadata
  BY <1>1, <1>2 DEF StoreMetadata, Store, Password!Store, OfferedMetadata, BridgeInv, TypeOK, Keys
<1>3. CASE StorePointer
  <2>1. storage'["meta"] = storage["meta"]
    BY <1>3 DEF StorePointer, Store, BridgeInv, TypeOK, Keys
  <2> QED BY <1>1, <2>1 DEF PasswordView, OfferedMetadata
<1>4. CASE StoreSlot
  <2>1. session.pending # None /\ Unlocked(session)
    BY <1>4 DEF StoreSlot, BridgeInv, PendingIsNext
  <2>2. session.pending.slot \in Slots
    BY <2>1, UnlockedParts DEF PendingSaves
  <2>3. storage'["meta"] = storage["meta"]
    BY <1>4, <2>2, TwoSlots DEF StoreSlot, Store, BridgeInv, TypeOK, Keys
  <2> QED BY <1>1, <2>3 DEF PasswordView, OfferedMetadata
<1> QED BY <1>2, <1>3, <1>4

LEMMA PasswordStep == BridgeInv /\ [Next]_vars => [Password!Next]_(Password!vars)
<1> SUFFICES ASSUME BridgeInv, [Next]_vars PROVE [Password!Next]_(Password!vars)
  OBVIOUS
<1>0. ASSUME UNCHANGED PasswordView PROVE UNCHANGED Password!vars
  BY <1>0 DEF PasswordView, Password!vars
<1>1. CASE UNCHANGED vars
  BY <1>1 DEF vars, Password!vars, OfferedMetadata
<1>2. ASSUME NEW v \in Vaults, NEW p \in Passwords, NEW n \in Nonces, Create(v, p, n)
      PROVE  Password!Next
  BY <1>2, CreateChanges
<1>3. ASSUME NEW s \in Slots, Open(s) PROVE Password!Next
  BY <1>3, OpenChanges DEF Password!Next
<1>4. CASE \/ \E c \in Contents : Edit(c)
           \/ \E n \in Nonces : PrepareSave(n)
           \/ \E s \in Slots : VerifyPendingSlot(s)
           \/ CommitPendingSave \/ CancelPendingSave
  BY <1>0, <1>4, SaveCallChanges
<1>5. ASSUME NEW p \in Passwords, NEW q \in Passwords, NEW n \in Nonces,
             PreparePasswordChange(p, q, n)
      PROVE  Password!Next
  BY <1>5, PrepareChanges
<1>6. CASE CommitPasswordChange \/ CancelPasswordChange
  BY <1>6, CommitChanges, CancelChanges DEF Password!Next
<1>7. CASE Lock
  <2>1. Password!Close
    BY <1>7 DEF Lock, Locked, NoSession, Password!Close, OfferedMetadata
  <2> QED BY <2>1 DEF Password!Next
<1>8. CASE TakeSession \/ Host
  BY <1>0, <1>8, BundleChanges, StoreChanges DEF Host, Password!Next
<1> QED BY <1>1, <1>2, <1>3, <1>4, <1>5, <1>6, <1>7, <1>8 DEF Next

(* prepare_password_change and commit_password_change are one of the metadata. *)
THEOREM Changes == Spec => ChangesInTwoPhases
BY Invariance, PasswordInit, PasswordStep, PTL DEF Spec, ChangesInTwoPhases, Password!Spec

=============================================================================
