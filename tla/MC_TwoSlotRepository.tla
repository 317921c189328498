------------------------- MODULE MC_TwoSlotRepository -------------------------
(* Small instances of TwoSlotRepository. *)
EXTENDS RepositoryRefinement, TLC

CONSTANTS v1, v2, v3, right, other, empty, edited, large

TwoVaults == {v1, v2}
ThreeVaults == {v1, v2, v3}
BothPasswords == {right, other}
ThreeContents == {empty, edited, large}
LargeContents == {large}

Interchangeable == Permutations(ThreeVaults) \cup Permutations(BothPasswords)

NoKeys == {}
PointerAndMeta == {"active", "meta"}
Slots == {"A", "B"}
AllKeys == {"A", "B", "meta", "active"}

-----------------------------------------------------------------------------
(* What VaultSealing_proofs proves of the encryption, on two of everything. *)
Sealing == INSTANCE VaultSealing WITH ValidPasswords <- BothPasswords, Failed <- empty

Accepted == [memoryKib |-> 65536, iterations |-> 3, parallelism |-> 1]
NewVault(password, v) ==
  Sealing!CreateVault(password, Accepted, 7, v, <<"salt", v>>, <<"dek", v>>, <<1, 2>>)
NewSlot(v, slot, g) ==
  Sealing!SealSlot(<<"dek", v>>, NewVault(right, v).unlocked.container, slot, g, 3)

(* rewrap_vault_key on a vault created with the right password *)
Rewrapped(password, newPassword, v) ==
  Sealing!RewrapVaultKey(password, newPassword, NewVault(right, v).metadata,
                         NewVault(right, v).unlocked, Accepted, <<"salt", 0>>, 4)

ASSUME SealingHolds ==
  \A v, w \in {v1, v2}, p, q \in BothPasswords, s, t \in Slots, g, h \in 0..1 :
    /\ Sealing!CreatedOpens(NewVault(p, v), p, q)
    /\ Sealing!SealedOpens(<<"dek", v>>, NewVault(p, v).unlocked.container, s, g, 3)
    /\ Sealing!OpensInPlace(<<"dek", v>>, NewSlot(v, s, g),
                            [NewSlot(w, t, h) EXCEPT !.ciphertext = NewSlot(v, s, g).ciphertext])
    /\ Sealing!RewrapKeeps(NewVault(right, v).metadata, Rewrapped(p, q, v), p, q, NewSlot(w, t, h))

(* The cases the theorems speak of do occur. *)
ASSUME SealingOccurs ==
  /\ NewVault(right, v1) # empty /\ NewVault(large, v1) = empty
  /\ Rewrapped(right, other, v1) # empty
  /\ Rewrapped(other, right, v1) = empty /\ Rewrapped(right, large, v1) = empty
  /\ Sealing!UnlockVault(other, Rewrapped(right, other, v1), NewSlot(v1, "B", 1)) # empty
=============================================================================
