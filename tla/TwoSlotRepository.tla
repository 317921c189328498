--------------------------- MODULE TwoSlotRepository ---------------------------
(***************************************************************************)
(* The repository of crates/vault-core/src/storage.rs: an encrypted vault   *)
(* kept under four keys of a device storage that may refuse, lose or tear a *)
(* write, fail a read, lose a stored value, or stop the program between any *)
(* two calls.                                                               *)
(*                                                                          *)
(* The storage is untrusted, the repository runs one operation at a time    *)
(* (every method takes &mut self).  An operation is a sequence of storage   *)
(* calls: each one that changes the storage, and each read that decides     *)
(* what happens next, is a step of its own, so that a crash may fall        *)
(* between them.                                                            *)
(***************************************************************************)
EXTENDS VaultFormat

CONSTANTS
  FaultyReads,   \* the keys whose get may fail
  FaultyWrites,  \* whether set and remove may fail or misbehave
  Damageable     \* the keys whose stored value the medium may lose or spoil

Sessions == SlotRecords

Creators == [kind : {"initialize"}, key : {"A", "meta", "active"}, verify : BOOLEAN,
             cand : SlotRecords, password : Passwords]
Writers == [kind : {"open", "save"}, key : {"A", "B", "active"}, verify : BOOLEAN,
            cand : SlotRecords]
Clearers == [kind : {"clear"}, key : Keys, verify : BOOLEAN]

Results == {"none", "ok", "ReadFailed", "WriteFailed", "RemoveFailed",
            "SlotVerificationFailed", "AlreadyInitialized", "Uninitialized",
            "SerializationFailed", "WrongPasswordOrCorruptedVault",
            "GenerationOverflow", "VaultTooLarge"}

ASSUME NoneAssumption ==
  /\ None \notin SlotRecords \cup MetaRecords \cup PointerRecords
               \cup Creators \cup Writers \cup Clearers \cup Keys
  /\ Garbage \notin SlotRecords \cup MetaRecords \cup PointerRecords
  /\ None # Garbage
ASSUME FaultAssumption == /\ FaultyReads \subseteq Keys
                          /\ Damageable \subseteq Keys
                          /\ FaultyWrites \in BOOLEAN

VARIABLES
  store,     \* the device storage, one value per key
  session,   \* the UnlockedVault: its container and persisted slot, or None
  op,        \* the operation that is running, or None
  result,    \* what the last operation returned
  observed,  \* ghost: the slot record the client was last told is the vault
  damaged    \* ghost: keys the medium damaged and no write has replaced since

vars == <<store, session, op, result, observed, damaged>>

-----------------------------------------------------------------------------
\* The slot that open returns from the storage as it is, when every read works.
Current(c) == /\ store["meta"] \in MetaRecords
              /\ Selected(c, Candidates(store, store["meta"]), store["active"])

\* A vaultId fresh from the random generator occurs nowhere.
Fresh(v) == /\ \A k \in SlotIds \cup {"meta"} : store[k] \notin {None, Garbage} => store[k].vault # v
            /\ observed # None => observed.vault # v

-----------------------------------------------------------------------------
(* Running an operation *)

Idle == op = None

\* The value the running operation puts under its current key.
Encoded == CASE op.key = "meta" -> [vault |-> op.cand.vault, password |-> op.password]
             [] op.key = "active" -> PointerTo(op.cand)
             [] OTHER -> op.cand

\* The order of the keys of each operation; None after the last one.
Following == CASE op.key = "meta" /\ op.kind = "clear" -> "A"
               [] op.key = "meta" /\ op.kind # "clear" -> "active"
               [] op.key = "A" /\ op.kind = "clear" -> "B"
               [] op.key = "A" /\ op.kind = "initialize" -> "meta"
               [] op.key = "A" /\ op.kind = "save" -> "active"
               [] op.key = "B" -> "active"
               [] OTHER -> None

Return(code) == /\ op' = None
                /\ result' = code

Begin(o) == /\ op' = o
            /\ result' = "none"

-----------------------------------------------------------------------------
Init == /\ store = [k \in Keys |-> None]
        /\ session = None
        /\ op = None
        /\ result = "none"
        /\ observed = None
        /\ damaged = {}

\* What create_vault makes for vault v: an empty container at generation 0, bound
\* for slot A, and the data key wrapped by password p.
Created(v, p) ==
  [kind |-> "initialize", key |-> "A", verify |-> FALSE, password |-> p,
   cand |-> [vault |-> v, slot |-> "A", gen |-> 0, content |-> EmptyContent]]

(* create_vault followed by TwoSlotRepository::initialize.  Metadata that is
   already there stops it; metadata that is gone takes the old vault with it,
   so nothing observed before counts any longer. *)
Initialize(v, p) ==
  /\ Idle /\ session = None /\ Fresh(v)
  /\ \/ /\ "meta" \in FaultyReads
        /\ Return("ReadFailed")
        /\ UNCHANGED observed
     \/ /\ store["meta"] # None
        /\ Return("AlreadyInitialized")
        /\ UNCHANGED observed
     \/ /\ store["meta"] = None
        /\ Begin(Created(v, p))
        /\ observed' = None
  /\ UNCHANGED <<store, session, damaged>>

(* TwoSlotRepository::open.  The four reads change nothing, so they are one
   step; unread is the set of reads that fail.  An unreadable pointer is no
   pointer and an unreadable slot is no candidate.  A pointer that does not
   name the selected slot is rewritten before open returns. *)
Open(p, unread) ==
  LET seen == [k \in Keys |-> IF k \in unread THEN Garbage ELSE store[k]]
      meta == store["meta"]
  IN
  /\ Idle /\ session = None
  /\ \/ /\ "meta" \in unread
        /\ Return("ReadFailed")
        /\ UNCHANGED <<session, observed>>
     \/ /\ "meta" \notin unread
        /\ meta = None
        /\ Return("Uninitialized")
        /\ UNCHANGED <<session, observed>>
     \/ /\ "meta" \notin unread
        /\ meta = Garbage
        /\ Return("SerializationFailed")
        /\ UNCHANGED <<session, observed>>
     \/ /\ "meta" \notin unread
        /\ meta \in MetaRecords
        /\ Candidates(seen, meta) = {} \/ ~Unwraps(p, meta)
        /\ Return("WrongPasswordOrCorruptedVault")
        /\ UNCHANGED <<session, observed>>
     \/ /\ "meta" \notin unread
        /\ meta \in MetaRecords
        /\ Unwraps(p, meta)
        /\ \E c \in Candidates(seen, meta) :
             /\ Selected(c, Candidates(seen, meta), seen["active"])
             /\ IF seen["active"] = PointerTo(c)
                THEN /\ Return("ok")
                     /\ session' = c
                     /\ observed' = c
                ELSE /\ Begin([kind |-> "open", key |-> "active", verify |-> FALSE,
                               cand |-> c])
                     /\ UNCHANGED <<session, observed>>
  /\ UNCHANGED <<store, damaged>>

\* Mutant: the generation is not checked against its last value.
SaveUnchecked ==
  /\ Idle /\ session # None
  /\ Begin([kind |-> "save", key |-> Other(session.slot), verify |-> FALSE,
            cand |-> NextSlot(session)])
  /\ UNCHANGED <<store, session, observed, damaged>>

(* TwoSlotRepository::save, up to its first write. *)
Save ==
  /\ Idle /\ session # None
  /\ IF session.gen = MaxGen
     THEN Return("GenerationOverflow")
     ELSE Begin([kind |-> "save", key |-> Other(session.slot), verify |-> FALSE,
                 cand |-> NextSlot(session)])
  /\ UNCHANGED <<store, session, observed, damaged>>

(* write_json_verified, first half: refuse a value that is too large, then set.
   Unless the storage is faulty the set is accepted and takes effect; a faulty
   one may report either outcome of a write that landed, did not land, or left
   a value that is neither the old nor the new one. *)
WriteTooLarge ==
  /\ ~Idle /\ op.kind # "clear" /\ ~op.verify
  /\ op.key \in SlotIds /\ op.cand.content \in Oversized
  /\ Return("VaultTooLarge")
  /\ UNCHANGED <<store, session, observed, damaged>>

Write(accepted, landed) ==
  /\ ~Idle /\ op.kind # "clear" /\ ~op.verify
  /\ op.key \in SlotIds => op.cand.content \notin Oversized
  /\ FaultyWrites \/ (accepted /\ landed = "all")
  /\ store' = [store EXCEPT ![op.key] = CASE landed = "all" -> Encoded
                                          [] landed = "nothing" -> @
                                          [] landed = "part" -> Garbage]
  /\ damaged' = IF landed = "all" THEN damaged \ {op.key} ELSE damaged
  /\ IF accepted THEN /\ op' = [op EXCEPT !.verify = TRUE]
                      /\ UNCHANGED result
                 ELSE Return("WriteFailed")
  /\ UNCHANGED <<session, observed>>

(* write_json_verified, second half: read back and compare.  After its slot a
   save reads and validates once more (verify_next_slot) before it goes on to
   the pointer. *)
WriteNotVerified ==
  /\ ~Idle /\ op.kind # "clear" /\ op.verify
  /\ \/ /\ op.key \in FaultyReads
        /\ Return("ReadFailed")
     \/ /\ \/ store[op.key] # Encoded
           \/ op.kind = "save" /\ ~VerifyNextSlot(session, op.cand)
        /\ Return("SlotVerificationFailed")
  /\ UNCHANGED <<store, session, observed, damaged>>

\* Mutant: a write that was accepted is taken for stored.
WriteTrusted ==
  /\ ~Idle /\ op.kind # "clear" /\ op.verify
  /\ Following # None
  /\ op' = [op EXCEPT !.key = Following, !.verify = FALSE]
  /\ UNCHANGED <<store, session, result, observed, damaged>>

WriteVerified ==
  /\ ~Idle /\ op.kind # "clear" /\ op.verify
  /\ store[op.key] = Encoded
  /\ op.kind = "save" => VerifyNextSlot(session, op.cand)
  /\ Following # None
  /\ op' = [op EXCEPT !.key = Following, !.verify = FALSE]
  /\ UNCHANGED <<store, session, result, observed, damaged>>

\* Mutant: a save forgets to mark its slot as committed in the session.
CommitForgetsSession ==
  /\ ~Idle /\ op.kind # "clear" /\ op.verify
  /\ store[op.key] = Encoded
  /\ Following = None
  /\ session' = IF op.kind = "save" THEN session ELSE op.cand
  /\ observed' = op.cand
  /\ Return("ok")
  /\ UNCHANGED <<store, damaged>>

(* The last verified write: initialize and open hand out the session, save
   marks the slot as committed in it (commit_verified_slot). *)
Commit ==
  /\ ~Idle /\ op.kind # "clear" /\ op.verify
  /\ store[op.key] = Encoded
  /\ op.kind = "save" => VerifyNextSlot(session, op.cand)
  /\ Following = None
  /\ session' = op.cand
  /\ observed' = op.cand
  /\ Return("ok")
  /\ UNCHANGED <<store, damaged>>

\* Mutant: the metadata is left out of the removal.
ClearSlotsOnly ==
  /\ Idle
  /\ Begin([kind |-> "clear", key |-> "A", verify |-> FALSE])
  /\ session' = None
  /\ UNCHANGED <<store, observed, damaged>>

(* TwoSlotRepository::clear_device_storage.  Its caller gives the session up
   first (vault-persistence.js locks it). *)
Clear ==
  /\ Idle
  /\ Begin([kind |-> "clear", key |-> "meta", verify |-> FALSE])
  /\ session' = None
  /\ UNCHANGED <<store, observed, damaged>>

Remove(accepted, landed) ==
  /\ ~Idle /\ op.kind = "clear" /\ ~op.verify
  /\ FaultyWrites \/ (accepted /\ landed)
  /\ store' = IF landed THEN [store EXCEPT ![op.key] = None] ELSE store
  /\ observed' = IF landed THEN None ELSE observed
  /\ IF accepted THEN /\ op' = [op EXCEPT !.verify = TRUE]
                      /\ UNCHANGED result
                 ELSE Return("RemoveFailed")
  /\ UNCHANGED <<session, damaged>>

RemoveNotVerified ==
  /\ ~Idle /\ op.kind = "clear" /\ op.verify
  /\ \/ /\ op.key \in FaultyReads
        /\ Return("ReadFailed")
     \/ /\ store[op.key] # None
        /\ Return("SlotVerificationFailed")
  /\ UNCHANGED <<store, session, observed, damaged>>

\* Mutant: a removal that was accepted is taken for done.
RemoveTrusted ==
  /\ ~Idle /\ op.kind = "clear" /\ op.verify
  /\ IF Following = None
     THEN Return("ok")
     ELSE /\ op' = [op EXCEPT !.key = Following, !.verify = FALSE]
          /\ UNCHANGED result
  /\ UNCHANGED <<store, session, observed, damaged>>

RemoveVerified ==
  /\ ~Idle /\ op.kind = "clear" /\ op.verify
  /\ store[op.key] = None
  /\ IF Following = None
     THEN Return("ok")
     ELSE /\ op' = [op EXCEPT !.key = Following, !.verify = FALSE]
          /\ UNCHANGED result
  /\ UNCHANGED <<store, session, observed, damaged>>

\* Mutant: the container changes while it is being saved.
EditAnytime(c) ==
  /\ session # None
  /\ session' = [session EXCEPT !.content = c]
  /\ UNCHANGED <<store, op, result, observed, damaged>>

(* add_entry, update_entry and delete_entry: the container in memory changes. *)
Edit(c) ==
  /\ Idle /\ session # None
  /\ session' = [session EXCEPT !.content = c]
  /\ UNCHANGED <<store, op, result, observed, damaged>>

(* Dropping the UnlockedVault. *)
Lock ==
  /\ Idle /\ session # None
  /\ session' = None
  /\ UNCHANGED <<store, op, result, observed, damaged>>

(* The program stops; what the storage holds stays. *)
Crash ==
  /\ op # None \/ session # None
  /\ op' = None
  /\ session' = None
  /\ result' = "none"
  /\ UNCHANGED <<store, observed, damaged>>

(* The medium loses or spoils a stored value. *)
Damage(k, spoilt) ==
  /\ k \in Damageable /\ store[k] # None
  /\ store' = [store EXCEPT ![k] = spoilt]
  /\ damaged' = damaged \cup {k}
  /\ UNCHANGED <<session, op, result, observed>>

Finish == \/ WriteTooLarge
          \/ \E accepted \in BOOLEAN, landed \in {"all", "nothing", "part"} : Write(accepted, landed)
          \/ WriteNotVerified
          \/ WriteVerified
          \/ Commit
          \/ \E accepted, landed \in BOOLEAN : Remove(accepted, landed)
          \/ RemoveNotVerified
          \/ RemoveVerified

Next == \/ \E v \in Vaults, p \in Passwords : Initialize(v, p)
        \/ \E p \in Passwords, unread \in SUBSET FaultyReads : Open(p, unread)
        \/ Save
        \/ Finish
        \/ Clear
        \/ \E c \in Contents : Edit(c)
        \/ Lock
        \/ Crash
        \/ \E k \in Keys, spoilt \in {None, Garbage} : Damage(k, spoilt)

Spec == Init /\ [][Next]_vars

-----------------------------------------------------------------------------
TypeOK ==
  /\ store \in [Keys -> SlotRecords \cup MetaRecords \cup PointerRecords \cup {None, Garbage}]
  /\ \A s \in SlotIds : store[s] \in SlotRecords \cup {None, Garbage}
  /\ store["meta"] \in MetaRecords \cup {None, Garbage}
  /\ store["active"] \in PointerRecords \cup {None, Garbage}
  /\ session \in Sessions \cup {None}
  /\ op \in Creators \cup Writers \cup Clearers \cup {None}
  /\ result \in Results
  /\ observed \in SlotRecords \cup {None}
  /\ damaged \subseteq Keys

(* A stored slot record lies under the key of its slot id, in the slot its
   generation belongs to: a vault's even generations live in A, the odd ones in
   B.  Hence two slots of one vault never tie, whatever saves were cut short,
   retried or recovered. *)
SlotDiscipline ==
  \A s \in SlotIds : store[s] \in SlotRecords =>
    /\ store[s].slot = s
    /\ s = SlotOf(store[s].gen)

(* The two slots of one vault hold neighbouring generations: losing the newest
   slot costs one generation and never more (corrupt_active_slot_falls_back). *)
NeighbouringGenerations ==
  /\ store["A"] \in SlotRecords /\ store["B"] \in SlotRecords
  /\ store["A"].vault = store["B"].vault
  => \/ store["A"].gen = store["B"].gen + 1
     \/ store["B"].gen = store["A"].gen + 1

(* What the client was last told is its vault stays stored, bit for bit, until
   the next verified save or a clear: no failed, torn or interrupted operation,
   and no operation after a crash, overwrites it.  Only the medium can. *)
ObservedIntact ==
  observed # None /\ observed.slot \notin damaged => store[observed.slot] = observed

(* From any state, also in the middle of an operation, an open whose reads work
   returns what the client last observed or the one save it tried since. *)
ObservedIsRecoverable ==
  observed # None /\ damaged \cap {"meta", observed.slot} = {} =>
    \E c \in SlotRecords :
      /\ Current(c)
      /\ c.vault = observed.vault
      /\ c = observed \/ c.gen = observed.gen + 1

(* Metadata is published after the first slot and removed before it: while it
   is there and the medium is sound, some slot can be opened. *)
MetadataHasASlot ==
  store["meta"] \in MetaRecords /\ damaged = {} => Candidates(store, store["meta"]) # {}

(* open "unlocks the newest authenticated slot" (doc comment of open). *)
OpensNewest ==
  [][session = None /\ session' # None =>
       \A c \in Candidates(store', store'["meta"]) : c.gen <= session'.gen]_vars

(* The client sees one history: what it observes next is the same slot record,
   the next generation of the same vault, or nothing after a clear; it never
   goes back and never sees two contents of one generation. *)
ObservedAdvances ==
  [][observed # None /\ observed' # None /\ observed' # observed =>
       observed'.vault = observed.vault /\ observed'.gen = observed.gen + 1]_vars

(* A clear that returns Ok has removed every key, even if the storage claimed
   removals it did not make. *)
ClearedMeansEmpty ==
  [][op # None /\ op.kind = "clear" /\ op' = None /\ result' = "ok" =>
       \A k \in Keys : store'[k] = None]_vars

-----------------------------------------------------------------------------
(* The inductive invariant behind these: what the storage, the session and
   the running operation have to do with each other between any two steps. *)

InSlot(c) == /\ c.slot = SlotOf(c.gen)
             /\ c.content \notin Oversized

\* Under key k lies value x, unless the medium has damaged it.
Holds(k, x) == k \in damaged \/ store[k] = x

MetaOf(v) == "meta" \in damaged \/ (store["meta"] \in MetaRecords /\ store["meta"].vault = v)

DamagedInv == \A k \in damaged : store[k] \in {None, Garbage}

SlotsInv == \A s \in SlotIds : store[s] \in SlotRecords => store[s].slot = s /\ InSlot(store[s])

SessionInv == session # None =>
  /\ observed # None
  /\ session.vault = observed.vault /\ session.slot = observed.slot /\ session.gen = observed.gen

ObservedInv == observed # None =>
  /\ InSlot(observed)
  /\ MetaOf(observed.vault)
  /\ Holds(observed.slot, observed)

InitializeInv == op # None /\ op.kind = "initialize" =>
  /\ session = None /\ observed = None
  /\ op.cand.gen = 0 /\ op.cand.slot = "A" /\ InSlot(op.cand)
  /\ store["B"] \in SlotRecords => store["B"].vault # op.cand.vault
  /\ op.key = "A" => store["meta"] = None
  /\ op.key # "A" => Holds("A", op.cand)
  /\ store["meta"] \in MetaRecords => store["meta"].vault = op.cand.vault
  /\ op.key = "active" => MetaOf(op.cand.vault)

OpenInv == op # None /\ op.kind = "open" =>
  /\ session = None
  /\ op.key = "active" /\ InSlot(op.cand)
  /\ Holds(op.cand.slot, op.cand)
  /\ MetaOf(op.cand.vault)

SaveInv == op # None /\ op.kind = "save" =>
  /\ session # None /\ session.gen < MaxGen
  /\ op.cand = NextSlot(session)
  /\ op.key \in {op.cand.slot, "active"}
  /\ op.key = "active" => InSlot(op.cand) /\ Holds(op.cand.slot, op.cand)

ClearInv == op # None /\ op.kind = "clear" =>
  /\ session = None
  /\ op.key # "meta" => store["meta"] = None

InductiveInv ==
  /\ TypeOK
  /\ DamagedInv /\ SlotsInv /\ NeighbouringGenerations
  /\ SessionInv /\ ObservedInv /\ MetadataHasASlot
  /\ InitializeInv /\ OpenInv /\ SaveInv /\ ClearInv

=============================================================================
