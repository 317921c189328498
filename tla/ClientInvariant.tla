---------------------------- MODULE ClientInvariant ----------------------------
(***************************************************************************)
(* Why the client of VaultClient keeps the vault of a patient user: the      *)
(* invariant behind its safety properties, in parts.  At most one operation  *)
(* can still write, and what each of the others says of the storage speaks   *)
(* of all that the calls under way may make of it.                           *)
(***************************************************************************)
EXTENDS VaultClient

From(plan, n) == SubSeq(plan, n, Len(plan))

OwnSession(t) == sessions[tasks[t].session]

(* An operation of a session that was locked under it writes nothing any more. *)
Live(t) == /\ tasks[t] # None
           /\ tasks[t].kind \in {"save", "password"} => Unlocked(OwnSession(t))

OneLive == \A t, u \in TaskIds : Live(t) /\ Live(u) => t = u

(* What is read for it stands behind every write called before. *)
ReadsLast == \A t \in TaskIds, k \in Keys : Live(t) => reads[t][k] \in {None, Len(writes[k])}

(* The steps of a save and of a password change, the ones left behind included *)
ReadsBack == \A t \in Running({"save", "password"}) :
               /\ tasks[t].plan # <<>>
               /\ \A j \in DOMAIN tasks[t].plan :
                    tasks[t].plan[j].op = "set" => /\ j < Len(tasks[t].plan)
                                                   /\ tasks[t].plan[j + 1].op = "get"

-----------------------------------------------------------------------------
(* Which operations meet which screen, and each other *)
Alone == \A t \in Running({"create", "destroy", "cleanup", "initialize"}), u \in TaskIds :
           tasks[u] # None => u = t

OnScreen == /\ screen = "vault" <=> current # None
            /\ screen = "onboarding" => ~owned
            /\ Running({"create"}) # {} => screen = "onboarding" /\ ending = "no"
            /\ Running({"unlock"}) # {} => screen = "locked"
            /\ Running({"initialize"}) # {} => screen = "loading"
            /\ Running({"save", "password", "destroy", "cleanup"}) # {} => screen \in {"vault", "locked"}
            /\ Running({"destroy", "cleanup"}) # {} => ending = "asked" /\ ~owned

SessionsApart ==
  /\ \A i \in SessionIds : Unlocked(sessions[i]) => i = current \/ ComingUp(i)
  /\ \A t \in Running({"create", "unlock", "save", "password"}) : tasks[t].session \in SessionIds
  /\ \A t \in Running({"create", "unlock"}), u \in TaskIds :
       tasks[u] # None /\ u # t => tasks[u].session # tasks[t].session
  /\ Running({"destroy", "cleanup"}) # {} => \A i \in SessionIds : ~Unlocked(sessions[i])

(* Nothing is pending that no operation would end. *)
PendingIsTask ==
  \A i \in SessionIds :
    /\ sessions[i].pending # None => \E t \in Running({"save"}) : tasks[t].session = i
    /\ sessions[i].change # None => \E t \in Running({"password"}) : tasks[t].session = i

-----------------------------------------------------------------------------
(* What the keys may hold *)
InPlace(slot, generation) == slot = "slot_a" <=> generation % 2 = 0

SlotsInv ==
  \A slot \in Slots :
    /\ \A a \in Might(slot) : a # None => InPlace(slot, a.generation) /\ a.key <= ops
    /\ media[slot] # None => Fits(media[slot])

(* The slot holds the vault with all that was acknowledged; the other slot, if newer, too. *)
VaultAt(slot) ==
  \A a \in Might(slot), m \in Might("meta") :
    /\ a # None /\ Fits(a) /\ acked \subseteq a.content
    /\ m # None /\ m.key = a.key /\ m.password \in passwords
    /\ \A b \in Might(Other(slot)) :
         b # None /\ b.key = a.key =>
           \/ b.generation < a.generation
           \/ b.generation = a.generation + 1 /\ acked \subseteq b.content

OwnedInv == IF owned THEN \E slot \in Slots : VaultAt(slot) ELSE acked = {}

(* No vault is there, or one cut off while it was created. *)
UnownedInv ==
  ~owned /\ (ending = "no" \/ screen = "onboarding") =>
    \A a \in Might("slot_a"), m \in Might("meta") :
      m # None => a # None /\ a.key = m.key /\ Fits(a)

ReportedInv ==
  ending = "reported" =>
    /\ ~owned /\ screen \in {"onboarding", "loading", "unsupported"}
    /\ \A t \in TaskIds : tasks[t] # None => tasks[t].kind = "initialize"
    /\ \A k \in Keys : \A v \in Might(k) : v = None

-----------------------------------------------------------------------------
(* What a session says of the storage *)
VersionStored(s) ==
  /\ s.metadata # None /\ s.metadata.key = s.vault.key
  /\ \A a \in Might(s.vault.slot) :
       a # None /\ a.key = s.vault.key /\ a.generation = s.vault.generation

ContentStored(s) ==
  /\ \A a, o \in Might(s.vault.slot) : a = o /\ a.content = s.vault.content
  /\ \A b \in Might(Other(s.vault.slot)) :
       b # None /\ b.key = s.vault.key => b.generation < s.vault.generation

MetadataStored(s) == \A m \in Might("meta") : m = s.metadata

PointerStored(s) ==
  \A p \in Might("pointer") : p = [slot |-> s.vault.slot, generation |-> s.vault.generation]

CurrentInv ==
  current # None /\ Unlocked(sessions[current]) =>
    LET s == sessions[current] IN
    /\ owned /\ VaultAt(s.vault.slot) /\ acked \subseteq s.vault.content
    /\ VersionStored(s)
    /\ s.pending = None => ContentStored(s) /\ PointerStored(s)
    /\ s.change = None => MetadataStored(s)

-----------------------------------------------------------------------------
(* How far each operation has come *)
CreateChecks(t) ==
  /\ tasks[t].plan = <<GetStep("meta")>> /\ OwnSession(t) = NoSession
  /\ \A slot \in Slots : \A a \in Might(slot) : a # None => a.key < ops

FirstSlot(key) == [key |-> key, generation |-> 0, content |-> {}, nonce |-> key]

CreateStores(t) ==
  LET s == OwnSession(t)
      sealed == FirstSlot(s.vault.key)
  IN /\ Unlocked(s) /\ s.metadata # None /\ s = Session("slot_a", sealed, s.metadata)
     /\ s.metadata.key = s.vault.key
     /\ \A b \in Might("slot_b") : b # None => b.key # s.vault.key
     /\ \E n \in 1..3 :
          /\ tasks[t].plan = From(CreatePlan(sealed, s.metadata), n)
          /\ n = 1 => \A m \in Might("meta") : m = None
          /\ n > 1 => \A a \in Might("slot_a") : a = sealed
          /\ n = 2 => \A m \in Might("meta") : m \in {None, s.metadata}
          /\ n = 3 => MetadataStored(s)

UnlockReads(t) ==
  /\ tasks[t].plan = <<>> /\ OwnSession(t) = NoSession
  /\ \A k \in VaultKeys : reads[t][k] = None => \A v \in Might(k) : v = tasks[t].got[k]

UnlockRepairs(t) ==
  LET s == OwnSession(t) IN
  /\ Mutable(s) /\ VersionStored(s) /\ ContentStored(s) /\ MetadataStored(s)
  /\ tasks[t].plan = <<SetStep("pointer", [slot |-> s.vault.slot, generation |-> s.vault.generation])>>

SaveInv(t) ==
  LET s == OwnSession(t)
      slot == s.pending.slot
      sealed == s.pending.sealed
  IN /\ s.pending # None /\ s.change = None
     /\ IsNextSlot(s, slot, sealed)
     /\ \E n \in 1..4 :
          /\ tasks[t].plan = From(SavePlan(slot, sealed), n)
          /\ s.pending.verified = (n > 2)
          /\ n > 1 => \A b \in Might(slot) : b = sealed
          /\ n = 4 => \A p \in Might("pointer") : p = PointerTo(slot, sealed)

ChangeInv(t) ==
  LET s == OwnSession(t) IN
  /\ s.change # None /\ s.pending = None /\ s.change.key = s.vault.key
  /\ \E n \in 1..2 :
       /\ tasks[t].plan = From(ChangePlan(s.change), n)
       /\ n = 2 => \A m \in Might("meta") : m = s.change

DestroyInv(t) ==
  \E n \in 1..6 :
    /\ tasks[t].plan = From(DestroyPlan, n)
    /\ \A j \in 1..(n - 1) : \A v \in Might(DestroyPlan[j].key) : v = None

Progress(t) ==
  /\ tasks[t].kind = "create" => CreateChecks(t) \/ CreateStores(t)
  /\ tasks[t].kind = "unlock" => UnlockReads(t) \/ UnlockRepairs(t)
  /\ tasks[t].kind = "save" => SaveInv(t)
  /\ tasks[t].kind = "password" => ChangeInv(t)
  /\ tasks[t].kind = "destroy" => DestroyInv(t)
  /\ tasks[t].kind = "cleanup" => tasks[t].plan = From(DestroyPlan, 6)
  /\ tasks[t].kind = "initialize" => tasks[t].plan \in {<<>>, <<GetStep("meta")>>}

ProgressInv == \A t \in TaskIds : Live(t) => Progress(t)

-----------------------------------------------------------------------------
ClientInv == /\ TypeOK
             /\ OneLive /\ ReadsLast /\ ReadsBack /\ Alone /\ OnScreen
             /\ SessionsApart /\ PendingIsTask
             /\ SlotsInv /\ OwnedInv /\ UnownedInv /\ ReportedInv
             /\ CurrentInv /\ ProgressInv

=============================================================================
