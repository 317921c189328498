------------------------------- MODULE VaultClient -------------------------------
(***************************************************************************)
(* The client of the vault: the operations of web/src/vault-persistence.js   *)
(* and web/src/app-controller.js over sessions of the bridge and the host's  *)
(* callback storage.  An operation runs from await to await and others run   *)
(* in between: the user submits another form, the session is locked by the   *)
(* user or its timer, the page is reloaded.                                 *)
(*                                                                          *)
(* The host performs the native calls on a key in their order, late or, a    *)
(* write, never; an operation of the adapter fails at any time, whatever     *)
(* becomes of the calls it made.                                            *)
(***************************************************************************)
EXTENDS BridgeSession, FiniteSets, SequencesExt

CONSTANTS
  TaskIds,     \* operations under way at once
  SessionIds,  \* sessions alive at once
  MaxOps,      \* how many operations the user asks for
  Kinds,       \* which ones
  Patient      \* the user does not ask for a session, or for the end of the vault,
               \* while another operation of that sort is under way

ASSUME PoolAssumption == /\ TaskIds # {} /\ SessionIds # {} /\ MaxOps \in Nat
                         /\ None \notin TaskIds \cup SessionIds
                         /\ Patient \in BOOLEAN
                         /\ Kinds \subseteq {"create", "unlock", "save", "password",
                                          "destroy", "reload"}

VaultKeys == Slots \cup {"meta", "pointer"}

\* What an earlier version of the program left: MANUAL_LOCK_KEY and, in the secure
\* storage, MASTER_PASSWORD_CACHE_KEY
LegacyKeys == {"manual_lock", "password_cache"}

Keys == VaultKeys \cup LegacyKeys

Names == 0..MaxOps

(* The values under a key; the sessions; the steps of an operation *)
SealedSlots == [key : Names, generation : Nat, content : SUBSET Names, nonce : Names]
Metadata == [key : Names, password : Names, nonce : Names]
Pointers == [slot : Slots, generation : Nat]
LegacyValues == [legacy : {TRUE}]

Storable(k) == {None} \cup IF k \in Slots THEN SealedSlots
                           ELSE IF k = "meta" THEN Metadata
                           ELSE IF k = "pointer" THEN Pointers ELSE LegacyValues

Values == SealedSlots \cup Metadata \cup Pointers \cup LegacyValues \cup {None}

OpenVaults == [slot : Slots, key : Names, generation : Nat, content : SUBSET Names]
PendingSaves == [slot : Slots, sealed : SealedSlots, verified : BOOLEAN]
SessionRecords == [vault : OpenVaults \cup {None}, metadata : Metadata \cup {None},
                   pending : PendingSaves \cup {None}, change : Metadata \cup {None}]

Steps == [op : {"set", "get"}, key : Keys, value : Values]
Tasks == [kind : (Kinds \ {"reload"}) \cup {"initialize", "cleanup"}, session : SessionIds \cup {None},
          plan : Seq(Steps), got : [VaultKeys -> Values], form : BOOLEAN]

ASSUME NoneAssumption ==
  None \notin Nat \cup SealedSlots \cup Metadata \cup Pointers \cup LegacyValues \cup OpenVaults \cup PendingSaves
                \cup Tasks
ASSUME EmptyVaultFits == [generation |-> 0, content |-> {}] \notin Oversized

VARIABLES
  media,      \* what the host's medium holds
  writes,     \* native writes not performed yet, for each key
  reads,      \* for each read an operation waits for, how many of them are before it
  tasks,      \* the operations under way
  sessions,   \* every session of the bridge, referred to or not
  current,    \* the controller's session
  screen,
  ops,        \* operations asked for so far; names edits, passwords and keys
  owned,      \* the user has a vault: created or opened, and not being destroyed
  acked,      \* the edits the user was shown as saved
  passwords,  \* the passwords the user must reckon with
  ending      \* "asked" for the end of the vault, which was "reported", or "no"

storage == <<media, writes, reads>>
ui == <<current, screen>>
known == <<owned, acked, passwords, ending>>
vars == <<storage, tasks, sessions, ui, ops, known>>

-----------------------------------------------------------------------------
(* The awaits of an operation: setVerified and removeVerified call a mutation and
   a read, getExisting a read. *)
SetStep(k, v) == [op |-> "set", key |-> k, value |-> v]
GetStep(k) == [op |-> "get", key |-> k, value |-> None]

NoReads == [k \in Keys |-> None]

Calls(t, step) ==
  /\ writes' = IF step.op = "set"
               THEN [writes EXCEPT ![step.key] = Append(@, step.value)] ELSE writes
  /\ reads' = [reads EXCEPT ![t] = [NoReads EXCEPT ![step.key] = Len(writes'[step.key])]]

\* An operation that ended, or goes on without a call, waits for no answer.
CallsNothing(t) == reads' = [reads EXCEPT ![t] = NoReads] /\ UNCHANGED writes

Task(kind, session, plan) ==
  [kind |-> kind, session |-> session, plan |-> plan, got |-> [k \in VaultKeys |-> None], form |-> TRUE]

Running(kinds) == {t \in TaskIds : tasks[t] # None /\ tasks[t].kind \in kinds}

(* setState renders the screen anew, with fresh forms. *)
Rendered(ts) == [t \in TaskIds |-> IF ts[t] = None THEN None ELSE [ts[t] EXCEPT !.form = FALSE]]

Without(t) == [tasks EXCEPT ![t] = None]

SessionLocked(ss, i) == IF i = None THEN ss ELSE [ss EXCEPT ![i] = Locked(@)]

(* controller.lock: it ends whatever session is the current one. *)
LockCurrent(ss, ts) ==
  /\ sessions' = SessionLocked(ss, current)
  /\ tasks' = Rendered(ts)
  /\ current' = None /\ screen' = "locked"

(* activateSession *)
ActivateSession(t, ss) ==
  LET s == ss[tasks[t].session] IN
  /\ sessions' = ss
  /\ tasks' = Rendered(Without(t))
  /\ current' = tasks[t].session /\ screen' = "vault"
  /\ owned' = TRUE /\ acked' = acked \cup s.vault.content
  /\ passwords' = {s.metadata.password}

-----------------------------------------------------------------------------
(* A vault as its creation left it, which ended before or after the pointer *)
StoredVault(pointer, lock, cache) ==
  [slot_a |-> [key |-> 0, generation |-> 0, content |-> {}, nonce |-> 0], slot_b |-> None,
   meta |-> [key |-> 0, password |-> 0, nonce |-> 0], pointer |-> pointer,
   manual_lock |-> lock, password_cache |-> cache]

Leftover == [legacy |-> TRUE]

Init ==
  /\ writes = [k \in Keys |-> <<>>] /\ reads = [t \in TaskIds |-> NoReads]
  /\ \/ media = [k \in Keys |-> None] /\ screen = "onboarding"
     \/ /\ \/ media = StoredVault(None, Leftover, None)
           \/ media = StoredVault([slot |-> "slot_a", generation |-> 0], None, Leftover)
        /\ screen = "locked"
  /\ owned = (screen = "locked")
  /\ tasks = [t \in TaskIds |-> None] /\ sessions = [i \in SessionIds |-> NoSession]
  /\ current = None /\ ops = 0 /\ acked = {} /\ passwords = {0} /\ ending = "no"

(* What the host's medium holds after a write, if it takes it: no slot is larger
   than DEVICE_STORAGE_LIMIT_BYTES. *)
Taken(k, v) == IF k \in Slots /\ v # None /\ ~Fits(v) THEN media ELSE [media EXCEPT ![k] = v]

(* The host performs the next write on a key, or drops it. *)
HostWrites(k) ==
  /\ writes[k] # <<>> /\ \A t \in TaskIds : reads[t][k] # 0
  /\ media' \in {media, Taken(k, Head(writes[k]))}
  /\ writes' = [writes EXCEPT ![k] = Tail(@)]
  /\ reads' = [t \in TaskIds |->
                 [reads[t] EXCEPT ![k] = IF @ = None THEN None ELSE @ - 1]]
  /\ UNCHANGED <<tasks, sessions, ui, ops, known>>

-----------------------------------------------------------------------------
(* What the user asks for. *)
FreeSessions == {i \in SessionIds : /\ ~Unlocked(sessions[i]) /\ i # current
                                    /\ \A t \in TaskIds : tasks[t] # None => tasks[t].session # i}

Begin(t, task) ==
  /\ tasks[t] = None /\ ops < MaxOps /\ task.kind \in Kinds
  /\ ops' = ops + 1
  /\ tasks' = [tasks EXCEPT ![t] = task]
  /\ Calls(t, Head(task.plan))

\* The form is not busy; a patient user waits for anything that opens or ends a vault.
Submits(kind) ==
  /\ \A t \in Running({kind}) : ~tasks[t].form
  /\ Patient => Running({"create", "unlock", "destroy", "cleanup"}) = {}

(* createSession, up to its first await *)
Create(t) ==
  /\ screen = "onboarding" /\ Submits("create")
  /\ \E i \in FreeSessions : Begin(t, Task("create", i, <<GetStep("meta")>>))
  /\ ending' = "no"
  /\ UNCHANGED <<media, sessions, ui, owned, acked, passwords>>

(* openSession: loadSnapshot calls its four reads at once. *)
Unlock(t) ==
  /\ screen = "locked" /\ Submits("unlock")
  /\ tasks[t] = None /\ ops < MaxOps /\ "unlock" \in Kinds
  /\ ops' = ops + 1
  /\ \E i \in FreeSessions : tasks' = [tasks EXCEPT ![t] = Task("unlock", i, <<>>)]
  /\ reads' = [reads EXCEPT ![t] = [k \in Keys |-> IF k \in VaultKeys THEN Len(writes[k]) ELSE None]]
  /\ UNCHANGED <<media, writes, sessions, ui, known>>

InVault == screen = "vault" /\ current # None /\ Unlocked(sessions[current])

(* saveSession's calls: the slot, then the pointer, each written and read *)
SavePlan(slot, sealed) ==
  <<SetStep(slot, sealed), GetStep(slot),
    SetStep("pointer", PointerTo(slot, sealed)), GetStep("pointer")>>

(* saveEntry, deleteSelected: the edit, prepare_save and the first write *)
Save(t) ==
  /\ InVault
  /\ LET edited == sessions[current].vault.content \cup {ops + 1}
         s == WithPreparedSave(WithContent(sessions[current], edited), ops + 1)
     IN /\ Mutable(sessions[current])
        /\ sessions' = [sessions EXCEPT ![current] = s]
        /\ Begin(t, Task("save", current, SavePlan(s.pending.slot, s.pending.sealed)))
  /\ UNCHANGED <<media, ui, known>>

ChangePlan(metadata) == <<SetStep("meta", metadata), GetStep("meta")>>

(* changeMasterPassword with the right current password *)
ChangePassword(t) ==
  /\ InVault /\ Mutable(sessions[current])
  /\ LET s == WithPreparedPassword(sessions[current], ops + 1, ops + 1)
     IN /\ sessions' = [sessions EXCEPT ![current] = s]
        /\ Begin(t, Task("password", current, ChangePlan(s.change)))
  /\ passwords' = passwords \cup {ops + 1}
  /\ UNCHANGED <<media, ui, owned, acked, ending>>

(* Either of them while the session has something pending: save_pending, and the
   catch locks. *)
Refused ==
  /\ InVault /\ ~Mutable(sessions[current])
  /\ LockCurrent(sessions, tasks)
  /\ UNCHANGED <<storage, ops, known>>

\* Mutant: the list of keys misses one.
DestroyPlanOneSlot == <<SetStep("slot_a", None), SetStep("pointer", None), SetStep("meta", None),
                        SetStep("manual_lock", None), SetStep("password_cache", None)>>

(* VAULT_DEVICE_KEYS, and the key of the secure storage in the finally *)
DestroyPlan == <<SetStep("slot_a", None), SetStep("slot_b", None), SetStep("pointer", None),
                 SetStep("meta", None), SetStep("manual_lock", None),
                 SetStep("password_cache", None)>>

(* destroy, from the settings or the locked screen.  It asks for no session: the
   form of one that failed is still there, and can be submitted again. *)
Destroy(t) ==
  /\ screen \in {"vault", "locked"}
  /\ Submits("destroy") /\ Submits("cleanup")
  /\ Patient => Running({"save", "password"}) = {}
  /\ sessions' = SessionLocked(sessions, current)
  /\ Begin(t, Task("destroy", current, DestroyPlan))
  /\ owned' = FALSE /\ acked' = {} /\ ending' = "asked"
  /\ UNCHANGED <<media, ui, passwords>>

(* lock, by the user or the timer *)
Lock == /\ current # None
        /\ LockCurrent(sessions, tasks)
        /\ UNCHANGED <<storage, ops, known>>

(* The page is loaded anew: calls already made may still be performed.  What is
   left of an earlier version is removed, and it does not matter how that ends. *)
Reload ==
  /\ ops < MaxOps /\ "reload" \in Kinds
  /\ ops' = ops + 1
  /\ sessions' = [i \in SessionIds |-> NoSession]
  /\ current' = None /\ screen' = "loading"
  /\ \E t \in TaskIds :
       /\ tasks' = [[u \in TaskIds |-> None] EXCEPT ![t] = Task("initialize", None, <<>>)]
  /\ reads' = [t \in TaskIds |-> NoReads]
  /\ writes' = [k \in Keys |-> IF k \in LegacyKeys /\ media[k] # None
                               THEN Append(writes[k], None) ELSE writes[k]]
  /\ UNCHANGED <<media, known>>

-----------------------------------------------------------------------------
\* Mutant: a session that could not be stored is left open.
SessionFailsOpen(t) == UNCHANGED sessions /\ tasks' = Without(t) /\ UNCHANGED ui

(* The catch of createSession and openSession *)
SessionFails(t) == /\ sessions' = SessionLocked(sessions, tasks[t].session)
                   /\ tasks' = Without(t) /\ UNCHANGED ui

(* The finally of destroySession: whatever failed, the secure storage is cleared. *)
DestroyFails(t) ==
  LET rest == <<SetStep("password_cache", None)>>
  IN IF tasks[t].kind = "destroy" /\ tasks[t].plan # rest
     THEN /\ tasks' = [tasks EXCEPT ![t].kind = "cleanup", ![t].plan = rest]
          /\ Calls(t, Head(rest))
     ELSE tasks' = Without(t) /\ CallsNothing(t)

(* An operation fails: an error of the adapter, or what it read back.  A failed
   save or password change locks whatever session is the current one. *)
Fails(t) ==
  LET kind == tasks[t].kind
      own == tasks[t].session
  IN /\ kind \notin {"destroy", "cleanup"} => CallsNothing(t)
     /\ \/ kind \in {"create", "unlock"} /\ SessionFails(t)
        \/ /\ kind = "save"
           /\ LockCurrent([sessions EXCEPT ![own] = WithoutPendingSave(@)], Without(t))
        \/ /\ kind = "password"
           /\ LockCurrent([sessions EXCEPT ![own] = WithoutPasswordChange(@)], Without(t))
        \/ /\ kind \in {"destroy", "cleanup"}
           /\ DestroyFails(t) /\ UNCHANGED <<sessions, ui>>
        \/ /\ kind = "initialize" /\ screen' = "unsupported"
           /\ tasks' = Without(t) /\ UNCHANGED <<sessions, current>>
     /\ UNCHANGED <<media, ops, known>>

AdapterFails(t) == /\ tasks[t] # None
                   /\ tasks[t].kind = "initialize" => tasks[t].plan # <<>>
                   /\ Fails(t)

(* The answer to task t's read of key k has come. *)
Answer(t, k) == tasks[t] # None /\ reads[t][k] = 0

StepOf(t) == Head(tasks[t].plan)
AnswerTo(t, op) == /\ tasks[t] # None /\ tasks[t].plan # <<>> /\ StepOf(t).op = op
                   /\ Answer(t, StepOf(t).key)
Value(t) == media[StepOf(t).key]

(* mutateAndVerify reads again until the value is there. *)
ReadsAgain(t) ==
  /\ AnswerTo(t, "set") /\ Value(t) # StepOf(t).value
  /\ Calls(t, GetStep(StepOf(t).key))
  /\ UNCHANGED <<media, tasks, sessions, ui, ops, known>>

GoesOn(t, plan) ==
  /\ tasks' = [tasks EXCEPT ![t].plan = plan]
  /\ Calls(t, Head(plan))

\* Mutant: the host's word is taken for it.
SetDoneTrusting(t) ==
  /\ AnswerTo(t, "set") /\ Len(tasks[t].plan) > 1
  /\ GoesOn(t, Tail(tasks[t].plan))
  /\ UNCHANGED <<media, sessions, ui, ops, known>>

(* A write or removal of a longer series is confirmed. *)
SetDone(t) ==
  /\ AnswerTo(t, "set") /\ Value(t) = StepOf(t).value
  /\ Len(tasks[t].plan) > 1
  /\ GoesOn(t, Tail(tasks[t].plan))
  /\ UNCHANGED <<media, sessions, ui, ops, known>>

\* Mutant: the metadata is written before the slot it is to open.
CreatePlanMetaFirst(sealed, meta) ==
  <<SetStep("meta", meta), SetStep("slot_a", sealed),
    SetStep("pointer", PointerTo("slot_a", sealed))>>

(* persistCreated *)
CreatePlan(sealed, meta) ==
  <<SetStep("slot_a", sealed), SetStep("meta", meta),
    SetStep("pointer", PointerTo("slot_a", sealed))>>

(* createSession after its check; the vault is named by the operation. *)
CreateChecked(t) ==
  /\ AnswerTo(t, "get") /\ tasks[t].kind = "create"
  /\ LET sealed == [key |-> ops, generation |-> 0, content |-> {}, nonce |-> ops]
         meta == [key |-> ops, password |-> ops, nonce |-> ops]
     IN IF Value(t) = None
        THEN /\ sessions' = [sessions EXCEPT ![tasks[t].session] = Session("slot_a", sealed, meta)]
             /\ GoesOn(t, CreatePlan(sealed, meta))
             /\ UNCHANGED <<media, ui, ops, known>>
        ELSE Fails(t)

(* The last write of create, or the repair of the pointer in openSession. *)
SessionReady(t) ==
  /\ AnswerTo(t, "set") /\ Value(t) = StepOf(t).value
  /\ Len(tasks[t].plan) = 1 /\ tasks[t].kind \in {"create", "unlock"}
  /\ CallsNothing(t)
  /\ ActivateSession(t, sessions)
  /\ UNCHANGED <<media, ops, ending>>

\* Mutant: a pointer that was left behind is not repaired.
OpenedUnrepaired(t, got, slot) ==
  /\ ActivateSession(t, [sessions EXCEPT ![tasks[t].session] =
                            Session(slot, got[slot], got["meta"])])
  /\ CallsNothing(t) /\ UNCHANGED ending

(* The rest of openSession: the session is there once its pointer is. *)
Opened(t, got, slot) ==
  LET i == tasks[t].session
      ss == [sessions EXCEPT ![i] = Session(slot, got[slot], got["meta"])]
      pointer == PointerTo(slot, got[slot])
  IN IF got["pointer"] = pointer
     THEN ActivateSession(t, ss) /\ CallsNothing(t) /\ UNCHANGED ending
     ELSE /\ sessions' = ss
          /\ tasks' = [tasks EXCEPT ![t].plan = <<SetStep("pointer", pointer)>>]
          /\ Calls(t, SetStep("pointer", pointer))
          /\ UNCHANGED <<ui, known>>

(* A read of loadSnapshot is answered; after the fourth the snapshot is opened,
   with the right password. *)
SnapshotRead(t, k) ==
  /\ Answer(t, k) /\ tasks[t].kind = "unlock" /\ tasks[t].plan = <<>>
  /\ LET got == [tasks[t].got EXCEPT ![k] = media[k]]
         complete == \A j \in VaultKeys \ {k} : reads[t][j] = None
     IN \/ /\ ~complete
           /\ tasks' = [tasks EXCEPT ![t].got = got]
           /\ reads' = [reads EXCEPT ![t][k] = None]
           /\ UNCHANGED <<media, writes, sessions, ui, ops, known>>
        \/ /\ complete
           /\ got["meta"] = None \/ Selected(got) = {}
           /\ Fails(t)
        \/ /\ complete /\ got["meta"] # None
           /\ \E slot \in Selected(got) : Opened(t, got, slot)
           /\ UNCHANGED <<media, ops>>

(* saveSession between its two halves: the slot is verified and the pointer
   written without an await between. *)
SlotReadBack(t) ==
  /\ AnswerTo(t, "get") /\ tasks[t].kind = "save" /\ Len(tasks[t].plan) > 1
  /\ LET i == tasks[t].session IN
     IF SlotVerifies(sessions[i], Value(t))
     THEN /\ sessions' = [sessions EXCEPT ![i] = WithVerifiedSlot(@)]
          /\ GoesOn(t, Tail(tasks[t].plan))
          /\ UNCHANGED <<media, ui, ops, known>>
     ELSE Fails(t)

(* The end of saveSession and of saveEntry, which lists the entries of whatever
   session is the current one. *)
PointerReadBack(t) ==
  /\ AnswerTo(t, "get") /\ tasks[t].kind = "save" /\ Len(tasks[t].plan) = 1
  /\ LET i == tasks[t].session
         ss == [sessions EXCEPT ![i] = WithCommittedSave(@)]
     IN IF ~SaveCommits(sessions[i], Value(t)) THEN Fails(t)
        ELSE /\ CallsNothing(t)
             /\ IF current # None /\ Unlocked(ss[current])
                THEN /\ sessions' = ss /\ tasks' = Rendered(Without(t))
                     /\ screen' = "vault" /\ acked' = acked \cup ss[i].vault.content
                     /\ UNCHANGED current
                ELSE LockCurrent(ss, Without(t)) /\ UNCHANGED acked
             /\ UNCHANGED <<media, ops, owned, passwords, ending>>

(* The end of changeMasterPassword *)
MetadataReadBack(t) ==
  /\ AnswerTo(t, "get") /\ tasks[t].kind = "password"
  /\ LET i == tasks[t].session IN
     IF ~PasswordCommits(sessions[i], Value(t)) THEN Fails(t)
     ELSE /\ sessions' = [sessions EXCEPT ![i] = WithCommittedPassword(@)]
          /\ passwords' = {Value(t).password}
          /\ CallsNothing(t) /\ tasks' = Rendered(Without(t))
          /\ screen' = "vault"
          /\ UNCHANGED <<media, current, ops, owned, acked, ending>>

(* The end of destroy: the controller lets go of its session. *)
Destroyed(t) ==
  /\ AnswerTo(t, "set") /\ Value(t) = None
  /\ Len(tasks[t].plan) = 1 /\ tasks[t].kind = "destroy"
  /\ CallsNothing(t) /\ tasks' = Rendered(Without(t))
  /\ current' = None /\ screen' = "onboarding" /\ ending' = "reported"
  /\ UNCHANGED <<media, sessions, ops, owned, acked, passwords>>

(* The end of a destroy that failed *)
CleanedUp(t) ==
  /\ AnswerTo(t, "set") /\ Value(t) = None /\ tasks[t].kind = "cleanup"
  /\ CallsNothing(t) /\ tasks' = Without(t)
  /\ UNCHANGED <<media, sessions, ui, ops, known>>

(* The allSettled of clearLegacyAuthenticationState: both removals have ended. *)
LegacyCleared(t) ==
  /\ tasks[t] # None /\ tasks[t].kind = "initialize" /\ tasks[t].plan = <<>>
  /\ tasks' = [tasks EXCEPT ![t].plan = <<GetStep("meta")>>]
  /\ Calls(t, GetStep("meta"))
  /\ UNCHANGED <<media, sessions, ui, ops, known>>

(* inspectState at the start of the page *)
Inspected(t) ==
  /\ AnswerTo(t, "get") /\ tasks[t].kind = "initialize"
  /\ CallsNothing(t) /\ tasks' = Without(t)
  /\ screen' = IF Value(t) = None THEN "onboarding" ELSE "locked"
  /\ UNCHANGED <<media, sessions, current, ops, known>>

-----------------------------------------------------------------------------
User == \/ \E t \in TaskIds : Create(t) \/ Unlock(t) \/ Save(t) \/ ChangePassword(t) \/ Destroy(t)
        \/ Refused \/ Lock \/ Reload

Continue(t) == \/ ReadsAgain(t) \/ SetDone(t) \/ CreateChecked(t) \/ SessionReady(t)
               \/ SlotReadBack(t) \/ PointerReadBack(t) \/ MetadataReadBack(t)
               \/ Destroyed(t) \/ CleanedUp(t) \/ LegacyCleared(t) \/ Inspected(t)
               \/ \E k \in VaultKeys : SnapshotRead(t, k)

Next == \/ User
        \/ \E k \in Keys : HostWrites(k)
        \/ \E t \in TaskIds : Continue(t) \/ AdapterFails(t)

Spec == Init /\ [][Next]_vars

-----------------------------------------------------------------------------
(* What a key may hold once the calls under way have been performed or not *)
Might(k) == {media[k]} \cup ToSet(writes[k])

TypeOK == /\ media \in [Keys -> Values] /\ writes \in [Keys -> Seq(Values)]
          /\ \A k \in Keys : media[k] \in Storable(k) /\ writes[k] \in Seq(Storable(k))
          /\ reads \in [TaskIds -> [Keys -> Nat \cup {None}]]
          /\ tasks \in [TaskIds -> Tasks \cup {None}]
          /\ sessions \in [SessionIds -> SessionRecords]
          /\ \A i \in SessionIds : ~Unlocked(sessions[i]) => sessions[i] = NoSession
          /\ current \in SessionIds \cup {None}
          /\ screen \in {"loading", "onboarding", "locked", "vault", "unsupported"}
          /\ ops \in Names /\ acked \subseteq Names /\ passwords \subseteq Names
          /\ owned \in BOOLEAN /\ ending \in {"no", "asked", "reported"}

Found(a, b, m) == [slot_a |-> a, slot_b |-> b, meta |-> m]

(* Until its end is asked for, metadata is never there without a slot it opens,
   whatever becomes of the calls under way: the locked screen is no dead end. *)
MetadataOpens ==
  ending = "no" => \A a \in Might("slot_a"), b \in Might("slot_b"), m \in Might("meta") :
    m # None => Selected(Found(a, b, m)) # {}

(* Whatever becomes of the calls under way, of operations running, failed or cut
   off by a reload: the next unlock opens a slot with every edit the user was
   shown as saved, under a password the user must reckon with. *)
AckedSurvives ==
  owned => \A a \in Might("slot_a"), b \in Might("slot_b"), m \in Might("meta") :
    /\ m # None /\ m.password \in passwords
    /\ LET got == Found(a, b, m)
       IN Selected(got) # {} /\ \A s \in Selected(got) : acked \subseteq got[s].content

(* With no operation under way, an unlocked session agrees with the medium, and
   no call under way can change that: its slot, generation, content and metadata
   are the newest, the pointer names them, and nothing is pending. *)
SessionMatchesStorage ==
  current # None /\ Unlocked(sessions[current]) /\ (\A t \in TaskIds : tasks[t] = None) =>
    LET s == sessions[current]
        sealed == media[s.vault.slot]
    IN /\ s.pending = None /\ s.change = None
       /\ sealed # None /\ Might(s.vault.slot) = {sealed}
       /\ sealed.key = s.vault.key /\ sealed.generation = s.vault.generation
       /\ sealed.content = s.vault.content
       /\ Might("meta") = {s.metadata}
       /\ Might("pointer") = {PointerTo(s.vault.slot, sealed)}
       /\ \A other \in Might(Other(s.vault.slot)) :
            other = None \/ other.key # sealed.key \/ other.generation < sealed.generation

ComingUp(i) == \E t \in Running({"create", "unlock"}) : tasks[t].session = i

(* A session that is not the controller's and is not coming up is locked, and
   without a session the vault is not on the screen. *)
LockedMeansLocked ==
  /\ \A i \in SessionIds : Unlocked(sessions[i]) => i = current \/ ComingUp(i)
  /\ screen = "vault" => current # None

(* THREAT_MODEL.md's "dropped after the configured inactivity timeout or manual
   lock": with no session at the controller, no session is unlocked. *)
LockDropsSessions ==
  current = None => \A i \in SessionIds : Unlocked(sessions[i]) => ComingUp(i)

(* Once the end of the vault was reported, none of its keys can be read, also
   not after the calls under way. *)
DestroyedMeansEmpty == ending = "reported" => \A k \in Keys : Might(k) = {None}

=============================================================================
