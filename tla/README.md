# Pocket Vault: a TLA+ model of the vault's core

Pocket Vault is a Telegram Mini App that keeps login entries encrypted in the
client's `DeviceStorage`. A Rust core (`crates/vault-core`) defines the stored
format and a repository over a storage trait. A WebAssembly bridge
(`crates/vault-wasm`) exposes a session with prepare, verify and commit calls. A
JavaScript client (`web/`) writes the bytes through Telegram's callback storage
and decides when a session exists.

This directory holds TLA+ modules for these parts, TLC configurations that check
them on small instances, and TLAPS proofs: every property that a passing run checks,
except the two of liveness, is a theorem, for all values of the constants.
Section 8 lists the disagreements between code and documentation met on the way.

Contents: 1 the system, 2 modules and code, 3 runs, 4 bounds, 5 fairness,
6 proofs, 7 what is only model-checked or not modelled, 8 findings,
9 how to run it, 10 plan.

## 1. The system

### Components, their state and operations

| Component | Code | State | Operations | Modelled |
|---|---|---|---|---|
| Entry container | `vault-core/src/vault.rs`, `model.rs` | entries with timestamps, container timestamps | add, update, delete, validate, save, reopen | yes |
| Two-slot repository | `vault-core/src/storage.rs`, `vault.rs`, `crypto.rs` | four keys (`meta`, slots A and B, active pointer), session generation and slot | initialize, open, save, clear_device_storage | yes |
| Bridge session | `vault-wasm/src/bridge.rs`, `wasm.rs` | unlocked vault, metadata, pending save, pending password change | create, open, edit, prepare, verify, commit, cancel, lock | yes |
| Storage adapter | `web/src/storage.js` | per call: timeout, deadline, last failure | getExisting, setVerified, removeVerified, restoreExplicitly | yes |
| Persistence protocol | `web/src/vault-persistence.js` | none of its own: local variables across awaits | createSession, openSession, saveSession, changeMasterPassword, destroySession, inspectState | yes |
| Controller | `web/src/app-controller.js` | current session, screen, deadline, timeout | one async method per form, lock, touchSession, expire | partly |
| Lifecycle and timers | `web/app.js`, `session-preferences.js` | inactivity timer, reveal timer, hidden, inactive, preference | host events, timer callbacks | partly |
| Base64URL encoding | `vault-core/src/encoding.rs` | none | encode, decode | lengths |
| Start-up, rendering, localisation, review pages, scripts | see `PROJECT.json` | none of the vault's | - | no |

### How they interact

```
 user / host events                                    Telegram client
        |                                                    |
  web/app.js  --->  AppController  --->  VaultPersistence  --->  CallbackStorage --> DeviceStorage
   (timers)          (session, screen)     (awaits)              (timeout, verify loop)
                          |                    |
                          +---- bridge session (wasm) ----  vault-core
```

- `app.js` calls the controller from form handlers, host events and timers.
  Nothing but the disabled form of the operation itself keeps a second operation
  from starting while the first awaits.
- The controller keeps one current session and compares it with the session of
  the operation after each await (`if (this.session !== session)`).
- `vault-persistence.js` replays the write protocol of the repository with the
  bridge's prepare, verify and commit calls, one adapter operation per await.
- The adapter turns callbacks that may be late, missing or untrue into an
  operation that ends in time, and trusts only what it reads back.
- The Rust repository is the same protocol as a synchronous library over a
  storage trait; the tests of vault-core use it with faulty storages.

### What is hard, and what makes each part correct

`PROJECT.json` lists each hazard with its line; in short:

| Behaviour | Correct means |
|---|---|
| a crash or failed call between slot, pointer and metadata | the last vault the client saw, or the one save tried since, opens again (`ObservedIsRecoverable`, `MetadataOpens`) |
| storage that claims what it did not do | only read-back counts (`ObservedIntact`, `ClearedMeansEmpty`) |
| generations, slots and a stale pointer | one history, newest first (`SlotDiscipline`, `NeighbouringGenerations`, `ObservedAdvances`, `OpensNewest`) |
| a caller's clock that jumps both ways | the container always validates and time moves forward in it (`AlwaysAccepted`, `TimelineAdvances`, `TouchedIsNewest`) |
| suspension, clock changes, host events against the inactivity timer | a session without touches ends (`IdleBounded`, `LocksWhenIdle`, `ArmedWhileUnlocked`), a revealed secret does not outlive it (`SecretInFront`) |
| late, lost and reordered callbacks | an operation ends and believes the right one (`SettlesInTime`, `Settles`, `ConfirmedStays`, `HonestSucceeds`) |
| a session kept between prepare and commit by a host that stores part of it | what is committed is stored, and only what was verified is committed (`CommittedStands`, `PendingIsNext`, `SavesInTwoPhases`, `ChangesInTwoPhases`, `LockLeavesNothing`) |
| a slot near the size limit | what is saved opens again (theorems `SavedOpens`, `SafePlaintext`) |
| a slot moved, relabelled or opened with the wrong key | it is refused (theorems `SlotsOpenInPlace`, `NewVaultsOpen`, `RewrappingKeepsSlots`) |
| operations that overlap, fail late or lose their session | what was shown as saved survives; session, medium and screen agree (`AckedSurvives`, `SessionMatchesStorage`, `LockedMeansLocked`, `DestroyedMeansEmpty`) |

## 2. Modules and the code they model

Definitions keep the names of the code where that is possible, and
`PROJECT.json` maps each to its lines. A definition whose comment begins with
"Mutant" is a plausible bug. `Next` never uses it: it stands beside the
definition it would replace, to show that the properties notice it.

| Module | What it is |
|---|---|
| `VaultFormat` | what is stored: slot, metadata and pointer records; authentication, the next slot, the candidates of `open` and their order |
| `TwoSlotRepository` | the repository over an untrusted storage, one storage call per step |
| `DurableVault` | abstract: a store with one stable version and at most one tentative one |
| `RepositoryRefinement` | the mapping from the repository to `DurableVault` |
| `VaultContainer` | the decrypted container and its operations |
| `EntryBook` | abstract: a function from ids to fields, saved and reopened |
| `ContainerRefinement` | the mapping from the container to `EntryBook` |
| `SessionTimer` | deadline, timer, lifecycle events, revealed secret |
| `StorageAdapter` | the callback adapter on one key, with the host behind it |
| `BridgeSession` | the bridge's session as a value: operators, no behaviour |
| `VaultBridge` | the bridge under any order of its calls, and a host that stores what it gets in part |
| `TwoPhaseWrite` | abstract: a value that is offered, stored and then settled; `VaultBridge` implements it twice |
| `SlotSizes` | the lengths of plaintext, ciphertext and stored slot, and the limits along the way: operators |
| `VaultSealing` | encryption, key derivation and associated data as terms: operators |
| `VaultClient` | controller, persistence and bridge composed over the host's storage |
| `ClientInvariant` | the inductive invariant of `VaultClient`, which a run checks and the proofs use |
| `MC_*` | model-checking instances |
| `*_proofs` | theorems and their proofs |

### TwoSlotRepository

An operation is a record `op` that says which key comes next and what is to be
written; `Write`/`WriteVerified` and `Remove`/`RemoveVerified` are the two
storage calls of `write_verified` and `remove_verified` (storage.rs:298-346).
The reads of `open`, which change nothing, are one step that picks the keys
whose read fails (`unread`). A storage call may fail, do nothing and claim
success, or do its work and report an error (`accepted`, `landed`); the read-back
decides. `Crash` drops operation and session anywhere. `Damage` is the medium:
it loses a value or makes it unreadable, and `damaged` remembers the key until
it is written again. `observed` is the last slot record the client was told is its vault.

Cryptography is modelled by what it guarantees. A slot record authenticates
under the metadata of the vault it was written for, metadata unwraps under its
password, anything damaged is `Garbage`. Ids and keys of a new vault are fresh
(`Fresh`): a vault identity that still occurs in the storage is not drawn again.
`VaultSealing` says where these guarantees come from.
The limits on sizes are a set of `Oversized` contents. The generation is a
counter with a last value, `MaxGen`, as `checked_add` makes of `u64::MAX`.

Constants choose the faults: `FaultyReads` and `Damageable` are sets of keys,
`FaultyWrites` is a switch. A property that needs a sound medium is checked with
the constants that say so, and its theorem has the same hypothesis.

### VaultContainer

`AddEntry`, `UpdateEntry`, `DeleteEntry` take the caller's `now` from all of
`Times`, earlier than the last one too. `Later` is the maximum the code takes
with the times it holds; `Accepted` is `validate`. Strings are `Fields`, of which
some pass validation (`ValidFields`). `stored` is the container the last save
wrote: the repository's guarantee, used here as a value. `named` is the entry the
last edit named; the abstract `EntryBook` uses it to say which one changed.

### SessionTimer

One action per handler or callback, each run to its end as JavaScript does.
`now` is `Date.now()`; `timerLeft` and `revealLeft` are timers, which count the
time the page runs. `Tick` moves both, `Suspend` moves the wall clock alone,
`SetClockBack` sets it back. `idle` and `setBack` record the running time and
the clock correction since the last touch. The operations of the controller that touch the
session are `Unlock`, `Navigate` and `Activity`; a change of the master password
ends in `PasswordChanged`, which keeps the code's order of touch and screen.

### StorageAdapter

One operation at a time on one key, any number in sequence, over a FIFO of
native calls. The host takes the head of the queue and performs it or not, with
or without a callback, truthful or not. A timeout gives the operation up but not
its native call, which the host may still perform later. `honest` says that the host
has served the current operation at once and truthfully; `confirmed` is what the
last mutation returned as confirmed. `restoreExplicitly`, an operation of the class
that nothing in the program calls, is there too: what it would do for a caller is
part of what the adapter promises.

### BridgeSession and VaultBridge

The session is a record `[vault, metadata, pending, change]`, and each bridge
call a pair of operators: the condition under which the call succeeds and the
session it leaves. `BridgeSession` holds these, and two modules use them.

`VaultBridge` calls them in any order. Its host stores what the bridge hands out
completely, in part or not at all (`StoreSlot`, `StorePointer`, `StoreMetadata`,
`StoreBundled`), hands back for verification whatever the key holds, commits with or without
having stored anything, and ends the session at any time (`Lock`, which is also a
page that goes away). `nonce`
tells two encryptions of the same content apart: verification compares content, never
ciphertext. A create or open hands out a `bundle`, which is stored before the
session is taken (`TakeSession`), as INTEGRATION.md asks.

What the host is held to is little, and named in the head of the module: the
bundle is stored before its session is used, first slot before metadata; a value
whose save or change was cancelled is not stored any more; the storage
refuses a slot above its limit; and the contents edited are ones
`serialize_container` lets through.

The abstract `TwoPhaseWrite` knows nothing of slots and calls: a session works on
a version, offers one, and settles only on what is stored. `SavesInTwoPhases`
maps the container to it (`stored` is what `open` would select), `ChangesInTwoPhases`
the metadata.

### SlotSizes

A container of `p` bytes becomes a ciphertext of `p + 16`, that becomes text of
`EncodedLength` characters, and the slot is that text in an envelope whose length
depends on the digits of the generation. The operators are what each function
makes of a length and which limit it checks. `VaultBridge` takes its `Oversized`
versions from them.

### VaultSealing

A ciphertext is the record of everything that went into it, and decryption gives
the text back only under the same key, nonce and associated data; a derived key is the
record of password, vault and parameters. `create_vault`, `unlock_vault` and
`rewrap_vault_key` are functions of what they are given, random values included.

### VaultClient

`VaultClient` runs the operations from await to await. A task
carries its plan: the adapter calls still to come. `SetDone`, `CreateChecked`,
`SlotReadBack`, `PointerReadBack`, `MetadataReadBack` and so on are the code
between two awaits, the checks of the controller after the last one included.
`AdapterFails` is the catch: an adapter operation may fail at any await, its
native call still queued.

Simplifications, each of which only removes detail:

- every key has its own queue of native writes (`writes`), so calls on different keys are
  performed in any order. A read that an operation waits for is the number of
  writes before it (`reads`): it is answered with what the medium holds
  when that number is 0. A read nobody waits for any more changes nothing and is left
  out. `openSession` issues its four reads together, and an answer to each comes when
  the host gets there;
- the medium takes no slot above the limit (`Taken`), `DEVICE_STORAGE_LIMIT_BYTES` in
  the code; what is too large is any set of versions (`Oversized`) that leaves
  out the empty vault;
- a read that is answered is truthful here. A storage that lies is the subject
  of `TwoSlotRepository`, and the read-back of the adapter that of
  `StorageAdapter`;
- the two frames `nextPaint` waits between submit and start are folded into the
  start of the operation;
- the two keys of older versions (`LegacyKeys`) are only ever removed: at
  the start of the page and by a destruction, whose plan ends with them. Each may hold
  a leftover at first; one at a time, as nothing relates them;
- a rejected input or a wrong password changes nothing and is not a step;
  navigation re-renders the forms of the vault area at will, so a form that is
  busy is no protection there;
- content is the set of edits it holds; edits, passwords and keys are named by
  the number of the operation that made them.

`owned`, `acked`, `passwords` and `ending` are what the user knows: that there is a vault,
which edits were shown as saved, which passwords may be the right one (the old
and the new while a change has not been answered), and whether the end of the
vault was asked for or reported.

A destruction that fails half-way still runs the `finally` of `destroySession`
(`DestroyFails`): the password cache is removed all the same, and the screen with its
form stays, so that the user may ask again from the vault or the locked screen.

`Patient` restricts the user: no creation, unlock or destruction is asked for while
another of these is under way, and a destruction only when nothing is. The passing
run assumes it; the two client findings are what happens without it.

## 3. Runs

| Run | Question | Distinct states |
|---|---|---|
| `repository_faults` | Under every fault at once, can an operation cost the client its vault? No: seven invariants, the inductive one of the proofs among them | 108,194 |
| `repository_history` | With writes that fail in every way, crashes, and a medium that keeps what it stored: is it one history, and does the repository implement `DurableVault`? Yes | 30,501 |
| `repository_read_fault` | Does `open` unlock the newest slot when one read fails? No (finding) | violation |
| `container` | Under any order of edits, saves and reopenings and any clock: does every container validate, is the entry touched last the newest, does time move forward, is the list a book keyed by id? Yes | 128,062 |
| `session_timer` | Does every idle session end, whatever clock and host do? Yes | 104,820 |
| `session_deadline` | Is the deadline final? No (finding) | violation |
| `session_screen` | Is the vault's screen always one of a session? No (finding) | violation |
| `storage_adapter` | Does every operation end in time, with the right answer, over a host that misbehaves? Yes | 12,605 |
| `bridge_calls` | Under any order of calls and partial writes: is every save, and every change of the password, a two-phase write of what the storage opens to? Yes | 122,258 |
| `client_sessions` | Two operations of any kind at once, with locks, failures, reloads and a slot that is too large: do user, session, medium and screen agree? Yes, for a patient user; the inductive invariant of the proofs is among what is checked | 1,363,996 |
| `client_destroy` | Does a reported destruction stay one with an unlock under way? No (finding) | violation |
| `client_two_sessions` | Does a lock reach every session? No (finding) | violation |

Refinements are properties of `repository_history` (`ImplementsDurableVault`),
`container` (`ImplementsEntryBook`) and `bridge_calls` (`SavesInTwoPhases`,
`ChangesInTwoPhases`). The first says that every save
is a switch from a stable version to a tentative one that an open, a crash or a
retry makes stable or drops, never a third thing. The second says that an edit
changes the entry it names and no other, across saves and reopenings. The other two
say that the session never takes for saved what is not stored, and that nothing
else is stored than what was offered.

Deadlock is checked everywhere but in `storage_adapter` and the client runs:
there the user's calls are bounded (`MaxCalls`, `MaxOps`) and the system rests
when they are used up, as a page nobody uses does.

## 4. Bounds, and why they are enough

- **Repository**: three vaults, two passwords, three contents of which one is
  too large, generations to 4. Two slots of earlier vaults and the current one make
  three identities; parity and the fall-back need three successive generations,
  the fourth and the last reach the end of the counter. Vaults and passwords are
  interchangeable: nothing names a particular one, so `repository_faults`, whose
  properties are invariants, uses symmetry. The history runs, with action
  properties and a refinement, do not.
- **Container**: at most two entries of three ids, so that the limit is met with
  an id to spare, and times 0..2, so that two edits meet with a clock set back in
  between. Ids are interchangeable in all that is stated, the book included, so
  symmetry in them is sound for its invariants and for its properties of single steps.
- **SessionTimer**: timeouts of 1 and 3 ticks, so that a change of the timeout
  makes deadlines earlier and later; the clock runs to 7, the last touch is at 4,
  so that the longest timeout still ends within the clock
  (`ClockAssumption`), and the clock is set back by at most 3 between two touches.
- **StorageAdapter**: timeout 3, interval 2: the last wait of the loop is cut at
  the deadline because 3 is not a multiple of 2. Three operations over two
  values: the native call of the first may outlive the second.
- **VaultBridge**: two data keys (the vault and one created after it, or its
  first creation retried), two passwords, three nonces, generations to 3: a slot is
  overwritten twice, and the last generation refuses another save. Contents are
  lengths of plaintext around the 5 MiB limit of the stored slot: 151 bytes always
  fit, 3,932,000 while the generation has one digit (the instance gives it a second from
  generation 2 on), 3,932,001 never.
- **VaultSealing**: `MC_TwoSlotRepository` evaluates its statements for two vaults,
  passwords, slots and generations (`SealingHolds`), and that the cases they speak of
  occur (`SealingOccurs`).
- **VaultClient**: two operations at once, three sessions (the current, a stale
  and a coming one), six requests: create, save, unlock after a lock, save, change of
  password or reload, and one more, a destruction retried among them. Locks, navigation and failures are not
  counted and not bounded.
  A save that is the third request is too large (`TooLarge`).
  A third operation at once would be a second stale one; the theorems speak of any number. `client_destroy` and
  `client_two_sessions` need four requests. Tasks and sessions are symmetric; the properties
  are invariants, for which this is sound.

## 5. Fairness

Only `SessionTimer` and `StorageAdapter` have liveness properties. Both assume
weak fairness of `Timers` (a `setTimeout` that is due runs while the page does)
and of `Tick` (time passes); that is what a browser gives, and nothing is asked
of the host or the user. `LocksWhenIdle` says that an idle session is touched or
ended; `Settles` that an operation of the adapter ends even if the host never
calls back. The other modules state safety only; their `Spec` has no fairness,
because an operation of the repository may stop anywhere in a crash.

## 6. Proofs

TLAPS checks every proof below, for all values of the constants that satisfy the
`ASSUME`s of the modules. The assumptions say only that the values standing for nothing (`None`, `Absent`)
are none of the records, versions or books they are told apart from,
that fault constants are sets of keys, that an empty container fits, that limits and
ticks are natural numbers, the ticks positive, and that the clock is long enough for
the timeouts. What the theorems of `VaultSealing` assume stands in their statements.

**Repository** (`TwoSlotRepository_proofs`). The invariant is `InductiveInv`. The
safety invariants are not inductive: that a save leaves the observed slot alone
needs the session to be in step with `observed` (`SessionInv`) and the slot of
the candidate to be the other one (`SaveInv`); that metadata always has a slot
needs to know where `initialize` and `clear` stand (`InitializeInv`, `ClearInv`);
and each must be weakened for damaged keys (`Holds`, `DamagedInv`). One lemma per
action shows that it is preserved, `WriteStep` by key and kind of operation. `TypeCorrect`,
`SlotsDisciplined`, `GenerationsNeighbour`, `ObservedStaysIntact`,
`MetadataAlwaysHasASlot` follow; `ObservedAlwaysRecoverable` needs one more
argument, that the selection among the candidates is the observed slot or its
successor (`SelectionFollowsObserved`).

**History** (`TwoSlotHistory_proofs`). `ClearLeavesNothing` needs its own
invariant of how far a clear has come (`ClearProgress`). `HistoryAdvances` and
`OpenUnlocksNewest` hold under `SoundMedium` (nothing damageable, slots
readable), with the invariant `HistoryInv`; the run `repository_read_fault`
shows that the hypothesis is needed.

`RepositoryIsDurable`, under the same hypothesis, is the refinement of `DurableVault`.
Two openable slots of one vault differ in generation (`OpenableDiffer`), so the
pointer never decides between them: what `open` takes as current is the newest
(`CurrentIsNewest`), and the tentative version is the newest slot where that is
not the observed one (`TentativeIsNewest`). Then one lemma for each kind of step says which
step of the abstract store it is: a write makes a version tentative or changes nothing
(`WriteRefines`), a removal takes the vault away with its metadata (`RemoveRefines`), a
commit makes the tentative version stable (`CommitRefines`). One more invariant is needed,
that a creation finds no metadata until it writes it (`CreationInv`).

**Container** (`VaultContainer_proofs`). `ContainerInv` adds to type and
acceptance that the session's container is ahead of the stored one
(`SessionAhead`), which is what makes the timeline of the stored ones advance
(`TimeMovesForward`) over a lock that drops the session. What an edit does to a
sequence is in lemmas of its own (`AppendElements`, `RemoveAtElements`,
`PositionFound`).

For `TouchedStaysNewest` and `ContainerIsABook` positions no longer matter: an edit is
read as one of the set of entries. It puts one entry and keeps the `Others` (`Puts`), or
strikes one (`Strikes`). `AddPuts`, `UpdatePuts` and `DeleteStrikes` prove that from
the sequences; `PutChangesBook` and `StrikeChangesBook` draw from it what happens to
the function of ids, and `IdsWithinCapacity` that the book is full exactly when
the list is.

**SessionTimer** (`SessionTimer_proofs`). `TimerInv` relates the wall clock's
deadline to the running timer: `ClockKeepsUp` says that since the last touch the
wall clock has gained at least what the page ran, less what it was set back;
`TimerInTime` says that the timer is therefore never armed for longer than the
idle time still allowed. `IdleBounded` itself says nothing of the timer and is
not inductive; it follows from `TimerInTime`, which needs `ClockKeepsUp` when
the timer fires early and is armed again.

**StorageAdapter** (`StorageAdapter_proofs`). `AdapterInv` bounds elapsed time
plus what the deadline and the timer still have (`InTime`); `SettlesInTime`
follows. `ConfirmedValuesStay` says that the value an operation confirmed is not
undone by a native call given up before it. It needs the order of the queue (`OrderInv`): the
calls of the current operation stand behind all older ones, and once one of its
answers was heard nothing older is left. `HonestHostBelieved` says that an operation
served at once and truthfully succeeds; `HonestInv` follows what such an operation can
have heard at each of its steps, whatever was given up before.

**Bridge** (`VaultBridge_proofs`). One invariant (`Invariance`) relates session,
bundle and storage: the committed generation lies in the slot the session names, the other
slot holds nothing of this vault but an earlier generation or what a save offered
for the next one, and what is pending is of the session's own vault. From it
follow the four invariants of the run, and both refinements, step by step
(`Saves`, `Changes`): every call is a step of `TwoPhaseWrite` or changes nothing there.

**Client** (`VaultClient_proofs`). None of the properties of `client_sessions` is
inductive: that acknowledged edits survive needs to know what every call under way may
still do to the medium, and that depends on how far the operation that made it has
come. `ClientInv` (module `ClientInvariant`) says it in parts:

- `OneLive`: at most one operation can still write. A save or password change whose
  session was locked is stale: the calls it made may still be performed, and its next step
  fails. `ReadsLast` and `ReadsBack` say why: what is read for the live operation stands
  behind every write called before, so its answer tells what the medium will
  stay (`AnswerSettles`), and a stale plan never ends in a write.
- What a key may hold is `Might(k)`, the medium's value and every write under way. `VaultAt`
  says of a slot that, whichever of them it is, it opens with all that was
  acknowledged, and that the other slot, if it is newer, does so too. `CurrentInv` says
  the same of the session, and `Progress` of each kind of operation at
  each step of its plan.
- `Alone`, `OnScreen`, `SessionsApart`, `PendingIsTask`: which operations meet which
  screen and each other.

A step that adds no write, ends no operation well and changes no session keeps all this
(`QuietStep`), which is most of the proof for locks, failures, reloads and the
host (`StepHostWrites`: the medium becomes what it might have been). One lemma per
action does the rest; a save, from `StepSave` to `StepPointerReadBack`, is the longest. The
theorems hold for every set of operations and sessions, every number of requests and
every set of oversized versions, and assume `Patient`, for the reason the two
client findings show: without it `OneLive` fails, and with it the properties. `Save`,
`ChangePassword`, `Lock`, `Reload` and every step of an operation keep the invariant without
that hypothesis; `Create`, `Unlock` and `Destroy` use it.

**Sizes** (`SealedSlots_proofs`). For every length: the encoding decodes to as many
bytes as went in (`RoundTrip`); what the repository's save lets through passes
every limit of `open` (`SavedOpens`). `prepare_save` is different:
`HandedOutNeedNotOpen` shows, for every limit of at least 16 bytes, a slot that
it hands out and `open` refuses. `SafePlaintext` gives the length that is safe:
three quarters of the limit, less 174 bytes.

**Sealing** (`SealedSlots_proofs`). Associated data is written with the length
before each field, so different fields never give the same bytes (`Framing`).
From encryption as a term: a sealed slot opens to what was sealed
(`SealedSlotsOpen`), under one vault, slot and generation only
(`SlotsOpenInPlace`); a new vault opens to the session that created it and to no
other password (`NewVaultsOpen`); and a change of the password leaves every slot
readable by the new password and by no other (`RewrappingKeepsSlots`), which is
why no slot is written again.

## 7. Only model-checked, and not modelled

Only model-checked: liveness (`LocksWhenIdle`, `Settles`). It
rests on fairness and `ENABLED`, which the provers do not handle, and stays with
TLC; so do the five runs that expect a violation. There is no recursive operator in any module, so nothing is out of reach
for the induction they lack.

`ConfirmedStays` and `SessionMatchesStorage` assume that the host performs the
calls on one key in the order they were made. Telegram does not document it; the
client has no way to tell a late write of a call given up from a new one.

Not modelled:

- the read-only views of the bridge and its JSON;
- cryptography beyond the terms of `VaultSealing` (its strength, the alphabet of the
  encoding, the wiping of memory);
- which entry is selected or edited. `runBusy` waits two frames before an
  operation reads `editingId`, which a save that ends in between resets: listed as
  a hazard, without a property, as the forms are not modelled;
- rendering, localisation, themes, static pages, start-up and development scripts:
  no state of the vault depends on them.

## 8. Findings

Each is the counterexample of a run; `PROJECT.json` quotes the lines.

1. `repository_read_fault`: `open` skips a slot whose read fails, opens the
   older one and repairs the pointer to it; its comment promises the newest slot
   or an error for a storage failure.
2. `session_deadline`: `touchSession` never looks at the deadline, so an event
   handled after a suspension and before the overdue timer prolongs an expired
   session; INTEGRATION.md says it is locked.
3. `session_screen`: `changeMasterPassword` shows the settings after
   `touchSession` locked the session for a clock that was set back.
4. `client_destroy`: an unlock under way writes its pointer after a destruction
   has verified that the key is gone; THREAT_MODEL.md says the keys are verified
   to be no longer readable.
5. `client_two_sessions`: the late failure of a save of a locked session renders
   a fresh unlock form; of two unlocks the second replaces the first one's
   session without locking it, and no lock or timer reaches it.

One more divergence has no run, because it is a matter of arithmetic: docs/FORMAT.md
limits the JSON of a stored slot to 5 MiB, and `prepare_save` (bridge.rs:367)
checks the plaintext alone. `HandedOutNeedNotOpen` is the proof. A storage that
refuses values above the limit fails the save and leaves the last one in place
(`CommittedStands`); one that takes them would keep a slot that `open` refuses.

Dead ends and overlaps that no line of the repository speaks against are among the
hazards only, with a note.

## 9. Running

```
tlc -config repository_faults.cfg MC_TwoSlotRepository.tla   # any run of section 3
tlapm TwoSlotRepository_proofs.tla                           # any *_proofs module
```

The module of a run is in `PROJECT.json`. Every passing run ends within about
two minutes and every proof module within about one on two cores, but for `VaultClient_proofs`,
which takes about four.

## 10. Plan

Done, in this order: repository and its refinement, container, session timer,
storage adapter, client, bridge and its refinements, sizes, sealing, the proofs of the
client, the proofs of the refinements of repository and container.

Next, most important first:

1. **An abstract client vault** that `VaultClient` implements for a patient user:
   one vault with acknowledged and unanswered edits.
2. **Composition of timer and client**: the lock of the client driven by the
   clock of `SessionTimer`, and touches at the end of operations.
3. **Liveness of operations** of the client with the adapter's bound as a timer.
4. **Entry forms**: the selected and the edited entry, with the two frames of
   `nextPaint` between submit and start.
