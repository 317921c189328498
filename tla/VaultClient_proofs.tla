--------------------------- MODULE VaultClient_proofs ---------------------------
(***************************************************************************)
(* Theorems about VaultClient for a patient user, for every set of tasks and *)
(* sessions, every number of requests and every set of versions that are too *)
(* large: ClientInv is an invariant, and with it the properties of the run.   *)
(***************************************************************************)
EXTENDS ClientInvariant, SequenceTheorems, TLAPS

-----------------------------------------------------------------------------
(* Sequences as sets, and the rest of a plan *)
LEMMA AppendSet ==
  ASSUME NEW S, NEW q \in Seq(S), NEW v \in S
  PROVE  ToSet(Append(q, v)) = ToSet(q) \cup {v}
<1>1. /\ Append(q, v) \in Seq(S) /\ Len(Append(q, v)) = Len(q) + 1
      /\ \A i \in 1..Len(q) : Append(q, v)[i] = q[i]
      /\ Append(q, v)[Len(q) + 1] = v
  OBVIOUS
<1>2. DOMAIN q = 1..Len(q) /\ DOMAIN Append(q, v) = 1..(Len(q) + 1) /\ Len(q) \in Nat
  BY <1>1
<1> QED BY <1>1, <1>2 DEF ToSet

LEMMA TailSet ==
  ASSUME NEW S, NEW q \in Seq(S), q # <<>>
  PROVE  /\ Tail(q) \in Seq(S) /\ Len(q) \in Nat \ {0} /\ Len(Tail(q)) = Len(q) - 1
         /\ Head(q) \in S /\ Head(q) \in ToSet(q) /\ ToSet(Tail(q)) \subseteq ToSet(q)
<1>1. /\ Tail(q) \in Seq(S) /\ Len(Tail(q)) = Len(q) - 1 /\ Len(q) \in Nat \ {0}
      /\ \A i \in 1..Len(Tail(q)) : Tail(q)[i] = q[i + 1]
      /\ Head(q) = q[1]
  OBVIOUS
<1>2. DOMAIN q = 1..Len(q) /\ DOMAIN Tail(q) = 1..Len(Tail(q))
  BY <1>1
<1>3. Head(q) \in S
  BY <1>1
<1> QED BY <1>1, <1>2, <1>3 DEF ToSet

LEMMA PlanParts ==
  ASSUME NEW S, NEW q \in Seq(S), q # <<>>
  PROVE  /\ Head(q) \in S /\ Tail(q) \in Seq(S) /\ Len(q) \in Nat \ {0}
         /\ Len(Tail(q)) = Len(q) - 1 /\ \A i \in 1..Len(Tail(q)) : Tail(q)[i] = q[i + 1]
         /\ Len(q) > 1 => /\ Tail(q) # <<>> /\ Head(Tail(q)) = q[2] /\ Head(Tail(q)) \in S
<1>1. /\ Tail(q) \in Seq(S) /\ Len(Tail(q)) = Len(q) - 1 /\ Len(q) \in Nat \ {0}
      /\ \A i \in 1..Len(Tail(q)) : Tail(q)[i] = q[i + 1]
      /\ Head(q) = q[1]
  OBVIOUS
<1>2. Head(q) \in S
  BY <1>1
<1>3. ASSUME Len(q) > 1 PROVE Tail(q) # <<>> /\ Head(Tail(q)) = q[2] /\ Head(Tail(q)) \in S
  <2>0. PICK r \in Seq(S) : r = Tail(q)
    BY <1>1
  <2>1. Len(r) # 0 /\ r # <<>> /\ Head(r) = r[1]
    BY <1>1, <1>3, <2>0
  <2>2. 1 \in 1..Len(Tail(q))
    BY <1>1, <1>3
  <2>3. Tail(q)[1] = q[1 + 1]
    BY <1>1, <2>2
  <2>4. 2 \in 1..Len(q)
    BY <1>1, <1>3
  <2>5. q[2] \in S
    BY <2>4
  <2> QED BY <2>0, <2>1, <2>3, <2>5
<1> QED BY <1>1, <1>2, <1>3

LEMMA EmptySequence ==
  ASSUME NEW S, NEW q \in Seq(S), Len(q) = 0
  PROVE  q = <<>> /\ ToSet(q) = {}
BY DEF ToSet

LEMMA FromFacts ==
  ASSUME NEW S, NEW p \in Seq(S), NEW n \in 1..Len(p)
  PROVE  /\ From(p, n) \in Seq(S) /\ From(p, n) # <<>>
         /\ Head(From(p, n)) = p[n] /\ Len(From(p, n)) = Len(p) - n + 1
         /\ n < Len(p) => Tail(From(p, n)) = From(p, n + 1)
<1>1. /\ From(p, n) \in Seq(S) /\ Len(From(p, n)) = Len(p) - n + 1
      /\ \A i \in 1..(Len(p) - n + 1) : From(p, n)[i] = p[n + i - 1]
  BY DEF From
<1>2. From(p, n) # <<>> /\ Head(From(p, n)) = p[n]
  BY <1>1
<1>3. ASSUME n < Len(p) PROVE Tail(From(p, n)) = From(p, n + 1)
  <2>1. /\ From(p, n + 1) \in Seq(S) /\ Len(From(p, n + 1)) = Len(p) - n
        /\ \A i \in 1..(Len(p) - n) : From(p, n + 1)[i] = p[n + i]
    BY <1>3 DEF From
  <2>2. /\ Tail(From(p, n)) \in Seq(S) /\ Len(Tail(From(p, n))) = Len(p) - n
        /\ \A i \in 1..(Len(p) - n) : Tail(From(p, n))[i] = p[n + i]
    BY <1>1, <1>2, <1>3
  <2>3. Len(p) \in Nat /\ Len(From(p, n + 1)) = Len(Tail(From(p, n)))
    BY <2>1, <2>2
  <2>4. \A i \in 1..Len(Tail(From(p, n))) : Tail(From(p, n))[i] = From(p, n + 1)[i]
    BY <2>1, <2>2
  <2> HIDE DEF From
  <2> QED BY <2>1, <2>2, <2>3, <2>4, SeqEqual
<1> QED BY <1>1, <1>2, <1>3

LEMMA FromFirst == ASSUME NEW S, NEW p \in Seq(S) PROVE From(p, 1) = p
BY DEF From

-----------------------------------------------------------------------------
(* Keys and the values under them *)
LEMMA KeyFacts ==
  /\ Slots = {"slot_a", "slot_b"} /\ Other("slot_a") = "slot_b" /\ Other("slot_b") = "slot_a"
  /\ Slots \subseteq VaultKeys /\ VaultKeys \subseteq Keys /\ LegacyKeys \subseteq Keys
  /\ "meta" \in VaultKeys /\ "pointer" \in VaultKeys /\ "meta" \notin Slots /\ "pointer" \notin Slots
  /\ \A k \in Keys : k \in Slots \cup {"meta", "pointer"} \cup LegacyKeys
  /\ \A k \in VaultKeys : k \notin LegacyKeys
BY DEF Slots, Other, VaultKeys, Keys, LegacyKeys

LEMMA OtherSlot == \A s \in Slots : /\ Other(s) \in Slots /\ Other(s) # s /\ Other(Other(s)) = s
                                    /\ \A r \in Slots : r = s \/ r = Other(s)
BY DEF Slots, Other

LEMMA StorableValues ==
  /\ \A s \in Slots : Storable(s) = SealedSlots \cup {None}
  /\ Storable("meta") = Metadata \cup {None}
  /\ Storable("pointer") = Pointers \cup {None}
  /\ \A k \in LegacyKeys : Storable(k) = LegacyValues \cup {None}
  /\ \A k \in Keys : None \in Storable(k) /\ Storable(k) \subseteq Values
<1>1. \A s \in Slots : Storable(s) = SealedSlots \cup {None}
  BY DEF Storable
<1>2. Storable("meta") = Metadata \cup {None}
  BY DEF Storable, Slots
<1>3. Storable("pointer") = Pointers \cup {None}
  BY DEF Storable, Slots
<1>4. \A k \in LegacyKeys : Storable(k) = LegacyValues \cup {None}
  BY DEF Storable, Slots, LegacyKeys
<1> QED BY <1>1, <1>2, <1>3, <1>4 DEF Values, Keys, VaultKeys

LEMMA NoneIsNothing ==
  /\ None \notin Nat /\ None \notin SealedSlots /\ None \notin Metadata /\ None \notin Pointers
  /\ None \notin OpenVaults /\ None \notin PendingSaves /\ None \notin Tasks
  /\ None \notin TaskIds /\ None \notin SessionIds /\ None \notin LegacyValues
BY NoneAssumption, PoolAssumption

LEMMA StepFacts ==
  ASSUME NEW k \in Keys, NEW v \in Storable(k)
  PROVE  /\ SetStep(k, v) \in Steps /\ SetStep(k, v).op = "set"
         /\ SetStep(k, v).key = k /\ SetStep(k, v).value = v
         /\ GetStep(k) \in Steps /\ GetStep(k).op = "get" /\ GetStep(k).key = k
         /\ GetStep(k).value = None
BY StorableValues DEF SetStep, GetStep, Steps

(* What the calls of a step make of the writes and reads, and of what a key may hold *)
LEMMA CallsFacts ==
  ASSUME TypeOK, NEW t \in TaskIds, NEW step \in Steps,
         step.op = "set" => step.value \in Storable(step.key), Calls(t, step)
  PROVE  /\ writes' \in [Keys -> Seq(Values)] /\ \A k \in Keys : writes'[k] \in Seq(Storable(k))
         /\ reads' \in [TaskIds -> [Keys -> Nat \cup {None}]]
         /\ \A k \in Keys : reads'[t][k] \in {None, Len(writes'[k])}
         /\ \A u \in TaskIds : u # t => reads'[u] = reads[u]
         /\ \A k \in Keys : k # step.key \/ step.op = "get" => writes'[k] = writes[k]
<1>1. step.key \in Keys /\ step.value \in Values /\ step.op \in {"set", "get"}
  BY DEF Steps
<1>2. /\ writes' \in [Keys -> Seq(Values)] /\ \A k \in Keys : writes'[k] \in Seq(Storable(k))
      /\ \A k \in Keys : k # step.key \/ step.op = "get" => writes'[k] = writes[k]
  BY <1>1 DEF TypeOK, Calls
<1>3. \A k \in Keys : Len(writes'[k]) \in Nat
  BY <1>2
<1>4. /\ reads' \in [TaskIds -> [Keys -> Nat \cup {None}]]
      /\ \A k \in Keys : reads'[t][k] \in {None, Len(writes'[k])}
      /\ \A u \in TaskIds : u # t => reads'[u] = reads[u]
  BY <1>1, <1>3 DEF TypeOK, Calls, NoReads
<1> QED BY <1>2, <1>4

LEMMA CallsMight ==
  ASSUME TypeOK, NEW t \in TaskIds, NEW step \in Steps,
         step.op = "set" => step.value \in Storable(step.key), Calls(t, step), media' = media
  PROVE  /\ \A k \in Keys : k # step.key \/ step.op = "get" => Might(k)' = Might(k)
         /\ Might(step.key)' \subseteq Might(step.key) \cup {step.value}
<1>1. \A k \in Keys : k # step.key \/ step.op = "get" => Might(k)' = Might(k)
  BY CallsFacts DEF Might
<1>2. CASE step.op = "set"
  <2>1. step.key \in Keys
    BY DEF Steps
  <2>2. writes'[step.key] = Append(writes[step.key], step.value)
    BY <1>2, <2>1 DEF TypeOK, Calls
  <2>3. ToSet(writes'[step.key]) = ToSet(writes[step.key]) \cup {step.value}
    BY <1>2, <2>1, <2>2, AppendSet DEF TypeOK
  <2> QED BY <1>1, <2>3 DEF Might
<1> QED BY <1>1, <1>2 DEF Steps

LEMMA SameMight == ASSUME media' = media, writes' = writes
                   PROVE  \A k \in Keys : Might(k)' = Might(k)
BY DEF Might

LEMMA MightFacts ==
  ASSUME TypeOK, NEW k \in Keys
  PROVE  /\ media[k] \in Might(k) /\ Might(k) \subseteq Storable(k)
         /\ Len(writes[k]) \in Nat
         /\ Len(writes[k]) = 0 => Might(k) = {media[k]}
<1>1. writes[k] \in Seq(Storable(k)) /\ media[k] \in Storable(k)
  BY DEF TypeOK
<1>2. Len(writes[k]) = 0 => Might(k) = {media[k]}
  BY <1>1, EmptySequence DEF Might
<1>3. ToSet(writes[k]) \subseteq Storable(k)
  BY <1>1 DEF ToSet
<1> QED BY <1>1, <1>2, <1>3 DEF Might

(* The answer to a read behind every write: the medium is as it will stay. *)
LEMMA AnswerSettles ==
  ASSUME TypeOK, ReadsLast, NEW t \in TaskIds, NEW k \in Keys, Live(t), reads[t][k] = 0
  PROVE  Might(k) = {media[k]}
<1>1. reads[t][k] = Len(writes[k])
  BY NoneIsNothing DEF ReadsLast
<1> QED BY <1>1, MightFacts

LEMMA HostFacts ==
  ASSUME TypeOK, NEW k \in Keys, HostWrites(k)
  PROVE  /\ media' \in [Keys -> Values] /\ writes' \in [Keys -> Seq(Values)]
         /\ \A j \in Keys : media'[j] \in Storable(j) /\ writes'[j] \in Seq(Storable(j))
         /\ reads' \in [TaskIds -> [Keys -> Nat \cup {None}]]
         /\ \A t \in TaskIds, j \in Keys :
              reads[t][j] \in {None, Len(writes[j])} => reads'[t][j] \in {None, Len(writes'[j])}
         /\ \A j \in Keys : Might(j)' \subseteq Might(j)
         /\ \A s \in Slots : media'[s] # media[s] /\ media'[s] # None => Fits(media'[s])
<1> DEFINE v == Head(writes[k])
<1>1. /\ v \in Storable(k) /\ v \in ToSet(writes[k]) /\ Tail(writes[k]) \in Seq(Storable(k))
      /\ Len(writes[k]) \in Nat \ {0} /\ Len(Tail(writes[k])) = Len(writes[k]) - 1
      /\ ToSet(Tail(writes[k])) \subseteq ToSet(writes[k])
  BY TailSet DEF TypeOK, HostWrites
<1>2. v \in Values /\ Tail(writes[k]) \in Seq(Values)
  BY <1>1, StorableValues, TailSet DEF TypeOK, HostWrites
<1> HIDE DEF v
<1>3. media' \in {media, [media EXCEPT ![k] = v]}
  BY DEF HostWrites, Taken, v
<1>4. writes' = [writes EXCEPT ![k] = Tail(writes[k])]
  BY DEF HostWrites
<1>5. /\ media' \in [Keys -> Values] /\ writes' \in [Keys -> Seq(Values)]
      /\ \A j \in Keys : media'[j] \in Storable(j) /\ writes'[j] \in Seq(Storable(j))
  BY <1>1, <1>2, <1>3, <1>4 DEF TypeOK
<1>6. \A t \in TaskIds, j \in Keys :
        /\ reads'[t][j] = IF j = k /\ reads[t][j] # None THEN reads[t][j] - 1 ELSE reads[t][j]
        /\ j = k => reads[t][j] # 0
  BY DEF TypeOK, HostWrites
<1>7. reads' \in [TaskIds -> [Keys -> Nat \cup {None}]]
  <2>1. \A t \in TaskIds : [reads[t] EXCEPT ![k] = IF @ = None THEN None ELSE @ - 1]
                             \in [Keys -> Nat \cup {None}]
    BY DEF TypeOK, HostWrites
  <2> QED BY <2>1 DEF HostWrites
<1>8. \A t \in TaskIds, j \in Keys :
        reads[t][j] \in {None, Len(writes[j])} => reads'[t][j] \in {None, Len(writes'[j])}
  BY <1>1, <1>4, <1>6 DEF TypeOK
<1>9. \A j \in Keys : Might(j)' \subseteq Might(j)
  BY <1>1, <1>3, <1>4 DEF Might, TypeOK
<1>10. \A s \in Slots : media'[s] # media[s] /\ media'[s] # None => Fits(media'[s])
  BY KeyFacts DEF HostWrites, Taken, TypeOK
<1> QED BY <1>5, <1>7, <1>8, <1>9, <1>10

-----------------------------------------------------------------------------
(* Operations that end, and those that are left *)
LEMMA RenderedFacts ==
  ASSUME NEW ts \in [TaskIds -> Tasks \cup {None}]
  PROVE  /\ Rendered(ts) \in [TaskIds -> Tasks \cup {None}]
         /\ \A u \in TaskIds : Rendered(ts)[u] # None =>
              /\ ts[u] # None
              /\ Rendered(ts)[u].kind = ts[u].kind /\ Rendered(ts)[u].session = ts[u].session
              /\ Rendered(ts)[u].plan = ts[u].plan /\ Rendered(ts)[u].got = ts[u].got
         /\ \A u \in TaskIds : ts[u] # None => Rendered(ts)[u] # None
<1>1. \A u \in TaskIds : ts[u] # None =>
        /\ [ts[u] EXCEPT !.form = FALSE] \in Tasks
        /\ [ts[u] EXCEPT !.form = FALSE].kind = ts[u].kind
        /\ [ts[u] EXCEPT !.form = FALSE].session = ts[u].session
        /\ [ts[u] EXCEPT !.form = FALSE].plan = ts[u].plan
        /\ [ts[u] EXCEPT !.form = FALSE].got = ts[u].got
  BY DEF Tasks
<1> QED BY <1>1, NoneIsNothing DEF Rendered

Surviving(u) == /\ tasks[u] # None
                /\ tasks'[u].kind = tasks[u].kind /\ tasks'[u].session = tasks[u].session
                /\ tasks'[u].plan = tasks[u].plan /\ tasks'[u].got = tasks[u].got
                /\ reads'[u] = reads[u]
                /\ tasks[u].kind \in {"save", "password"} =>
                     (Unlocked(OwnSession(u))' => Unlocked(OwnSession(u)))

StructInv == OneLive /\ ReadsLast /\ ReadsBack /\ Alone /\ SessionsApart

LEMMA SomeEnd ==
  ASSUME StructInv, writes' = writes,
         \A u \in TaskIds : tasks'[u] # None => Surviving(u),
         \A i \in SessionIds : Unlocked(sessions[i])' => i = current' \/ ComingUp(i)',
         Running({"destroy", "cleanup"})' # {} => \A i \in SessionIds : ~Unlocked(sessions[i])'
  PROVE  StructInv'
<1>1. \A u \in TaskIds : Live(u)' => Live(u)
  BY DEF Live, Surviving
<1>2. OneLive'
  BY <1>1 DEF StructInv, OneLive
<1>3. ReadsLast'
  BY <1>1 DEF StructInv, ReadsLast, Surviving, Live
<1>4. \A kinds : \A u \in Running(kinds)' : u \in Running(kinds)
  BY DEF Running, Surviving
<1>5. ReadsBack'
  BY <1>4 DEF StructInv, ReadsBack, Running, Surviving
<1>6. Alone'
  BY <1>4 DEF StructInv, Alone, Running, Surviving
<1>7. SessionsApart'
  BY <1>4 DEF StructInv, SessionsApart, Running, Surviving
<1> QED BY <1>2, <1>3, <1>5, <1>6, <1>7 DEF StructInv

-----------------------------------------------------------------------------
(* Nothing new is written to the keys of the vault, and the user learns nothing. *)
Quiet == /\ \A k \in VaultKeys : Might(k)' \subseteq Might(k)
         /\ \A k \in LegacyKeys : Might(k)' \subseteq Might(k) \cup {None}
         /\ \A s \in Slots : media'[s] # media[s] /\ media'[s] # None => Fits(media'[s])
         /\ owned' = owned /\ acked' = acked /\ passwords' = passwords
         /\ ops' \in Names /\ ops' >= ops

LEMMA QuietStorage ==
  ASSUME TypeOK, SlotsInv, OwnedInv, UnownedInv, Quiet,
         \/ UnownedInv'
         \/ ~owned /\ (ending' = "no" \/ screen' = "onboarding")
              => ending = "no" \/ screen = "onboarding"
  PROVE  SlotsInv' /\ OwnedInv' /\ UnownedInv'
<1>1. SlotsInv'
  <2>1. \A s \in Slots : \A a \in Might(s)' : a # None => a \in SealedSlots
    BY MightFacts, StorableValues, KeyFacts DEF Quiet
  <2>2. ops \in Nat /\ ops' \in Nat
    BY PoolAssumption DEF TypeOK, Quiet, Names
  <2> QED BY <2>1, <2>2, KeyFacts, PoolAssumption DEF SlotsInv, Quiet, SealedSlots, Names
<1>2. \A s \in Slots : VaultAt(s) => VaultAt(s)'
  <2> SUFFICES ASSUME NEW s \in Slots, VaultAt(s) PROVE VaultAt(s)'
    OBVIOUS
  <2>1. s \in VaultKeys /\ Other(s) \in VaultKeys /\ "meta" \in VaultKeys
    BY KeyFacts, OtherSlot
  <2> QED BY <2>1 DEF VaultAt, Quiet
<1>3. OwnedInv'
  BY <1>2 DEF OwnedInv, Quiet
<1>4. UnownedInv'
  BY KeyFacts DEF UnownedInv, Quiet
<1> QED BY <1>1, <1>3, <1>4

LEMMA QuietCurrent ==
  ASSUME TypeOK, CurrentInv, Quiet,
         current' # None /\ Unlocked(sessions'[current']) =>
           current' = current /\ sessions'[current] = sessions[current]
  PROVE  CurrentInv'
<1> SUFFICES ASSUME current' # None, Unlocked(sessions'[current'])
             PROVE  CurrentInv'
  BY DEF CurrentInv
<1>1. current' = current /\ sessions'[current] = sessions[current] /\ current # None
      /\ Unlocked(sessions[current])
  OBVIOUS
<1>2. PICK s : s = sessions[current]
  OBVIOUS
<1>3. s.vault.slot \in Slots
  BY <1>1, <1>2 DEF TypeOK, SessionRecords, OpenVaults, Unlocked
<1>4. /\ s.vault.slot \in VaultKeys /\ Other(s.vault.slot) \in VaultKeys
      /\ "meta" \in VaultKeys /\ "pointer" \in VaultKeys
  BY <1>3, KeyFacts, OtherSlot
<1>5. /\ owned /\ VaultAt(s.vault.slot) /\ acked \subseteq s.vault.content /\ VersionStored(s)
      /\ s.pending = None => ContentStored(s) /\ PointerStored(s)
      /\ s.change = None => MetadataStored(s)
  BY <1>1, <1>2 DEF CurrentInv
<1>6. VaultAt(s.vault.slot)'
  BY <1>4, <1>5 DEF VaultAt, Quiet
<1>7. /\ VersionStored(s)'
      /\ s.pending = None => ContentStored(s)' /\ PointerStored(s)'
      /\ s.change = None => MetadataStored(s)'
  BY <1>4, <1>5 DEF VersionStored, ContentStored, PointerStored, MetadataStored, Quiet
<1>8. owned' /\ acked' \subseteq s.vault.content /\ s = sessions'[current']
  BY <1>1, <1>2, <1>5 DEF Quiet
<1> QED BY <1>6, <1>7, <1>8 DEF CurrentInv

LEMMA PlanFacts ==
  /\ Len(DestroyPlan) = 6 /\ \A j \in 1..6 : DestroyPlan[j].key \in Keys
  /\ DestroyPlan \in Seq(Steps) /\ \A j \in 1..6 : DestroyPlan[j].op = "set" /\ DestroyPlan[j].value = None
  /\ \A k \in Keys : \E j \in 1..6 : DestroyPlan[j].key = k
<1>1. \A k \in Keys : SetStep(k, None) \in Steps
  BY StepFacts, StorableValues
<1>2. /\ "slot_a" \in Keys /\ "slot_b" \in Keys /\ "pointer" \in Keys /\ "meta" \in Keys
      /\ "manual_lock" \in Keys /\ "password_cache" \in Keys
  BY DEF Keys, VaultKeys, Slots, LegacyKeys
<1>3. DestroyPlan \in Seq(Steps)
  BY <1>1, <1>2 DEF DestroyPlan
<1>4. Len(DestroyPlan) = 6
  BY DEF DestroyPlan
<1>5. \A j \in 1..6 : DestroyPlan[j].key \in Keys /\ DestroyPlan[j].op = "set" /\ DestroyPlan[j].value = None
  BY <1>2 DEF DestroyPlan, SetStep
<1>6. /\ DestroyPlan[1].key = "slot_a" /\ DestroyPlan[2].key = "slot_b" /\ DestroyPlan[3].key = "pointer"
      /\ DestroyPlan[4].key = "meta" /\ DestroyPlan[5].key = "manual_lock"
      /\ DestroyPlan[6].key = "password_cache"
  BY DEF DestroyPlan, SetStep
<1>7. \A k \in Keys : \E j \in 1..6 : DestroyPlan[j].key = k
  <2>1. \A k \in Keys : \/ k = "slot_a" \/ k = "slot_b" \/ k = "pointer" \/ k = "meta"
                        \/ k = "manual_lock" \/ k = "password_cache"
    BY DEF Keys, VaultKeys, Slots, LegacyKeys
  <2> QED BY <1>6, <2>1
<1> QED BY <1>3, <1>4, <1>5, <1>7

OfSession(t) == tasks[t].kind \in {"create", "unlock", "save", "password"}

(* What was settled for an operation stays settled while nothing is written. *)
LEMMA QuietProgress ==
  ASSUME TypeOK, Quiet, NEW t \in TaskIds, tasks[t] \in Tasks, Progress(t),
         tasks[t].kind \in {"unlock", "save"} => tasks[t].session \in SessionIds,
         tasks'[t].kind = tasks[t].kind, tasks'[t].session = tasks[t].session,
         tasks'[t].plan = tasks[t].plan, tasks'[t].got = tasks[t].got,
         OfSession(t) => OwnSession(t)' = OwnSession(t),
         \A k \in VaultKeys : tasks[t].plan = <<>> /\ reads'[t][k] = None => reads[t][k] = None
  PROVE  Progress(t)'
<1>1. PICK x : x = OwnSession(t)
  OBVIOUS
<1>2. OfSession(t) => OwnSession(t)' = x
  BY <1>1
<1>3. "slot_a" \in VaultKeys /\ "slot_b" \in VaultKeys /\ "meta" \in VaultKeys
      /\ "pointer" \in VaultKeys
  BY KeyFacts
<1>4. ASSUME tasks[t].kind \in {"unlock", "save"}
      PROVE  /\ Unlocked(x) => x.vault.slot \in VaultKeys /\ Other(x.vault.slot) \in VaultKeys
             /\ x.pending # None => x.pending.slot \in VaultKeys
  <2>1. x \in SessionRecords
    BY <1>1, <1>4 DEF TypeOK, OwnSession
  <2>2. /\ Unlocked(x) => x.vault.slot \in Slots
        /\ x.pending # None => x.pending.slot \in Slots
    BY <2>1 DEF SessionRecords, OpenVaults, PendingSaves, Unlocked
  <2> QED BY <2>2, KeyFacts, OtherSlot
<1>5. OfSession(t) /\ CreateChecks(t) => CreateChecks(t)'
  <2> SUFFICES ASSUME OfSession(t), CreateChecks(t), NEW slot \in Slots, NEW a \in Might(slot)', a # None
               PROVE  a.key < ops'
    BY DEF CreateChecks
  <2>1. a \in Might(slot) /\ slot \in Keys
    BY KeyFacts DEF Quiet
  <2>2. a \in SealedSlots
    BY <2>1, MightFacts, StorableValues
  <2> QED BY <2>1, <2>2, PoolAssumption DEF CreateChecks, Quiet, SealedSlots, Names, TypeOK
<1>6. OfSession(t) /\ CreateStores(t) => CreateStores(t)'
  BY <1>1, <1>2, <1>3 DEF CreateStores, MetadataStored, Quiet
<1>7. OfSession(t) /\ UnlockReads(t) => UnlockReads(t)'
  BY <1>3 DEF UnlockReads, Quiet
<1>8. tasks[t].kind = "unlock" /\ UnlockRepairs(t) => UnlockRepairs(t)'
  <2> SUFFICES ASSUME tasks[t].kind = "unlock", UnlockRepairs(t) PROVE UnlockRepairs(t)'
    OBVIOUS
  <2>1. Mutable(x) /\ VersionStored(x) /\ ContentStored(x) /\ MetadataStored(x) /\ Unlocked(x)
    BY <1>1 DEF UnlockRepairs, Mutable
  <2>2. VersionStored(x)' /\ ContentStored(x)' /\ MetadataStored(x)'
    BY <1>3, <1>4, <2>1 DEF VersionStored, ContentStored, MetadataStored, Quiet
  <2> QED BY <1>1, <1>2, <2>1, <2>2 DEF UnlockRepairs, OfSession
<1>9. tasks[t].kind = "save" /\ SaveInv(t) => SaveInv(t)'
  <2> SUFFICES ASSUME tasks[t].kind = "save", SaveInv(t) PROVE SaveInv(t)'
    OBVIOUS
  <2>1. x.pending # None /\ x.change = None /\ IsNextSlot(x, x.pending.slot, x.pending.sealed)
    BY <1>1 DEF SaveInv
  <2>2. x.pending.slot \in VaultKeys
    BY <1>4, <2>1
  <2>3. PICK n \in 1..4 :
          /\ tasks[t].plan = From(SavePlan(x.pending.slot, x.pending.sealed), n)
          /\ x.pending.verified = (n > 2)
          /\ n > 1 => \A b \in Might(x.pending.slot) : b = x.pending.sealed
          /\ n = 4 => \A p \in Might("pointer") : p = PointerTo(x.pending.slot, x.pending.sealed)
    BY <1>1 DEF SaveInv
  <2>4. /\ n > 1 => \A b \in Might(x.pending.slot)' : b = x.pending.sealed
        /\ n = 4 => \A p \in Might("pointer")' : p = PointerTo(x.pending.slot, x.pending.sealed)
    BY <1>3, <2>2, <2>3 DEF Quiet
  <2> QED BY <1>1, <1>2, <2>1, <2>3, <2>4 DEF SaveInv, OfSession
<1>10. OfSession(t) /\ ChangeInv(t) => ChangeInv(t)'
  BY <1>1, <1>2, <1>3 DEF ChangeInv, Quiet
<1>11. DestroyInv(t) => DestroyInv(t)'
  <2> SUFFICES ASSUME DestroyInv(t) PROVE DestroyInv(t)'
    OBVIOUS
  <2>1. PICK n \in 1..6 : /\ tasks[t].plan = From(DestroyPlan, n)
                          /\ \A j \in 1..(n - 1) : \A v \in Might(DestroyPlan[j].key) : v = None
    BY DEF DestroyInv
  <2>2. \A j \in 1..(n - 1) : DestroyPlan[j].key \in Keys
    BY PlanFacts
  <2>3. \A j \in 1..(n - 1) : \A v \in Might(DestroyPlan[j].key)' : v = None
    BY <2>1, <2>2 DEF Quiet, Keys
  <2> QED BY <2>1, <2>3 DEF DestroyInv
<1> QED BY <1>5, <1>6, <1>7, <1>8, <1>9, <1>10, <1>11 DEF Progress, OfSession

Kept(u) == /\ Live(u)
           /\ tasks'[u].kind = tasks[u].kind /\ tasks'[u].session = tasks[u].session
           /\ tasks'[u].plan = tasks[u].plan /\ tasks'[u].got = tasks[u].got
           /\ OfSession(u) => OwnSession(u)' = OwnSession(u)
           /\ \A k \in VaultKeys : tasks[u].plan = <<>> /\ reads'[u][k] = None => reads[u][k] = None

(* A step that writes nothing leaves the storage's part of the invariant alone. *)
LEMMA QuietStep ==
  ASSUME ClientInv, Quiet, TypeOK', StructInv', OnScreen', PendingIsTask', ReportedInv',
         \/ UnownedInv'
         \/ ~owned /\ (ending' = "no" \/ screen' = "onboarding")
              => ending = "no" \/ screen = "onboarding",
         current' # None /\ Unlocked(sessions'[current']) =>
           current' = current /\ sessions'[current] = sessions[current],
         \A u \in TaskIds : Live(u)' => Kept(u) \/ Progress(u)'
  PROVE  ClientInv'
<1>1. SlotsInv' /\ OwnedInv' /\ UnownedInv'
  BY QuietStorage DEF ClientInv
<1>2. CurrentInv'
  BY QuietCurrent DEF ClientInv
<1>3. ASSUME NEW u \in TaskIds, Live(u)', Kept(u) PROVE Progress(u)'
  <2>1. tasks[u] \in Tasks /\ Progress(u)
    BY <1>3 DEF ClientInv, TypeOK, Kept, Live, ProgressInv
  <2>2. tasks[u].kind \in {"unlock", "save"} => tasks[u].session \in SessionIds
    BY <1>3 DEF ClientInv, SessionsApart, Running, Kept, Live
  <2> QED BY <1>3, <2>1, <2>2, QuietProgress DEF Kept, ClientInv
<1>4. ProgressInv'
  BY <1>3 DEF ProgressInv
<1> QED BY <1>1, <1>2, <1>4 DEF ClientInv, StructInv

LEMMA InvParts == ClientInv => StructInv
BY DEF ClientInv, StructInv

LEMMA StepHostWrites ==
  ASSUME ClientInv, NEW k \in Keys, HostWrites(k)
  PROVE  ClientInv'
<1>1. TypeOK
  BY DEF ClientInv
<1>2. UNCHANGED <<tasks, sessions, current, screen, ops, owned, acked, passwords, ending>>
  BY DEF HostWrites, ui, known
<1>3. TypeOK'
  BY <1>1, <1>2, HostFacts DEF TypeOK
<1>4. Quiet
  BY <1>1, <1>2, HostFacts, KeyFacts, PoolAssumption DEF Quiet, TypeOK, Names
<1>5. \A u \in TaskIds : (Live(u)' <=> Live(u)) /\ OwnSession(u)' = OwnSession(u)
  BY <1>2 DEF Live, OwnSession
<1>6. ReadsLast'
  BY <1>1, <1>5, HostFacts DEF ReadsLast, ClientInv
<1>7. StructInv' /\ OnScreen' /\ PendingIsTask'
  BY <1>2, <1>5, <1>6 DEF ClientInv, StructInv, OneLive, ReadsBack, Alone, OnScreen, SessionsApart,
                          PendingIsTask, Running, ComingUp
<1>8. ReportedInv'
  BY <1>1, <1>2, HostFacts DEF ClientInv, ReportedInv
<1>9. \A u \in TaskIds : Live(u) => Kept(u)
  <2> SUFFICES ASSUME NEW u \in TaskIds, Live(u), NEW j \in VaultKeys, reads'[u][j] = None
               PROVE  reads[u][j] = None
    BY <1>2, <1>5 DEF Kept
  <2>1. /\ reads'[u][j] = IF j = k /\ reads[u][j] # None THEN reads[u][j] - 1 ELSE reads[u][j]
        /\ j = k => reads[u][j] # 0
    BY <1>1, KeyFacts DEF TypeOK, HostWrites
  <2>2. reads[u][j] \in Nat \cup {None}
    BY <1>1, KeyFacts DEF TypeOK
  <2> QED BY <2>1, <2>2, NoneIsNothing
<1> QED BY <1>2, <1>3, <1>4, <1>5, <1>7, <1>8, <1>9, QuietStep

-----------------------------------------------------------------------------
(* Steps that end operations and lock sessions *)
LEMMA EndStep ==
  ASSUME ClientInv, TypeOK', OnScreen', PendingIsTask', ReportedInv',
         UNCHANGED <<media, writes, ops, owned, acked, passwords>>,
         \A u \in TaskIds : tasks'[u] # None =>
           /\ Surviving(u)
           /\ Live(u)' /\ OfSession(u) => OwnSession(u)' = OwnSession(u),
         \A i \in SessionIds : Unlocked(sessions[i])' => i = current' \/ ComingUp(i)',
         Running({"destroy", "cleanup"})' # {} => \A i \in SessionIds : ~Unlocked(sessions[i])',
         \/ UnownedInv'
         \/ ~owned /\ (ending' = "no" \/ screen' = "onboarding")
              => ending = "no" \/ screen = "onboarding",
         current' # None /\ Unlocked(sessions'[current']) =>
           current' = current /\ sessions'[current] = sessions[current]
  PROVE  ClientInv'
<1>1. StructInv'
  BY SomeEnd, InvParts
<1>2. Quiet
  BY SameMight, KeyFacts, PoolAssumption DEF Quiet, ClientInv, TypeOK, Names
<1>3. \A u \in TaskIds : Live(u)' => Kept(u)
  BY DEF Kept, Surviving, Live
<1> QED BY <1>1, <1>2, <1>3, QuietStep

LEMMA NoSessionFacts ==
  /\ NoSession \in SessionRecords /\ ~Unlocked(NoSession)
  /\ NoSession.vault = None /\ NoSession.metadata = None
  /\ NoSession.pending = None /\ NoSession.change = None
BY DEF NoSession, SessionRecords, Unlocked

LEMMA LockCurrentStep ==
  ASSUME ClientInv, NEW ss \in [SessionIds -> SessionRecords],
         NEW ts \in [TaskIds -> Tasks \cup {None}], LockCurrent(ss, ts),
         UNCHANGED <<media, writes, ops, owned, acked, passwords, ending>>,
         reads' \in [TaskIds -> [Keys -> Nat \cup {None}]],
         \A u \in TaskIds :
           \/ ts[u] = tasks[u] /\ reads'[u] = reads[u]
           \/ /\ ts[u] = None /\ tasks[u] # None /\ tasks[u].kind \in {"save", "password"}
              /\ tasks[u].session = current \/ ~Unlocked(OwnSession(u)),
         \A i \in SessionIds : i # current => ss[i] = sessions[i],
         screen \in {"vault", "locked"}
  PROVE  ClientInv'
<1>1. TypeOK
  BY DEF ClientInv
<1>2. /\ tasks' \in [TaskIds -> Tasks \cup {None}]
      /\ \A u \in TaskIds : tasks'[u] # None =>
           /\ ts[u] # None /\ ts[u] = tasks[u] /\ reads'[u] = reads[u]
           /\ tasks'[u].kind = tasks[u].kind /\ tasks'[u].session = tasks[u].session
           /\ tasks'[u].plan = tasks[u].plan /\ tasks'[u].got = tasks[u].got
      /\ \A u \in TaskIds : ts[u] # None => tasks'[u] # None
  BY RenderedFacts DEF LockCurrent
<1>3. /\ sessions' \in [SessionIds -> SessionRecords]
      /\ \A i \in SessionIds : sessions'[i] = IF i = current THEN NoSession ELSE sessions[i]
  BY <1>1, NoSessionFacts, NoneIsNothing DEF LockCurrent, SessionLocked, Locked, TypeOK
<1>4. current' = None /\ screen' = "locked"
  BY DEF LockCurrent
<1>5. TypeOK'
  BY <1>1, <1>2, <1>3, <1>4 DEF TypeOK
<1>6. \A u \in TaskIds : tasks'[u] # None =>
        /\ Surviving(u)
        /\ Live(u)' /\ OfSession(u) => OwnSession(u)' = OwnSession(u)
  <2> SUFFICES ASSUME NEW u \in TaskIds, tasks'[u] # None
               PROVE  /\ Surviving(u)
                      /\ Live(u)' /\ OfSession(u) => OwnSession(u)' = OwnSession(u)
    OBVIOUS
  <2>1. tasks[u] # None /\ tasks[u] \in Tasks /\ tasks'[u] \in Tasks
    BY <1>1, <1>2 DEF TypeOK
  <2>2. OfSession(u) => tasks[u].session \in SessionIds
    BY <2>1 DEF OfSession, ClientInv, SessionsApart, Running
  <2>3. OfSession(u) =>
          OwnSession(u)' = IF tasks[u].session = current THEN NoSession ELSE OwnSession(u)
    BY <1>2, <1>3, <2>2 DEF OwnSession
  <2>4. OfSession(u) => (Unlocked(OwnSession(u))' => Unlocked(OwnSession(u)))
    BY <2>3, NoSessionFacts
  <2>5. Surviving(u)
    BY <1>2, <2>1, <2>4 DEF Surviving, OfSession
  <2>6. tasks[u].kind \in {"create", "unlock"} => tasks[u].session # current
    BY <2>1, <2>2, NoneIsNothing DEF ClientInv, OnScreen, Running, OfSession
  <2>7. Live(u)' /\ OfSession(u) => OwnSession(u)' = OwnSession(u)
    BY <1>2, <2>1, <2>3, <2>6, NoSessionFacts DEF Live, OfSession
  <2> QED BY <2>5, <2>7
<1>7. \A kinds : /\ \A u \in Running(kinds)' : u \in Running(kinds)
                 /\ \A u \in Running(kinds) : ts[u] # None => u \in Running(kinds)'
  BY <1>2 DEF Running
<1>8. \A i \in SessionIds : Unlocked(sessions'[i]) => ComingUp(i)'
  <2> SUFFICES ASSUME NEW i \in SessionIds, Unlocked(sessions'[i]) PROVE ComingUp(i)'
    OBVIOUS
  <2>1. i # current /\ Unlocked(sessions[i])
    BY <1>3, NoSessionFacts
  <2>2. PICK u \in Running({"create", "unlock"}) : tasks[u].session = i
    BY <2>1 DEF ClientInv, SessionsApart, ComingUp
  <2>3. ts[u] # None /\ tasks[u].kind \in {"create", "unlock"} /\ u \in TaskIds
    BY <2>2 DEF Running
  <2>4. u \in Running({"create", "unlock"})' /\ tasks'[u].session = i
    BY <1>2, <1>7, <2>2, <2>3
  <2> QED BY <2>4 DEF ComingUp
<1>9. Running({"destroy", "cleanup"})' # {} => \A i \in SessionIds : ~Unlocked(sessions'[i])
  BY <1>3, <1>7, NoSessionFacts DEF ClientInv, SessionsApart
<1>10. OnScreen'
  BY <1>4, <1>7 DEF ClientInv, OnScreen
<1>11. PendingIsTask'
  <2> SUFFICES ASSUME NEW i \in SessionIds, i # current, sessions[i].pending # None \/ sessions[i].change # None
               PROVE FALSE
    BY <1>3, NoSessionFacts DEF PendingIsTask
  <2>1. Unlocked(sessions[i])
    BY <1>1, NoSessionFacts DEF TypeOK
  <2>2. PICK u \in Running({"create", "unlock"}) : tasks[u].session = i
    BY <2>1 DEF ClientInv, SessionsApart, ComingUp
  <2>3. Live(u) /\ u \in TaskIds /\ tasks[u].kind \in {"create", "unlock"}
    BY <2>2 DEF Running, Live
  <2>4. CreateStores(u) \/ UnlockRepairs(u)
    BY <2>1, <2>2, <2>3, NoSessionFacts
       DEF ClientInv, ProgressInv, Progress, CreateChecks, UnlockReads, OwnSession
  <2> QED BY <2>2, <2>4 DEF CreateStores, UnlockRepairs, Session, Mutable, OwnSession
<1>12. ReportedInv'
  BY <1>1 DEF ClientInv, ReportedInv
<1> QED BY <1>4, <1>5, <1>6, <1>8, <1>9, <1>10, <1>11, <1>12, EndStep

LEMMA StepLock ==
  ASSUME ClientInv, Lock \/ Refused
  PROVE  ClientInv'
<1>1. /\ LockCurrent(sessions, tasks) /\ current # None
      /\ UNCHANGED <<media, writes, reads, ops, owned, acked, passwords, ending>>
  BY DEF Lock, Refused, InVault, storage, known
<1>2. screen = "vault"
  BY <1>1 DEF ClientInv, OnScreen
<1> QED BY <1>1, <1>2, LockCurrentStep DEF ClientInv, TypeOK

(* A save or password change that is not of the current session is of a locked one. *)
LEMMA StaleIsLocked ==
  ASSUME ClientInv, NEW t \in Running({"save", "password"})
  PROVE  /\ t \in TaskIds /\ tasks[t] # None /\ tasks[t].session \in SessionIds
         /\ Unlocked(OwnSession(t)) => tasks[t].session = current
         /\ tasks[t].session # current => OwnSession(t) = NoSession
<1>1. t \in TaskIds /\ tasks[t] # None /\ tasks[t].kind \in {"save", "password"}
  BY DEF Running
<1>2. tasks[t].session \in SessionIds
  BY DEF ClientInv, SessionsApart, Running
<1>3. ASSUME Unlocked(OwnSession(t)), tasks[t].session # current PROVE FALSE
  <2>1. ComingUp(tasks[t].session)
    BY <1>2, <1>3 DEF ClientInv, SessionsApart, OwnSession
  <2>2. PICK u \in Running({"create", "unlock"}) : tasks[u].session = tasks[t].session
    BY <2>1 DEF ComingUp
  <2>3. u # t
    BY <1>1, <2>2 DEF Running
  <2> QED BY <1>1, <2>2, <2>3 DEF ClientInv, SessionsApart
<1> QED BY <1>1, <1>2, <1>3 DEF ClientInv, TypeOK, OwnSession

LEMMA WithoutFacts ==
  ASSUME TypeOK, NEW t \in TaskIds
  PROVE  /\ Without(t) \in [TaskIds -> Tasks \cup {None}] /\ Without(t)[t] = None
         /\ \A u \in TaskIds : u # t => Without(t)[u] = tasks[u]
BY DEF TypeOK, Without

LEMMA CallsNothingFacts ==
  ASSUME TypeOK, NEW t \in TaskIds, CallsNothing(t)
  PROVE  /\ reads' \in [TaskIds -> [Keys -> Nat \cup {None}]] /\ writes' = writes
         /\ \A u \in TaskIds : u # t => reads'[u] = reads[u]
BY DEF TypeOK, CallsNothing, NoReads

(* Another operation ends: one of a session with its session locked. *)
LEMMA TaskEnds ==
  ASSUME ClientInv, NEW t \in TaskIds, tasks[t] # None, CallsNothing(t), tasks' = Without(t),
         UNCHANGED <<media, current, ops, owned, acked, passwords, ending>>,
         \/ /\ tasks[t].kind \in {"create", "unlock"} /\ screen' = screen
            /\ sessions' = SessionLocked(sessions, tasks[t].session)
         \/ /\ tasks[t].kind \in {"destroy", "cleanup"} /\ UNCHANGED <<screen, sessions>>
         \/ /\ tasks[t].kind = "initialize" /\ sessions' = sessions
            /\ \/ screen' \in {"locked", "unsupported"} /\ (screen' = "locked" => media["meta"] # None)
               \/ screen' = "onboarding" /\ reads[t]["meta"] = 0 /\ media["meta"] = None
  PROVE  ClientInv'
<1>1. TypeOK
  BY DEF ClientInv
<1>2. Live(t)
  BY DEF Live
<1>3. /\ sessions' \in [SessionIds -> SessionRecords]
      /\ \A i \in SessionIds : \/ sessions'[i] = sessions[i]
                               \/ /\ tasks[t].kind \in {"create", "unlock"} /\ i = tasks[t].session
                                  /\ sessions'[i] = NoSession
      /\ tasks[t].kind \in {"create", "unlock"} => sessions'[tasks[t].session] = NoSession
  <2>1. tasks[t].kind \in {"create", "unlock"} => tasks[t].session \in SessionIds
    BY DEF ClientInv, SessionsApart, Running
  <2> QED BY <1>1, <2>1, NoSessionFacts, NoneIsNothing DEF TypeOK, SessionLocked, Locked
<1>4. screen' \in {"loading", "onboarding", "locked", "vault", "unsupported"}
  BY <1>1 DEF TypeOK
<1>5. TypeOK'
  BY <1>1, <1>3, <1>4, WithoutFacts, CallsNothingFacts DEF TypeOK
<1>6. /\ tasks'[t] = None
      /\ \A u \in TaskIds : u # t => tasks'[u] = tasks[u] /\ reads'[u] = reads[u]
  BY <1>1, WithoutFacts, CallsNothingFacts
<1>7. \A kinds : /\ \A u \in Running(kinds)' : u \in Running(kinds) /\ u # t /\ tasks'[u] = tasks[u]
                 /\ \A u \in Running(kinds) : u # t => u \in Running(kinds)'
  BY <1>6 DEF Running
<1>8. \A u \in TaskIds : tasks'[u] # None =>
        /\ Surviving(u)
        /\ Live(u)' /\ OfSession(u) => OwnSession(u)' = OwnSession(u)
  <2> SUFFICES ASSUME NEW u \in TaskIds, tasks'[u] # None
               PROVE  Surviving(u) /\ (OfSession(u) => OwnSession(u)' = OwnSession(u))
    OBVIOUS
  <2>1. u # t /\ tasks'[u] = tasks[u] /\ reads'[u] = reads[u]
    BY <1>6
  <2>2. OfSession(u) => tasks[u].session \in SessionIds
    BY <2>1 DEF OfSession, ClientInv, SessionsApart, Running
  <2>3. tasks[t].kind \in {"create", "unlock"} => tasks[u].session # tasks[t].session
    BY <2>1 DEF ClientInv, SessionsApart, Running
  <2>4. OfSession(u) => OwnSession(u)' = OwnSession(u)
    BY <1>3, <2>1, <2>2, <2>3 DEF OwnSession
  <2> QED BY <2>1, <2>4 DEF Surviving, OfSession
<1>9. \A i \in SessionIds : Unlocked(sessions'[i]) => i = current \/ ComingUp(i)'
  <2> SUFFICES ASSUME NEW i \in SessionIds, Unlocked(sessions'[i]), i # current PROVE ComingUp(i)'
    OBVIOUS
  <2>1. Unlocked(sessions[i]) /\ sessions'[i] = sessions[i]
    BY <1>3, NoSessionFacts
  <2>2. PICK u \in Running({"create", "unlock"}) : tasks[u].session = i
    BY <2>1 DEF ClientInv, SessionsApart, ComingUp
  <2>3. u # t
    BY <1>3, <2>1, <2>2, NoSessionFacts DEF Running
  <2> QED BY <1>7, <2>2, <2>3 DEF ComingUp
<1>10. Running({"destroy", "cleanup"})' # {} => \A i \in SessionIds : ~Unlocked(sessions'[i])
  BY <1>3, <1>7, NoSessionFacts DEF ClientInv, SessionsApart
<1>11. tasks[t].kind = "initialize" => screen = "loading" /\ current = None
                                       /\ \A kinds : Running(kinds)' = {}
  <2>1. tasks[t].kind = "initialize" => screen = "loading"
    BY DEF ClientInv, OnScreen, Running
  <2>2. tasks[t].kind = "initialize" => \A u \in TaskIds : tasks'[u] = None
    BY <1>6 DEF ClientInv, Alone, Running
  <2> QED BY <2>1, <2>2 DEF ClientInv, OnScreen, Running
<1>12. screen' = "onboarding" /\ tasks[t].kind = "initialize" => ~owned /\ \A m \in Might("meta") : m = None
  <2> SUFFICES ASSUME screen' = "onboarding", tasks[t].kind = "initialize"
               PROVE  ~owned /\ \A m \in Might("meta") : m = None
    OBVIOUS
  <2>1. Might("meta") = {None}
    BY <1>1, <1>2, AnswerSettles, KeyFacts DEF ClientInv
  <2>2. ASSUME owned PROVE FALSE
    <3>1. PICK slot \in Slots : VaultAt(slot)
      BY <2>2 DEF ClientInv, OwnedInv
    <3>2. media[slot] \in Might(slot)
      BY <1>1, MightFacts, KeyFacts
    <3> QED BY <2>1, <3>1, <3>2 DEF VaultAt
  <2> QED BY <2>1, <2>2
<1>13. OnScreen'
  BY <1>7, <1>11, <1>12 DEF ClientInv, OnScreen
<1>14. PendingIsTask'
  <2> SUFFICES ASSUME NEW i \in SessionIds
      PROVE  /\ sessions'[i].pending # None => \E u \in Running({"save"})' : tasks'[u].session = i
             /\ sessions'[i].change # None => \E u \in Running({"password"})' : tasks'[u].session = i
    BY DEF PendingIsTask
  <2>1. t \notin Running({"save"}) /\ t \notin Running({"password"})
    BY DEF Running
  <2> QED BY <1>3, <1>7, <2>1, NoSessionFacts DEF ClientInv, PendingIsTask
<1>15. ReportedInv'
  <2> SUFFICES ASSUME ending = "reported" PROVE ReportedInv'
    BY DEF ReportedInv
  <2>1. /\ ~owned /\ tasks[t].kind = "initialize" /\ \A k \in Keys : \A v \in Might(k) : v = None
    BY DEF ClientInv, ReportedInv
  <2>2. media["meta"] = None
    BY <1>1, <2>1, MightFacts, KeyFacts
  <2>3. \A k \in Keys : Might(k)' = Might(k)
    BY <1>1, SameMight, CallsNothingFacts
  <2>4. \A u \in TaskIds : tasks'[u] = None
    BY <1>6, <2>1 DEF ClientInv, Alone, Running
  <2>5. screen' \in {"onboarding", "unsupported"}
    BY <2>1, <2>2
  <2> QED BY <2>1, <2>3, <2>4, <2>5 DEF ReportedInv
<1>16. \/ UnownedInv'
       \/ ~owned /\ (ending = "no" \/ screen' = "onboarding") => ending = "no" \/ screen = "onboarding"
  <2> SUFFICES ASSUME screen' = "onboarding", screen # "onboarding" PROVE UnownedInv'
    OBVIOUS
  <2>1. tasks[t].kind = "initialize"
    OBVIOUS
  <2>2. \A m \in Might("meta")' : m = None
    BY <1>1, <1>12, <2>1, SameMight, CallsNothingFacts, KeyFacts
  <2> QED BY <2>2 DEF UnownedInv
<1>17. current' # None /\ Unlocked(sessions'[current']) =>
         current' = current /\ sessions'[current] = sessions[current]
  BY <1>1, <1>3, NoSessionFacts DEF TypeOK
<1>18. writes' = writes
  BY <1>1, CallsNothingFacts
<1> QED BY <1>5, <1>8, <1>9, <1>10, <1>13, <1>14, <1>15, <1>16, <1>17, <1>18, EndStep

-----------------------------------------------------------------------------
(* An operation goes on: what it calls, and what the others are told apart by *)
LEMMA TaskContinues ==
  ASSUME ClientInv, TypeOK', NEW t \in TaskIds, tasks[t] # None, tasks'[t] # None,
         UNCHANGED <<current, screen, owned, ending>>,
         \A u \in TaskIds : u # t => tasks'[u] = tasks[u] /\ reads'[u] = reads[u],
         tasks'[t].session = tasks[t].session,
         \/ tasks'[t].kind = tasks[t].kind
         \/ tasks[t].kind = "destroy" /\ tasks'[t].kind = "cleanup",
         Live(t) => \A k \in Keys : reads'[t][k] \in {None, Len(writes'[k])},
         Live(t) \/ writes' = writes,
         tasks[t].kind \in {"save", "password"} =>
           /\ tasks'[t].plan # <<>>
           /\ \A j \in DOMAIN tasks'[t].plan :
                tasks'[t].plan[j].op = "set" => /\ j < Len(tasks'[t].plan)
                                                /\ tasks'[t].plan[j + 1].op = "get",
         \A i \in SessionIds :
           \/ sessions'[i] = sessions[i]
           \/ /\ i = tasks[t].session /\ OfSession(t) /\ Live(t)
              /\ tasks[t].kind \in {"save", "password"} => Unlocked(sessions'[i])
              /\ sessions'[i].pending # None => sessions[i].pending # None
              /\ sessions'[i].change # None => sessions[i].change # None
  PROVE  /\ StructInv' /\ OnScreen' /\ PendingIsTask'
         /\ Live(t)' => Live(t)
         /\ \A u \in TaskIds : Live(u)' /\ u # t => Live(u) /\ ~Live(t)
<1>1. TypeOK
  BY DEF ClientInv
<1>2. \A u \in TaskIds : tasks'[u] # None <=> tasks[u] # None
  OBVIOUS
<1>3. \A u \in TaskIds : u # t => tasks'[u] = tasks[u]
  OBVIOUS
<1>4. \A kinds : \A u \in TaskIds :
        /\ u \in Running(kinds)' => \/ u \in Running(kinds)
                                    \/ u = t /\ "cleanup" \in kinds /\ tasks[t].kind = "destroy"
        /\ u \in Running(kinds) => \/ u \in Running(kinds)'
                                   \/ u = t /\ "destroy" \in kinds /\ tasks[t].kind = "destroy"
  BY <1>2, <1>3 DEF Running
<1>5. \A u \in Running({"save", "password"})' : /\ u \in Running({"save", "password"}) /\ u \in TaskIds
                                               /\ tasks[u].session \in SessionIds
  BY <1>4 DEF ClientInv, SessionsApart, Running
<1>6. \A u \in TaskIds : Live(u)' => Live(u)
  <2> SUFFICES ASSUME NEW u \in TaskIds, tasks[u] # None, tasks'[u].kind \in {"save", "password"},
                      Unlocked(OwnSession(u))'
               PROVE  Unlocked(OwnSession(u))
    BY <1>2, <1>3 DEF Live
  <2>1. tasks'[u].kind = tasks[u].kind /\ tasks'[u].session = tasks[u].session
    BY <1>3
  <2>2. tasks[u].session \in SessionIds
    BY <2>1 DEF ClientInv, SessionsApart, Running
  <2>3. CASE sessions'[tasks[u].session] = sessions[tasks[u].session]
    BY <2>1, <2>3 DEF OwnSession
  <2>4. CASE tasks[u].session = tasks[t].session /\ OfSession(t) /\ Live(t)
    <3>1. tasks[t].kind \in {"create", "unlock"} => FALSE
      BY <2>1, <2>4 DEF ClientInv, SessionsApart, Running
    <3> QED BY <2>4, <3>1 DEF OfSession, Live, OwnSession
  <2> QED BY <2>2, <2>3, <2>4
<1>7. OneLive'
  BY <1>6 DEF ClientInv, OneLive
<1>8. \A u \in TaskIds : Live(u)' /\ u # t => Live(u) /\ ~Live(t)
  BY <1>6 DEF ClientInv, OneLive
<1>9. ReadsLast'
  BY <1>6, <1>8 DEF ClientInv, ReadsLast
<1>10. ReadsBack'
  BY <1>3, <1>5 DEF ClientInv, ReadsBack, Running
<1>11. Alone'
  BY <1>2, <1>4 DEF ClientInv, Alone, Running
<1>12. \A i \in SessionIds : Unlocked(sessions'[i]) => i = current \/ ComingUp(i)'
  <2> SUFFICES ASSUME NEW i \in SessionIds, Unlocked(sessions'[i]), i # current PROVE ComingUp(i)'
    OBVIOUS
  <2>1. ComingUp(i)
    <3>1. CASE sessions'[i] = sessions[i]
      BY <3>1 DEF ClientInv, SessionsApart
    <3>2. CASE i = tasks[t].session /\ tasks[t].kind \in {"create", "unlock"}
      BY <3>2 DEF ComingUp, Running
    <3>3. CASE i = tasks[t].session /\ tasks[t].kind \in {"save", "password"} /\ Live(t)
      BY <3>3 DEF ClientInv, SessionsApart, Live, OwnSession
    <3> QED BY <3>1, <3>2, <3>3 DEF OfSession
  <2>2. PICK u \in Running({"create", "unlock"}) : tasks[u].session = i
    BY <2>1 DEF ComingUp
  <2>3. u \in Running({"create", "unlock"})' /\ tasks'[u].session = i
    BY <1>3, <1>4, <2>2 DEF Running
  <2> QED BY <2>3 DEF ComingUp
<1>13. SessionsApart'
  <2>1. \A u \in Running({"create", "unlock", "save", "password"})' : tasks'[u].session \in SessionIds
    BY <1>3, <1>4 DEF ClientInv, SessionsApart, Running
  <2>2. \A v \in Running({"create", "unlock"})', u \in TaskIds :
          tasks'[u] # None /\ u # v => tasks'[u].session # tasks'[v].session
    BY <1>2, <1>3, <1>4 DEF ClientInv, SessionsApart, Running
  <2>3. ASSUME NEW v \in Running({"destroy", "cleanup"})', NEW i \in SessionIds
        PROVE  ~Unlocked(sessions'[i])
    <3>1. v \in Running({"destroy", "cleanup"}) /\ v \in TaskIds /\ tasks[v] # None
      BY <1>2, <1>4, <2>3 DEF Running
    <3>2. v = t
      BY <3>1 DEF ClientInv, Alone, Running
    <3> QED BY <3>1, <3>2 DEF ClientInv, SessionsApart, OfSession, Running
  <2> QED BY <1>12, <2>1, <2>2, <2>3 DEF SessionsApart
<1>14. OnScreen'
  BY <1>4 DEF ClientInv, OnScreen, Running
<1>15. PendingIsTask'
  <2> SUFFICES ASSUME NEW i \in SessionIds
      PROVE  /\ sessions'[i].pending # None => \E u \in Running({"save"})' : tasks'[u].session = i
             /\ sessions'[i].change # None => \E u \in Running({"password"})' : tasks'[u].session = i
    BY DEF PendingIsTask
  <2>1. \A kind \in {"save", "password"} : \A u \in Running({kind}) :
          u \in Running({kind})' /\ tasks'[u].session = tasks[u].session
    BY <1>3, <1>4 DEF Running
  <2>2. /\ sessions'[i].pending # None => \E u \in Running({"save"}) : tasks[u].session = i
        /\ sessions'[i].change # None => \E u \in Running({"password"}) : tasks[u].session = i
    BY DEF ClientInv, PendingIsTask
  <2> QED BY <2>1, <2>2
<1> QED BY <1>6, <1>7, <1>8, <1>9, <1>10, <1>11, <1>13, <1>14, <1>15 DEF StructInv

-----------------------------------------------------------------------------
(* An operation that is under way when another session or another end than its own
   cannot come in between *)
LEMMA NotReported ==
  ASSUME ClientInv, NEW t \in TaskIds, tasks[t] # None, tasks[t].kind # "initialize"
  PROVE  ending # "reported"
BY DEF ClientInv, ReportedInv

LEMMA TaskPlan ==
  ASSUME TypeOK, NEW t \in TaskIds, tasks[t] # None
  PROVE  /\ tasks[t] \in Tasks /\ tasks[t].plan \in Seq(Steps)
         /\ tasks[t].plan # <<>> =>
              /\ StepOf(t) \in Steps /\ StepOf(t).key \in Keys
              /\ Tail(tasks[t].plan) \in Seq(Steps) /\ Len(tasks[t].plan) \in Nat \ {0}
              /\ Len(tasks[t].plan) > 1 => /\ Tail(tasks[t].plan) # <<>>
                                           /\ Head(Tail(tasks[t].plan)) = tasks[t].plan[2]
                                           /\ Head(Tail(tasks[t].plan)) \in Steps
              /\ \A j \in 1..Len(Tail(tasks[t].plan)) :
                   Tail(tasks[t].plan)[j] = tasks[t].plan[j + 1]
<1>1. tasks[t] \in Tasks /\ tasks[t].plan \in Seq(Steps)
  BY DEF TypeOK, Tasks
<1>2. PICK p \in Seq(Steps) : p = tasks[t].plan
  BY <1>1
<1>3. p # <<>> => /\ Head(p) \in Steps /\ Tail(p) \in Seq(Steps) /\ Len(p) \in Nat \ {0}
                  /\ \A j \in 1..Len(Tail(p)) : Tail(p)[j] = p[j + 1]
                  /\ Len(p) > 1 => Tail(p) # <<>> /\ Head(Tail(p)) = p[2] /\ Head(Tail(p)) \in Steps
  BY PlanParts
<1>4. Head(p) \in Steps => Head(p).key \in Keys
  BY DEF Steps
<1> QED BY <1>1, <1>2, <1>3, <1>4 DEF StepOf

(* The answer to the step an operation waits for, if it is live, settles its key. *)
LEMMA AnsweredStep ==
  ASSUME ClientInv, NEW t \in TaskIds, NEW op, AnswerTo(t, op)
  PROVE  /\ tasks[t] # None /\ tasks[t].plan # <<>> /\ StepOf(t) \in Steps
         /\ StepOf(t).key \in Keys /\ StepOf(t).op = op /\ Value(t) \in Storable(StepOf(t).key)
         /\ Live(t) => Might(StepOf(t).key) = {Value(t)}
<1>1. tasks[t] # None /\ tasks[t].plan # <<>> /\ StepOf(t).op = op /\ reads[t][StepOf(t).key] = 0
  BY DEF AnswerTo, Answer
<1>2. StepOf(t) \in Steps /\ StepOf(t).key \in Keys
  BY <1>1, TaskPlan DEF ClientInv
<1>3. Value(t) \in Storable(StepOf(t).key)
  BY <1>2 DEF ClientInv, TypeOK, Value
<1>4. Live(t) => Might(StepOf(t).key) = {Value(t)}
  BY <1>1, <1>2, AnswerSettles DEF ClientInv, Value
<1> QED BY <1>1, <1>2, <1>3, <1>4

(* An operation goes on without a write: what else it may do is told by its part. *)
LEMMA QuietContinues ==
  ASSUME ClientInv, TypeOK', NEW t \in TaskIds, tasks[t] # None, tasks'[t] # None,
         UNCHANGED <<media, writes, current, screen, ops, owned, acked, passwords, ending>>,
         \A u \in TaskIds : u # t => tasks'[u] = tasks[u] /\ reads'[u] = reads[u],
         tasks'[t].session = tasks[t].session, tasks'[t].kind = tasks[t].kind,
         Live(t) => \A k \in Keys : reads'[t][k] \in {None, Len(writes[k])},
         tasks[t].kind \in {"save", "password"} =>
           /\ tasks'[t].plan # <<>>
           /\ \A j \in DOMAIN tasks'[t].plan :
                tasks'[t].plan[j].op = "set" => /\ j < Len(tasks'[t].plan)
                                                /\ tasks'[t].plan[j + 1].op = "get",
         \/ sessions' = sessions
         \/ /\ tasks[t].session # current
            /\ OfSession(t) /\ Live(t) /\ tasks[t].kind \notin {"save", "password"}
            /\ sessions'[tasks[t].session].pending = None
            /\ sessions'[tasks[t].session].change = None
            /\ \A i \in SessionIds : i # tasks[t].session => sessions'[i] = sessions[i],
         Live(t) => Progress(t)'
  PROVE  ClientInv'
<1>1. /\ StructInv' /\ OnScreen' /\ PendingIsTask'
      /\ Live(t)' => Live(t)
      /\ \A u \in TaskIds : Live(u)' /\ u # t => Live(u) /\ ~Live(t)
  BY TaskContinues
<1>2. TypeOK
  BY DEF ClientInv
<1>3. Quiet
  BY <1>2, SameMight, KeyFacts, PoolAssumption DEF Quiet, TypeOK, Names
<1>4. ReportedInv'
  <2> SUFFICES ASSUME ending = "reported" PROVE ReportedInv'
    BY DEF ReportedInv
  <2>1. \A u \in TaskIds : tasks'[u] # None => tasks'[u].kind = "initialize"
    BY DEF ClientInv, ReportedInv
  <2> QED BY <2>1, SameMight DEF ClientInv, ReportedInv
<1>5. current' # None /\ Unlocked(sessions'[current]) =>
           current' = current /\ sessions'[current] = sessions[current]
  BY <1>2 DEF TypeOK
<1>6. \A u \in TaskIds : Live(u)' => Kept(u) \/ Progress(u)'
  <2> SUFFICES ASSUME NEW u \in TaskIds, Live(u)', u # t PROVE Kept(u)
    BY <1>1
  <2>1. Live(u) /\ ~Live(t) /\ tasks'[u] = tasks[u] /\ reads'[u] = reads[u] /\ sessions' = sessions
    BY <1>1
  <2> QED BY <2>1 DEF Kept, OwnSession
<1> QED BY <1>1, <1>2, <1>3, <1>4, <1>5, <1>6, QuietStep

LEMMA SavePlanFacts ==
  ASSUME NEW slot \in Slots, NEW sealed \in SealedSlots
  PROVE  LET p == SavePlan(slot, sealed) IN
         /\ p \in Seq(Steps) /\ Len(p) = 4
         /\ p[1] = SetStep(slot, sealed) /\ p[2] = GetStep(slot)
         /\ p[3] = SetStep("pointer", PointerTo(slot, sealed)) /\ p[4] = GetStep("pointer")
         /\ PointerTo(slot, sealed) \in Storable("pointer") /\ sealed \in Storable(slot)
         /\ \A j \in 1..4 : p[j] \in Steps /\ (p[j].op = "set" => p[j].value \in Storable(p[j].key))
         /\ \A j \in 1..4 : (p[j].op = "set") = (j \in {1, 3})
<1>1. PointerTo(slot, sealed) \in Storable("pointer") /\ sealed \in Storable(slot)
  BY StorableValues DEF PointerTo, Pointers, SealedSlots
<1>2. slot \in Keys /\ "pointer" \in Keys
  BY KeyFacts
<1>3. PICK a, b, c, d \in Steps :
        /\ a = SetStep(slot, sealed) /\ b = GetStep(slot)
        /\ c = SetStep("pointer", PointerTo(slot, sealed)) /\ d = GetStep("pointer")
        /\ a.op = "set" /\ a.value \in Storable(a.key) /\ b.op = "get"
        /\ c.op = "set" /\ c.value \in Storable(c.key) /\ d.op = "get"
  BY <1>1, <1>2, StepFacts
<1>4. SavePlan(slot, sealed) = <<a, b, c, d>>
  BY <1>3 DEF SavePlan
<1> QED BY <1>1, <1>3, <1>4

LEMMA ChangePlanFacts ==
  ASSUME NEW metadata \in Metadata
  PROVE  LET p == ChangePlan(metadata) IN
         /\ p \in Seq(Steps) /\ Len(p) = 2
         /\ p[1] = SetStep("meta", metadata) /\ p[2] = GetStep("meta")
         /\ metadata \in Storable("meta")
         /\ p[1] \in Steps /\ p[1].op = "set" /\ p[2] \in Steps /\ p[2].op = "get"
<1>1. metadata \in Storable("meta") /\ "meta" \in Keys
  BY StorableValues, KeyFacts
<1>2. PICK a, b \in Steps : /\ a = SetStep("meta", metadata) /\ b = GetStep("meta")
                           /\ a.op = "set" /\ b.op = "get"
  BY <1>1, StepFacts
<1>3. ChangePlan(metadata) = <<a, b>>
  BY <1>2 DEF ChangePlan
<1> QED BY <1>1, <1>2, <1>3

LEMMA CreatePlanFacts ==
  ASSUME NEW sealed \in SealedSlots, NEW metadata \in Metadata
  PROVE  LET p == CreatePlan(sealed, metadata) IN
         /\ p \in Seq(Steps) /\ Len(p) = 3
         /\ p[1] = SetStep("slot_a", sealed) /\ p[2] = SetStep("meta", metadata)
         /\ p[3] = SetStep("pointer", PointerTo("slot_a", sealed))
         /\ PointerTo("slot_a", sealed) \in Storable("pointer")
         /\ \A j \in 1..3 : /\ p[j] \in Steps /\ p[j].op = "set"
                            /\ p[j].value \in Storable(p[j].key)
<1>1. /\ PointerTo("slot_a", sealed) \in Storable("pointer") /\ sealed \in Storable("slot_a")
      /\ metadata \in Storable("meta")
  BY StorableValues, KeyFacts DEF PointerTo, Pointers, SealedSlots
<1>2. "slot_a" \in Keys /\ "pointer" \in Keys /\ "meta" \in Keys
  BY KeyFacts
<1>3. PICK a, b, c \in Steps :
        /\ a = SetStep("slot_a", sealed) /\ b = SetStep("meta", metadata)
        /\ c = SetStep("pointer", PointerTo("slot_a", sealed))
        /\ a.op = "set" /\ a.value \in Storable(a.key) /\ b.op = "set" /\ b.value \in Storable(b.key)
        /\ c.op = "set" /\ c.value \in Storable(c.key)
  BY <1>1, <1>2, StepFacts
<1>4. CreatePlan(sealed, metadata) = <<a, b, c>>
  BY <1>3 DEF CreatePlan
<1> QED BY <1>1, <1>3, <1>4

LEMMA GoesOnFacts ==
  ASSUME TypeOK, NEW t \in TaskIds, tasks[t] # None, NEW plan \in Seq(Steps), plan # <<>>,
         Head(plan).op = "set" => Head(plan).value \in Storable(Head(plan).key),
         GoesOn(t, plan), media' = media
  PROVE  /\ tasks' \in [TaskIds -> Tasks \cup {None}] /\ tasks'[t] # None
         /\ tasks'[t].kind = tasks[t].kind /\ tasks'[t].session = tasks[t].session
         /\ tasks'[t].got = tasks[t].got /\ tasks'[t].plan = plan
         /\ writes' \in [Keys -> Seq(Values)] /\ \A k \in Keys : writes'[k] \in Seq(Storable(k))
         /\ reads' \in [TaskIds -> [Keys -> Nat \cup {None}]]
         /\ \A k \in Keys : reads'[t][k] \in {None, Len(writes'[k])}
         /\ \A u \in TaskIds : u # t => tasks'[u] = tasks[u] /\ reads'[u] = reads[u]
         /\ Head(plan).op = "get" => writes' = writes
         /\ \A k \in Keys : k # Head(plan).key \/ Head(plan).op = "get" => Might(k)' = Might(k)
         /\ Might(Head(plan).key)' \subseteq Might(Head(plan).key) \cup {Head(plan).value}
<1>1. Head(plan) \in Steps /\ Calls(t, Head(plan))
  BY PlanParts DEF GoesOn
<1>2. PICK x \in Tasks : x = tasks[t]
  BY DEF TypeOK
<1>3. [x EXCEPT !.plan = plan] \in Tasks
  BY DEF Tasks
<1>4. /\ tasks' \in [TaskIds -> Tasks \cup {None}] /\ tasks'[t] = [x EXCEPT !.plan = plan]
      /\ \A u \in TaskIds : u # t => tasks'[u] = tasks[u]
  BY <1>2, <1>3 DEF GoesOn, TypeOK
<1>5. /\ tasks'[t] # None /\ tasks'[t].kind = tasks[t].kind /\ tasks'[t].session = tasks[t].session
      /\ tasks'[t].got = tasks[t].got /\ tasks'[t].plan = plan
  BY <1>2, <1>3, <1>4, NoneIsNothing DEF Tasks
<1>6. Head(plan).op = "get" => writes' = writes
  BY <1>1 DEF Calls
<1> QED BY <1>1, <1>4, <1>5, <1>6, CallsFacts, CallsMight

LEMMA GoesOnWrites ==
  ASSUME TypeOK, NEW t \in TaskIds, tasks[t] # None, NEW p \in Seq(Steps), p # <<>>,
         NEW step \in Steps, step = Head(p), step.value \in Storable(step.key),
         GoesOn(t, p), media' = media
  PROVE  /\ tasks' \in [TaskIds -> Tasks \cup {None}] /\ tasks'[t] # None
         /\ tasks'[t].kind = tasks[t].kind /\ tasks'[t].session = tasks[t].session
         /\ tasks'[t].plan = p
         /\ writes' \in [Keys -> Seq(Values)] /\ \A k \in Keys : writes'[k] \in Seq(Storable(k))
         /\ reads' \in [TaskIds -> [Keys -> Nat \cup {None}]]
         /\ \A k \in Keys : reads'[t][k] \in {None, Len(writes'[k])}
         /\ \A u \in TaskIds : u # t => tasks'[u] = tasks[u] /\ reads'[u] = reads[u]
         /\ \A k \in Keys : k # step.key => Might(k)' = Might(k)
         /\ Might(step.key)' \subseteq Might(step.key) \cup {step.value}
<1>1. Head(p).op = "set" => Head(p).value \in Storable(Head(p).key)
  OBVIOUS
<1>2. /\ tasks' \in [TaskIds -> Tasks \cup {None}] /\ tasks'[t] # None
      /\ tasks'[t].kind = tasks[t].kind /\ tasks'[t].session = tasks[t].session
      /\ tasks'[t].plan = p
      /\ writes' \in [Keys -> Seq(Values)] /\ \A k \in Keys : writes'[k] \in Seq(Storable(k))
      /\ reads' \in [TaskIds -> [Keys -> Nat \cup {None}]]
      /\ \A k \in Keys : reads'[t][k] \in {None, Len(writes'[k])}
      /\ \A u \in TaskIds : u # t => tasks'[u] = tasks[u] /\ reads'[u] = reads[u]
  BY <1>1, GoesOnFacts
<1>3. /\ \A k \in Keys : k # Head(p).key => Might(k)' = Might(k)
      /\ Might(Head(p).key)' \subseteq Might(Head(p).key) \cup {Head(p).value}
  BY <1>1, GoesOnFacts
<1> QED BY <1>2, <1>3

LEMMA UnchangedQuiet ==
  ASSUME TypeOK, UNCHANGED <<media, writes, ops, owned, acked, passwords>>
  PROVE  Quiet
BY SameMight, KeyFacts, PoolAssumption DEF Quiet, TypeOK, Names

LEMMA StepReadsAgain ==
  ASSUME ClientInv, NEW t \in TaskIds, ReadsAgain(t)
  PROVE  ClientInv'
<1>1. TypeOK
  BY DEF ClientInv
<1>2. UNCHANGED <<media, tasks, sessions, current, screen, ops, owned, acked, passwords, ending>>
  BY DEF ReadsAgain, ui, known
<1>3. tasks[t] # None /\ tasks[t].plan # <<>> /\ StepOf(t).key \in Keys
  BY AnsweredStep DEF ReadsAgain
<1>4. GetStep(StepOf(t).key) \in Steps /\ GetStep(StepOf(t).key).op = "get"
  BY <1>3, StepFacts, StorableValues
<1>5. /\ writes' = writes /\ reads' \in [TaskIds -> [Keys -> Nat \cup {None}]]
      /\ \A k \in Keys : reads'[t][k] \in {None, Len(writes'[k])}
      /\ \A u \in TaskIds : u # t => reads'[u] = reads[u]
  BY <1>1, <1>4, CallsFacts DEF ReadsAgain, Calls
<1>6. TypeOK'
  BY <1>1, <1>2, <1>5 DEF TypeOK
<1>7. Quiet
  BY <1>1, <1>2, <1>5, UnchangedQuiet
<1>8. ASSUME Live(t) PROVE Progress(t)'
  <2>1. tasks[t] \in Tasks /\ Progress(t)
    BY <1>1, <1>3, <1>8 DEF ClientInv, TypeOK, ProgressInv
  <2>2. tasks[t].kind \in {"unlock", "save"} => tasks[t].session \in SessionIds
    BY <1>3 DEF ClientInv, SessionsApart, Running
  <2> QED BY <1>1, <1>2, <1>3, <1>7, <2>1, <2>2, QuietProgress DEF OwnSession
<1>9. tasks[t].kind \in {"save", "password"} =>
           /\ tasks'[t].plan # <<>>
           /\ \A j \in DOMAIN tasks'[t].plan :
                tasks'[t].plan[j].op = "set" => /\ j < Len(tasks'[t].plan)
                                                /\ tasks'[t].plan[j + 1].op = "get"
  BY <1>2, <1>3 DEF ClientInv, ReadsBack, Running
<1> QED BY <1>2, <1>3, <1>5, <1>6, <1>8, <1>9, QuietContinues

-----------------------------------------------------------------------------
(* A confirmed write of a series *)
LEMMA TailReadsBack ==
  ASSUME NEW p \in Seq(Steps), p # <<>>, Len(p) > 1 \/ Head(p).op = "set",
         \A j \in DOMAIN p : p[j].op = "set" => j < Len(p) /\ p[j + 1].op = "get"
  PROVE  /\ Tail(p) # <<>> /\ Tail(p) \in Seq(Steps)
         /\ \A j \in DOMAIN Tail(p) : Tail(p)[j].op = "set" => /\ j < Len(Tail(p))
                                                              /\ Tail(p)[j + 1].op = "get"
         /\ Head(p).op = "set" => Head(Tail(p)).op = "get"
<1>1. /\ Tail(p) \in Seq(Steps) /\ Len(p) \in Nat \ {0} /\ Len(Tail(p)) = Len(p) - 1
      /\ \A i \in 1..Len(Tail(p)) : Tail(p)[i] = p[i + 1]
      /\ Len(p) > 1 => Tail(p) # <<>> /\ Head(Tail(p)) = p[2]
  BY PlanParts
<1>2. Head(p) = p[1] /\ DOMAIN p = 1..Len(p)
  OBVIOUS
<1>3. Head(p).op = "set" => Len(p) > 1 /\ p[2].op = "get"
  BY <1>1, <1>2
<1>4. DOMAIN Tail(p) = 1..Len(Tail(p))
  BY <1>1
<1>5. ASSUME NEW j \in DOMAIN Tail(p), Tail(p)[j].op = "set"
      PROVE  j < Len(Tail(p)) /\ Tail(p)[j + 1].op = "get"
  <2>1. j + 1 \in DOMAIN p /\ p[j + 1].op = "set"
    BY <1>1, <1>2, <1>4, <1>5
  <2>2. j + 1 < Len(p) /\ p[(j + 1) + 1].op = "get"
    BY <2>1
  <2>3. j + 1 \in 1..Len(Tail(p)) /\ (j + 1) + 1 \in Nat
    BY <1>1, <1>4, <2>2
  <2> QED BY <1>1, <1>4, <2>2, <2>3
<1> QED BY <1>1, <1>3, <1>5

LEMMA SaveFacts ==
  ASSUME ClientInv, NEW t \in TaskIds, Live(t), tasks[t].kind = "save"
  PROVE  \E x \in SessionRecords, n \in 1..4 :
           /\ x = OwnSession(t) /\ tasks[t].session \in SessionIds /\ tasks[t].session = current
           /\ Unlocked(x) /\ x.vault \in OpenVaults /\ x.pending \in PendingSaves /\ x.pending # None
           /\ x.change = None /\ IsNextSlot(x, x.pending.slot, x.pending.sealed)
           /\ x.pending.slot \in Slots /\ x.pending.sealed \in SealedSlots
           /\ tasks[t].plan = From(SavePlan(x.pending.slot, x.pending.sealed), n)
           /\ x.pending.verified = (n > 2)
           /\ n > 1 => \A b \in Might(x.pending.slot) : b = x.pending.sealed
           /\ n = 4 => \A p \in Might("pointer") : p = PointerTo(x.pending.slot, x.pending.sealed)
           /\ StepOf(t) = SavePlan(x.pending.slot, x.pending.sealed)[n]
           /\ Len(tasks[t].plan) = 5 - n
           /\ n < 4 => Tail(tasks[t].plan) = From(SavePlan(x.pending.slot, x.pending.sealed), n + 1)
<1>1. t \in Running({"save", "password"}) /\ tasks[t].session \in SessionIds /\ Progress(t)
  BY DEF ClientInv, SessionsApart, ProgressInv, Running, Live
<1>2. PICK x \in SessionRecords : x = OwnSession(t)
  BY <1>1 DEF ClientInv, TypeOK, OwnSession
<1>3. Unlocked(x) /\ tasks[t].session = current
  BY <1>1, <1>2, StaleIsLocked DEF Live
<1>4. x.pending # None /\ x.change = None /\ IsNextSlot(x, x.pending.slot, x.pending.sealed)
  BY <1>1, <1>2 DEF Progress, SaveInv
<1>5. x.vault \in OpenVaults /\ x.pending \in PendingSaves
  BY <1>3, <1>4 DEF SessionRecords, Unlocked
<1>6. x.pending.slot \in Slots /\ x.pending.sealed \in SealedSlots
  BY <1>5 DEF PendingSaves
<1>7. PICK n \in 1..4 :
           /\ tasks[t].plan = From(SavePlan(x.pending.slot, x.pending.sealed), n)
           /\ x.pending.verified = (n > 2)
           /\ n > 1 => \A b \in Might(x.pending.slot) : b = x.pending.sealed
           /\ n = 4 => \A p \in Might("pointer") : p = PointerTo(x.pending.slot, x.pending.sealed)
  BY <1>1, <1>2 DEF Progress, SaveInv
<1>8. PICK p \in Seq(Steps) : p = SavePlan(x.pending.slot, x.pending.sealed) /\ Len(p) = 4
  BY <1>6, SavePlanFacts
<1>9. /\ Head(From(p, n)) = p[n] /\ Len(From(p, n)) = 4 - n + 1
      /\ n < 4 => Tail(From(p, n)) = From(p, n + 1)
  <2>1. n \in 1..Len(p)
    BY <1>8
  <2>2. /\ Head(From(p, n)) = p[n] /\ Len(From(p, n)) = Len(p) - n + 1
        /\ n < Len(p) => Tail(From(p, n)) = From(p, n + 1)
    BY <2>1, FromFacts
  <2> QED BY <1>8, <2>2
<1>10. /\ StepOf(t) = SavePlan(x.pending.slot, x.pending.sealed)[n]
       /\ Len(tasks[t].plan) = 5 - n
       /\ n < 4 => Tail(tasks[t].plan) = From(SavePlan(x.pending.slot, x.pending.sealed), n + 1)
  BY <1>7, <1>8, <1>9 DEF StepOf
<1> QED BY <1>1, <1>2, <1>3, <1>4, <1>5, <1>6, <1>7, <1>10

LEMMA ChangeFacts ==
  ASSUME ClientInv, NEW t \in TaskIds, Live(t), tasks[t].kind = "password"
  PROVE  \E x \in SessionRecords, n \in 1..2 :
           /\ x = OwnSession(t) /\ tasks[t].session \in SessionIds /\ tasks[t].session = current
           /\ Unlocked(x) /\ x.vault \in OpenVaults /\ x.change \in Metadata /\ x.change # None
           /\ x.pending = None /\ x.change.key = x.vault.key
           /\ tasks[t].plan = From(ChangePlan(x.change), n)
           /\ n = 2 => \A m \in Might("meta") : m = x.change
           /\ StepOf(t) = ChangePlan(x.change)[n]
           /\ n < 2 => Tail(tasks[t].plan) = From(ChangePlan(x.change), n + 1)
<1>1. t \in Running({"save", "password"}) /\ tasks[t].session \in SessionIds /\ Progress(t)
  BY DEF ClientInv, SessionsApart, ProgressInv, Running, Live
<1>2. PICK x \in SessionRecords : x = OwnSession(t)
  BY <1>1 DEF ClientInv, TypeOK, OwnSession
<1>3. Unlocked(x) /\ tasks[t].session = current
  BY <1>1, <1>2, StaleIsLocked DEF Live
<1>4. x.change # None /\ x.pending = None /\ x.change.key = x.vault.key
  BY <1>1, <1>2 DEF Progress, ChangeInv
<1>5. x.vault \in OpenVaults /\ x.change \in Metadata
  BY <1>3, <1>4 DEF SessionRecords, Unlocked
<1>6. PICK n \in 1..2 : /\ tasks[t].plan = From(ChangePlan(x.change), n)
                        /\ n = 2 => \A m \in Might("meta") : m = x.change
  BY <1>1, <1>2 DEF Progress, ChangeInv
<1>7. PICK p \in Seq(Steps) : p = ChangePlan(x.change) /\ Len(p) = 2
  BY <1>5, ChangePlanFacts
<1>8. Head(From(p, n)) = p[n] /\ (n < 2 => Tail(From(p, n)) = From(p, n + 1))
  BY <1>7, FromFacts
<1>9. tasks[t].plan = From(p, n) /\ p = ChangePlan(x.change)
  BY <1>6, <1>7
<1>10. /\ StepOf(t) = ChangePlan(x.change)[n]
       /\ n < 2 => Tail(tasks[t].plan) = From(ChangePlan(x.change), n + 1)
  BY <1>8, <1>9, Zenon DEF StepOf
<1> QED BY <1>1, <1>2, <1>3, <1>4, <1>5, <1>6, <1>10, Zenon

LEMMA StepSetDoneSession ==
  ASSUME ClientInv, NEW t \in TaskIds, SetDone(t), tasks[t].kind \in {"save", "password"}
  PROVE  ClientInv'
<1> DEFINE plan == Tail(tasks[t].plan)
<1>1. /\ TypeOK /\ AnswerTo(t, "set") /\ Value(t) = StepOf(t).value /\ GoesOn(t, plan)
      /\ UNCHANGED <<media, sessions, current, screen, ops, owned, acked, passwords, ending>>
  BY DEF ClientInv, SetDone, ui, known
<1>2. /\ tasks[t] # None /\ tasks[t].plan # <<>> /\ tasks[t].plan \in Seq(Steps) /\ StepOf(t).op = "set"
      /\ StepOf(t).key \in Keys
      /\ Live(t) => Might(StepOf(t).key) = {Value(t)}
  BY <1>1, AnsweredStep, TaskPlan
<1>3. /\ plan # <<>> /\ plan \in Seq(Steps) /\ Head(plan).op = "get"
      /\ \A j \in DOMAIN plan : plan[j].op = "set" => j < Len(plan) /\ plan[j + 1].op = "get"
  <2>1. \A j \in DOMAIN tasks[t].plan : tasks[t].plan[j].op = "set" =>
          j < Len(tasks[t].plan) /\ tasks[t].plan[j + 1].op = "get"
    BY <1>2 DEF ClientInv, ReadsBack, Running
  <2> QED BY <1>2, <2>1, TailReadsBack DEF StepOf
<1> HIDE DEF plan
<1>4. /\ tasks' \in [TaskIds -> Tasks \cup {None}] /\ tasks'[t] # None
      /\ tasks'[t].kind = tasks[t].kind /\ tasks'[t].session = tasks[t].session
      /\ tasks'[t].plan = plan /\ writes' = writes
      /\ reads' \in [TaskIds -> [Keys -> Nat \cup {None}]]
      /\ \A k \in Keys : reads'[t][k] \in {None, Len(writes'[k])}
      /\ \A u \in TaskIds : u # t => tasks'[u] = tasks[u] /\ reads'[u] = reads[u]
  BY <1>1, <1>2, <1>3, GoesOnFacts
<1>5. TypeOK'
  BY <1>1, <1>4 DEF TypeOK
<1>6. \A k \in Keys : Might(k)' = Might(k)
  BY <1>1, <1>4, SameMight
<1>7. ASSUME Live(t), tasks[t].kind = "save" PROVE SaveInv(t)'
  <2>1. PICK x \in SessionRecords, n \in 1..4 :
          /\ x = OwnSession(t) /\ x.pending # None /\ x.change = None
          /\ IsNextSlot(x, x.pending.slot, x.pending.sealed)
          /\ x.pending.slot \in Slots /\ x.pending.sealed \in SealedSlots
          /\ x.pending.verified = (n > 2)
          /\ n > 1 => \A b \in Might(x.pending.slot) : b = x.pending.sealed
          /\ StepOf(t) = SavePlan(x.pending.slot, x.pending.sealed)[n]
          /\ n < 4 => Tail(tasks[t].plan) = From(SavePlan(x.pending.slot, x.pending.sealed), n + 1)
    BY <1>7, SaveFacts
  <2>2. n \in {1, 3}
    BY <1>2, <2>1, SavePlanFacts
  <2>3. tasks'[t].plan = From(SavePlan(x.pending.slot, x.pending.sealed), n + 1) /\ n + 1 \in 1..4
    BY <1>4, <2>1, <2>2 DEF plan
  <2>4. x.pending.verified = (n + 1 > 2) /\ OwnSession(t)' = x
    BY <1>1, <1>4, <2>1, <2>2 DEF OwnSession
  <2>5. \A b \in Might(x.pending.slot)' : b = x.pending.sealed
    <3>1. CASE n = 1
      <4>1. StepOf(t) = SetStep(x.pending.slot, x.pending.sealed)
        BY <2>1, <3>1, SavePlanFacts
      <4>2. StepOf(t).key = x.pending.slot /\ StepOf(t).value = x.pending.sealed
        BY <4>1 DEF SetStep
      <4> QED BY <1>1, <1>2, <1>6, <1>7, <4>2
    <3>2. CASE n = 3
      BY <1>6, <2>1, <3>2, KeyFacts
    <3> QED BY <2>2, <3>1, <3>2
  <2>6. n + 1 = 4 => \A p \in Might("pointer")' : p = PointerTo(x.pending.slot, x.pending.sealed)
    <3> SUFFICES ASSUME n = 3 PROVE \A p \in Might("pointer")' : p = PointerTo(x.pending.slot, x.pending.sealed)
      BY <2>2
    <3>1. StepOf(t) = SetStep("pointer", PointerTo(x.pending.slot, x.pending.sealed))
      BY <2>1, SavePlanFacts
    <3>2. StepOf(t).key = "pointer" /\ StepOf(t).value = PointerTo(x.pending.slot, x.pending.sealed)
      BY <3>1 DEF SetStep
    <3> QED BY <1>1, <1>2, <1>6, <1>7, <3>2
  <2> QED BY <2>1, <2>3, <2>4, <2>5, <2>6 DEF SaveInv
<1>8. ASSUME Live(t), tasks[t].kind = "password" PROVE ChangeInv(t)'
  <2>1. PICK x \in SessionRecords, n \in 1..2 :
          /\ x = OwnSession(t) /\ x.change \in Metadata /\ x.change # None
          /\ x.pending = None /\ x.change.key = x.vault.key
          /\ StepOf(t) = ChangePlan(x.change)[n]
          /\ n < 2 => Tail(tasks[t].plan) = From(ChangePlan(x.change), n + 1)
    BY <1>8, ChangeFacts
  <2>2. n = 1 /\ StepOf(t) = SetStep("meta", x.change)
    BY <1>2, <2>1, ChangePlanFacts
  <2>3. tasks'[t].plan = From(ChangePlan(x.change), 2) /\ OwnSession(t)' = x
    BY <1>1, <1>4, <2>1, <2>2 DEF OwnSession, plan
  <2>4. StepOf(t).key = "meta" /\ StepOf(t).value = x.change
    BY <2>2 DEF SetStep
  <2>5. \A m \in Might("meta")' : m = x.change
    BY <1>1, <1>2, <1>6, <1>8, <2>4
  <2> QED BY <2>1, <2>3, <2>5 DEF ChangeInv
<1>9. Live(t) => Progress(t)'
  BY <1>4, <1>7, <1>8 DEF Progress
<1> QED BY <1>1, <1>2, <1>3, <1>4, <1>5, <1>9, QuietContinues

(* The end of the vault goes on: nothing is written but None. *)
LEMMA DestroyGoesOn ==
  ASSUME ClientInv, TypeOK', NEW t \in TaskIds, tasks[t] # None, tasks'[t] # None,
         tasks[t].kind \in {"destroy", "cleanup"},
         UNCHANGED <<media, sessions, current, screen, ops, owned, acked, passwords, ending>>,
         \A u \in TaskIds : u # t => tasks'[u] = tasks[u] /\ reads'[u] = reads[u],
         tasks'[t].session = tasks[t].session,
         \/ tasks'[t].kind = tasks[t].kind
         \/ tasks[t].kind = "destroy" /\ tasks'[t].kind = "cleanup",
         \A k \in Keys : reads'[t][k] \in {None, Len(writes'[k])},
         \A k \in Keys : Might(k)' \subseteq Might(k) \cup {None},
         Progress(t)'
  PROVE  ClientInv'
<1>1. TypeOK /\ Live(t)
  BY DEF ClientInv, Live
<1>2. /\ StructInv' /\ OnScreen' /\ PendingIsTask'
      /\ \A u \in TaskIds : Live(u)' => u = t
  BY <1>1, TaskContinues
<1>3. /\ ~owned /\ ending = "asked" /\ screen \in {"vault", "locked"}
      /\ \A i \in SessionIds : ~Unlocked(sessions[i])
  BY DEF ClientInv, OnScreen, SessionsApart, Running
<1>4. SlotsInv'
  BY KeyFacts DEF ClientInv, SlotsInv
<1>5. OwnedInv' /\ UnownedInv' /\ ReportedInv' /\ CurrentInv'
  BY <1>1, <1>3 DEF ClientInv, OwnedInv, UnownedInv, ReportedInv, CurrentInv, TypeOK
<1>6. ProgressInv'
  BY <1>2 DEF ProgressInv
<1> QED BY <1>2, <1>4, <1>5, <1>6 DEF ClientInv, StructInv

LEMMA DestroyParts ==
  ASSUME NEW n \in 1..6
  PROVE  /\ From(DestroyPlan, n) \in Seq(Steps) /\ From(DestroyPlan, n) # <<>>
         /\ Head(From(DestroyPlan, n)) = DestroyPlan[n] /\ Len(From(DestroyPlan, n)) = 7 - n
         /\ n < 6 => Tail(From(DestroyPlan, n)) = From(DestroyPlan, n + 1)
         /\ DestroyPlan[n].key \in Keys /\ DestroyPlan[n].op = "set" /\ DestroyPlan[n].value = None
         /\ None \in Storable(DestroyPlan[n].key)
<1>1. PICK p \in Seq(Steps) : p = DestroyPlan /\ Len(p) = 6
  BY PlanFacts
<1>2. n \in 1..Len(p)
  BY <1>1
<1>3. /\ From(p, n) \in Seq(Steps) /\ From(p, n) # <<>>
      /\ Head(From(p, n)) = p[n] /\ Len(From(p, n)) = Len(p) - n + 1
      /\ n < Len(p) => Tail(From(p, n)) = From(p, n + 1)
  BY <1>2, FromFacts
<1>4. DestroyPlan[n].key \in Keys /\ DestroyPlan[n].op = "set" /\ DestroyPlan[n].value = None
  BY PlanFacts
<1>5. Len(p) - n + 1 = 7 - n /\ (n < 6 => n < Len(p))
  BY <1>1
<1> QED BY <1>1, <1>3, <1>4, <1>5, StorableValues

LEMMA StepSetDoneDestroy ==
  ASSUME ClientInv, NEW t \in TaskIds, SetDone(t), tasks[t].kind = "destroy"
  PROVE  ClientInv'
<1> DEFINE plan == Tail(tasks[t].plan)
<1>1. /\ TypeOK /\ AnswerTo(t, "set") /\ Value(t) = StepOf(t).value /\ GoesOn(t, plan)
      /\ Len(tasks[t].plan) > 1
      /\ UNCHANGED <<media, sessions, current, screen, ops, owned, acked, passwords, ending>>
  BY DEF ClientInv, SetDone, ui, known
<1>2. /\ tasks[t] # None /\ tasks[t].plan # <<>> /\ tasks[t].plan \in Seq(Steps) /\ Live(t)
      /\ StepOf(t).key \in Keys /\ Might(StepOf(t).key) = {Value(t)}
  BY <1>1, AnsweredStep, TaskPlan DEF Live
<1>3. PICK n \in 1..6 : /\ tasks[t].plan = From(DestroyPlan, n)
                        /\ \A j \in 1..(n - 1) : \A v \in Might(DestroyPlan[j].key) : v = None
  BY <1>2 DEF ClientInv, ProgressInv, Progress, DestroyInv
<1>4. n \in 1..5 /\ plan = From(DestroyPlan, n + 1) /\ StepOf(t) = DestroyPlan[n]
  <2>1. /\ Head(From(DestroyPlan, n)) = DestroyPlan[n] /\ Len(From(DestroyPlan, n)) = 7 - n
        /\ n < 6 => Tail(From(DestroyPlan, n)) = From(DestroyPlan, n + 1)
    BY DestroyParts
  <2> QED BY <1>1, <1>3, <2>1 DEF StepOf
<1>5. plan \in Seq(Steps) /\ plan # <<>> /\ Head(plan) = DestroyPlan[n + 1]
  <2>1. n + 1 \in 1..6
    BY <1>4
  <2>2. /\ From(DestroyPlan, n + 1) \in Seq(Steps) /\ From(DestroyPlan, n + 1) # <<>>
        /\ Head(From(DestroyPlan, n + 1)) = DestroyPlan[n + 1]
    BY <2>1, DestroyParts
  <2> QED BY <1>4, <2>2
<1> HIDE DEF plan
<1>6. PICK step \in Steps : /\ step = Head(plan) /\ step = DestroyPlan[n + 1] /\ step.key \in Keys
                            /\ step.value = None /\ None \in Storable(step.key)
  <2>1. n + 1 \in 1..6
    BY <1>4
  <2>2. Head(plan) \in Steps
    BY <1>5, PlanParts
  <2>3. /\ DestroyPlan[n + 1].key \in Keys /\ DestroyPlan[n + 1].value = None
        /\ None \in Storable(DestroyPlan[n + 1].key)
    BY <2>1, DestroyParts
  <2> QED BY <1>5, <2>2, <2>3
<1>7. /\ tasks' \in [TaskIds -> Tasks \cup {None}] /\ tasks'[t] # None
      /\ tasks'[t].kind = tasks[t].kind /\ tasks'[t].session = tasks[t].session
      /\ tasks'[t].plan = plan
      /\ writes' \in [Keys -> Seq(Values)] /\ \A k \in Keys : writes'[k] \in Seq(Storable(k))
      /\ reads' \in [TaskIds -> [Keys -> Nat \cup {None}]]
      /\ \A k \in Keys : reads'[t][k] \in {None, Len(writes'[k])}
      /\ \A u \in TaskIds : u # t => tasks'[u] = tasks[u] /\ reads'[u] = reads[u]
      /\ \A k \in Keys : k # step.key => Might(k)' = Might(k)
      /\ Might(step.key)' \subseteq Might(step.key) \cup {step.value}
  <2>1. PICK p \in Seq(Steps) : p = plan
    BY <1>5
  <2>2. p # <<>> /\ GoesOn(t, p) /\ step = Head(p)
    BY <1>1, <1>5, <1>6, <2>1
  <2>3. media' = media /\ TypeOK /\ tasks[t] # None /\ step.value \in Storable(step.key)
    BY <1>1, <1>2, <1>6
  <2> QED BY <2>1, <2>2, <2>3, GoesOnWrites
<1>8. TypeOK'
  BY <1>1, <1>7 DEF TypeOK
<1>9. \A k \in Keys : Might(k)' \subseteq Might(k) \cup {None}
  BY <1>6, <1>7
<1>10. \A j \in 1..n : \A v \in Might(DestroyPlan[j].key)' : v = None
  <2> SUFFICES ASSUME NEW j \in 1..n PROVE \A v \in Might(DestroyPlan[j].key)' : v = None
    OBVIOUS
  <2>1. \A v \in Might(DestroyPlan[j].key) : v = None
    <3>1. CASE j = n
      <4>1. Value(t) = None
        BY <1>1, <1>4, PlanFacts
      <4> QED BY <1>2, <1>4, <3>1, <4>1
    <3>2. CASE j # n
      <4>1. j \in 1..(n - 1)
        BY <1>4, <3>2
      <4> QED BY <1>3, <4>1
    <3> QED BY <3>1, <3>2
  <2>2. DestroyPlan[j].key \in Keys
    <3>1. j \in 1..6
      BY <1>4
    <3> QED BY <3>1, DestroyParts
  <2> QED BY <1>9, <2>1, <2>2
<1>11. Progress(t)'
  <2>1. n + 1 \in 1..6 /\ (n + 1) - 1 = n
    BY <1>4
  <2>2. DestroyInv(t)'
    BY <1>4, <1>7, <1>10, <2>1 DEF DestroyInv
  <2> QED BY <1>7, <2>2 DEF Progress
<1> QED BY <1>1, <1>2, <1>7, <1>8, <1>9, <1>11, DestroyGoesOn

(* The steps of a create that stores its vault *)
LEMMA CreateFacts ==
  ASSUME ClientInv, NEW t \in TaskIds, tasks[t] # None, tasks[t].kind = "create"
  PROVE  /\ Live(t) /\ tasks[t].session \in SessionIds /\ OwnSession(t) \in SessionRecords
         /\ current = None /\ screen = "onboarding" /\ ending = "no" /\ ~owned /\ acked = {}
         /\ CreateChecks(t) \/ CreateStores(t)
         /\ \A u \in TaskIds : tasks[u] # None => u = t
<1>1. Live(t) /\ t \in Running({"create"}) /\ t \in Running({"create", "unlock", "save", "password"})
  BY DEF Live, Running
<1>2. tasks[t].session \in SessionIds
  BY <1>1 DEF ClientInv, SessionsApart
<1>3. screen = "onboarding" /\ ending = "no" /\ ~owned /\ current = None
  BY <1>1 DEF ClientInv, OnScreen
<1>4. \A u \in TaskIds : tasks[u] # None => u = t
  BY <1>1 DEF ClientInv, Alone, Running
<1> QED BY <1>1, <1>2, <1>3, <1>4 DEF ClientInv, OwnedInv, ProgressInv, Progress, TypeOK, OwnSession

LEMMA FirstSlotFacts ==
  ASSUME NEW key \in Names
  PROVE  FirstSlot(key) \in SealedSlots /\ FirstSlot(key) # None /\ Fits(FirstSlot(key))
<1>1. FirstSlot(key) \in SealedSlots
  BY DEF FirstSlot, SealedSlots
<1>2. Version(FirstSlot(key)) = [generation |-> 0, content |-> {}]
  BY DEF FirstSlot, Version
<1> QED BY <1>1, <1>2, EmptyVaultFits, NoneIsNothing DEF Fits

LEMMA StoresFacts ==
  ASSUME ClientInv, NEW t \in TaskIds, tasks[t] # None, tasks[t].kind = "create", CreateStores(t)
  PROVE  \E x \in SessionRecords, n \in 1..3 :
           /\ x = OwnSession(t) /\ Unlocked(x) /\ x.metadata # None /\ x.metadata \in Metadata
           /\ x.vault.key \in Names /\ x.metadata.key = x.vault.key
           /\ x = Session("slot_a", FirstSlot(x.vault.key), x.metadata)
           /\ x.vault.slot = "slot_a" /\ x.vault.generation = 0 /\ x.vault.content = {}
           /\ x.pending = None /\ x.change = None
           /\ \A b \in Might("slot_b") : b # None => b.key # x.vault.key
           /\ tasks[t].plan = From(CreatePlan(FirstSlot(x.vault.key), x.metadata), n)
           /\ n = 1 => \A m \in Might("meta") : m = None
           /\ n > 1 => \A a \in Might("slot_a") : a = FirstSlot(x.vault.key)
           /\ n = 2 => \A m \in Might("meta") : m \in {None, x.metadata}
           /\ n = 3 => \A m \in Might("meta") : m = x.metadata
           /\ StepOf(t) = CreatePlan(FirstSlot(x.vault.key), x.metadata)[n]
           /\ Len(tasks[t].plan) = 4 - n
           /\ n < 3 => /\ Tail(tasks[t].plan) = From(CreatePlan(FirstSlot(x.vault.key), x.metadata), n + 1)
                       /\ Tail(tasks[t].plan) \in Seq(Steps) /\ Tail(tasks[t].plan) # <<>>
                       /\ Head(Tail(tasks[t].plan)) = CreatePlan(FirstSlot(x.vault.key), x.metadata)[n + 1]
<1>1. PICK x \in SessionRecords : x = OwnSession(t)
  BY CreateFacts
<1>2. /\ Unlocked(x) /\ x.metadata # None /\ x.metadata.key = x.vault.key
      /\ x = Session("slot_a", FirstSlot(x.vault.key), x.metadata)
      /\ \A b \in Might("slot_b") : b # None => b.key # x.vault.key
  BY <1>1 DEF CreateStores, FirstSlot
<1>3. x.metadata \in Metadata /\ x.vault \in OpenVaults
  BY <1>2 DEF SessionRecords, Unlocked
<1>4. x.vault.key \in Names
  BY <1>3 DEF OpenVaults
<1>5. /\ x.vault.slot = "slot_a" /\ x.vault.generation = 0 /\ x.vault.content = {}
      /\ x.pending = None /\ x.change = None
  BY <1>2 DEF Session, FirstSlot
<1>6. PICK n \in 1..3 :
        /\ tasks[t].plan = From(CreatePlan(FirstSlot(x.vault.key), x.metadata), n)
        /\ n = 1 => \A m \in Might("meta") : m = None
        /\ n > 1 => \A a \in Might("slot_a") : a = FirstSlot(x.vault.key)
        /\ n = 2 => \A m \in Might("meta") : m \in {None, x.metadata}
        /\ n = 3 => \A m \in Might("meta") : m = x.metadata
  BY <1>1 DEF CreateStores, MetadataStored
<1>7. PICK p \in Seq(Steps) : p = CreatePlan(FirstSlot(x.vault.key), x.metadata) /\ Len(p) = 3
  BY <1>3, <1>4, FirstSlotFacts, CreatePlanFacts
<1>8. /\ Head(From(p, n)) = p[n] /\ Len(From(p, n)) = 4 - n
      /\ n < 3 => Tail(From(p, n)) = From(p, n + 1)
  <2>1. n \in 1..Len(p)
    BY <1>7
  <2>2. /\ Head(From(p, n)) = p[n] /\ Len(From(p, n)) = Len(p) - n + 1
        /\ n < Len(p) => Tail(From(p, n)) = From(p, n + 1)
    BY <2>1, FromFacts
  <2> QED BY <1>7, <2>2
<1>9. n < 3 => /\ From(p, n + 1) \in Seq(Steps) /\ From(p, n + 1) # <<>>
               /\ Head(From(p, n + 1)) = p[n + 1]
  <2>1. n < 3 => n + 1 \in 1..Len(p)
    BY <1>7
  <2> QED BY <2>1, FromFacts
<1>10. tasks[t].plan = From(p, n)
  BY <1>6, <1>7
<1>11. StepOf(t) = p[n] /\ Len(tasks[t].plan) = 4 - n
  BY <1>8, <1>10 DEF StepOf
<1>12. n < 3 => /\ Tail(tasks[t].plan) = From(p, n + 1)
                /\ Tail(tasks[t].plan) \in Seq(Steps) /\ Tail(tasks[t].plan) # <<>>
                /\ Head(Tail(tasks[t].plan)) = p[n + 1]
  BY <1>8, <1>9, <1>10
<1> QED BY <1>1, <1>2, <1>3, <1>4, <1>5, <1>6, <1>7, <1>11, <1>12

LEMMA CreateGoesOn ==
  ASSUME ClientInv, TypeOK', NEW t \in TaskIds, tasks[t] # None, tasks'[t] # None,
         tasks[t].kind = "create", tasks'[t].kind = "create", tasks'[t].session = tasks[t].session,
         UNCHANGED <<media, current, screen, ops, owned, acked, passwords, ending>>,
         \A u \in TaskIds : u # t => tasks'[u] = tasks[u] /\ reads'[u] = reads[u],
         \A k \in Keys : reads'[t][k] \in {None, Len(writes'[k])},
         \A i \in SessionIds : \/ sessions'[i] = sessions[i]
                               \/ /\ i = tasks[t].session
                                  /\ sessions'[i].pending = None /\ sessions'[i].change = None,
         SlotsInv', UnownedInv', Progress(t)'
  PROVE  ClientInv'
<1>1. /\ Live(t) /\ current = None /\ screen = "onboarding" /\ ending = "no" /\ ~owned /\ acked = {}
      /\ \A u \in TaskIds : tasks[u] # None => u = t
  BY CreateFacts
<1>2. /\ StructInv' /\ OnScreen' /\ PendingIsTask'
      /\ \A u \in TaskIds : Live(u)' => u = t
  BY <1>1, TaskContinues DEF OfSession
<1>3. OwnedInv' /\ ReportedInv' /\ CurrentInv'
  BY <1>1 DEF OwnedInv, ReportedInv, CurrentInv
<1>4. ProgressInv'
  BY <1>2 DEF ProgressInv
<1> QED BY <1>2, <1>3, <1>4 DEF ClientInv, StructInv

LEMMA StepSetDoneCreate ==
  ASSUME ClientInv, NEW t \in TaskIds, SetDone(t), tasks[t].kind = "create"
  PROVE  ClientInv'
<1>1. /\ TypeOK /\ AnswerTo(t, "set") /\ Value(t) = StepOf(t).value /\ GoesOn(t, Tail(tasks[t].plan))
      /\ Len(tasks[t].plan) > 1 /\ tasks[t] # None
      /\ UNCHANGED <<media, sessions, current, screen, ops, owned, acked, passwords, ending>>
  BY AnsweredStep DEF ClientInv, SetDone, ui, known
<1>2. Live(t) /\ ~owned /\ ending = "no" /\ screen = "onboarding" /\ tasks[t].session \in SessionIds
  BY <1>1, CreateFacts
<1>3. StepOf(t).op = "set" /\ Might(StepOf(t).key) = {StepOf(t).value} /\ StepOf(t).key \in Keys
  BY <1>1, <1>2, AnsweredStep
<1>4. CreateStores(t)
  <2>1. ASSUME CreateChecks(t) PROVE FALSE
    <3>1. Len(tasks[t].plan) = 1
      BY <2>1 DEF CreateChecks
    <3> QED BY <1>1, <3>1
  <2> QED BY <1>1, <2>1, CreateFacts
<1>5. PICK x \in SessionRecords, n \in 1..3 :
           /\ x = OwnSession(t) /\ Unlocked(x) /\ x.metadata # None /\ x.metadata \in Metadata
           /\ x.vault.key \in Names /\ x.metadata.key = x.vault.key
           /\ x = Session("slot_a", FirstSlot(x.vault.key), x.metadata)
           /\ \A b \in Might("slot_b") : b # None => b.key # x.vault.key
           /\ n = 1 => \A m \in Might("meta") : m = None
           /\ n > 1 => \A a \in Might("slot_a") : a = FirstSlot(x.vault.key)
           /\ n = 2 => \A m \in Might("meta") : m \in {None, x.metadata}
           /\ StepOf(t) = CreatePlan(FirstSlot(x.vault.key), x.metadata)[n]
           /\ Len(tasks[t].plan) = 4 - n
           /\ n < 3 => /\ Tail(tasks[t].plan) = From(CreatePlan(FirstSlot(x.vault.key), x.metadata), n + 1)
                       /\ Tail(tasks[t].plan) \in Seq(Steps) /\ Tail(tasks[t].plan) # <<>>
                       /\ Head(Tail(tasks[t].plan)) = CreatePlan(FirstSlot(x.vault.key), x.metadata)[n + 1]
  BY <1>1, <1>4, StoresFacts
<1>6. n \in {1, 2}
  BY <1>1, <1>5
<1>7. PICK sealed \in SealedSlots : sealed = FirstSlot(x.vault.key) /\ Fits(sealed) /\ sealed # None
                                    /\ sealed.key = x.vault.key
  BY <1>5, FirstSlotFacts DEF FirstSlot
<1>8. PICK p \in Seq(Steps) :
        /\ p = Tail(tasks[t].plan) /\ p # <<>> /\ GoesOn(t, p)
        /\ Head(p) = CreatePlan(sealed, x.metadata)[n + 1]
        /\ p = From(CreatePlan(sealed, x.metadata), n + 1)
  <2>1. n < 3
    BY <1>6
  <2> QED BY <1>1, <1>5, <1>7, <2>1
<1>9. PICK step \in Steps :
        /\ step = Head(p) /\ step.value \in Storable(step.key)
        /\ n = 1 => step.key = "meta" /\ step.value = x.metadata
        /\ n = 2 => step.key = "pointer"
  <2>1. /\ \A j \in 1..3 : /\ CreatePlan(sealed, x.metadata)[j] \in Steps
                           /\ CreatePlan(sealed, x.metadata)[j].value
                                 \in Storable(CreatePlan(sealed, x.metadata)[j].key)
        /\ CreatePlan(sealed, x.metadata)[2] = SetStep("meta", x.metadata)
        /\ CreatePlan(sealed, x.metadata)[3] = SetStep("pointer", PointerTo("slot_a", sealed))
    BY <1>5, <1>7, CreatePlanFacts
  <2>2. /\ SetStep("meta", x.metadata).key = "meta" /\ SetStep("meta", x.metadata).value = x.metadata
        /\ SetStep("pointer", PointerTo("slot_a", sealed)).key = "pointer"
    BY DEF SetStep
  <2>3. n + 1 \in 1..3 /\ (n = 1 => n + 1 = 2) /\ (n = 2 => n + 1 = 3)
    BY <1>6
  <2> QED BY <1>8, <2>1, <2>2, <2>3
<1>10. /\ tasks' \in [TaskIds -> Tasks \cup {None}] /\ tasks'[t] # None
       /\ tasks'[t].kind = tasks[t].kind /\ tasks'[t].session = tasks[t].session
       /\ tasks'[t].plan = p
       /\ writes' \in [Keys -> Seq(Values)] /\ \A k \in Keys : writes'[k] \in Seq(Storable(k))
       /\ reads' \in [TaskIds -> [Keys -> Nat \cup {None}]]
       /\ \A k \in Keys : reads'[t][k] \in {None, Len(writes'[k])}
       /\ \A u \in TaskIds : u # t => tasks'[u] = tasks[u] /\ reads'[u] = reads[u]
       /\ \A k \in Keys : k # step.key => Might(k)' = Might(k)
       /\ Might(step.key)' \subseteq Might(step.key) \cup {step.value}
  BY <1>1, <1>8, <1>9, GoesOnWrites
<1>11. TypeOK'
  BY <1>1, <1>10 DEF TypeOK
<1>12. \A s \in Slots : Might(s)' = Might(s)
  BY <1>6, <1>9, <1>10, KeyFacts
<1>13. \A a \in Might("slot_a") : a = sealed
  <2>1. CASE n = 1
    <3>1. StepOf(t) = SetStep("slot_a", sealed)
      BY <1>5, <1>7, <2>1, CreatePlanFacts
    <3>2. StepOf(t).key = "slot_a" /\ StepOf(t).value = sealed
      BY <3>1 DEF SetStep
    <3> QED BY <1>3, <3>2
  <2>2. CASE n = 2
    BY <1>5, <1>7, <2>2
  <2> QED BY <1>6, <2>1, <2>2
<1>14. /\ n = 1 => \A m \in Might("meta")' : m \in {None, x.metadata}
       /\ n = 2 => \A m \in Might("meta")' : m = x.metadata
  <2>1. CASE n = 1
    BY <1>5, <1>9, <1>10, <2>1
  <2>2. CASE n = 2
    <3>1. StepOf(t) = SetStep("meta", x.metadata)
      BY <1>5, <1>7, <2>2, CreatePlanFacts
    <3>2. StepOf(t).key = "meta" /\ StepOf(t).value = x.metadata
      BY <3>1 DEF SetStep
    <3>3. Might("meta")' = Might("meta")
      BY <1>9, <1>10, <2>2, KeyFacts
    <3> QED BY <1>3, <2>2, <3>2, <3>3
  <2> QED BY <1>6, <2>1, <2>2
<1>15. SlotsInv'
  BY <1>1, <1>12 DEF ClientInv, SlotsInv
<1>16. UnownedInv'
  BY <1>5, <1>6, <1>7, <1>12, <1>13, <1>14, KeyFacts DEF UnownedInv
<1>17. Progress(t)'
  <2>1. OwnSession(t)' = x /\ n + 1 \in 1..3
    BY <1>1, <1>5, <1>6, <1>10 DEF OwnSession
  <2>2. /\ tasks'[t].plan = From(CreatePlan(sealed, x.metadata), n + 1)
        /\ ~(n + 1 = 1)
        /\ n + 1 > 1 => \A a \in Might("slot_a")' : a = sealed
        /\ n + 1 = 2 => \A m \in Might("meta")' : m \in {None, x.metadata}
        /\ n + 1 = 3 => \A m \in Might("meta")' : m = x.metadata
    BY <1>6, <1>8, <1>10, <1>12, <1>13, <1>14, KeyFacts
  <2>3. \A b \in Might("slot_b")' : b # None => b.key # x.vault.key
    BY <1>5, <1>12, KeyFacts
  <2>4. CreateStores(t)'
    BY <1>5, <1>7, <2>1, <2>2, <2>3 DEF CreateStores, MetadataStored
  <2> QED BY <1>10, <2>4 DEF Progress
<1> QED BY <1>1, <1>10, <1>11, <1>15, <1>16, <1>17, CreateGoesOn

-----------------------------------------------------------------------------
(* An operation fails. *)
LEMMA StepFailsSession ==
  ASSUME ClientInv, NEW t \in TaskIds, tasks[t] # None, Fails(t),
         tasks[t].kind \in {"save", "password"}
  PROVE  ClientInv'
<1>1. TypeOK /\ t \in Running({"save", "password"})
  BY DEF ClientInv, Running
<1>2. /\ CallsNothing(t) /\ UNCHANGED <<media, ops, owned, acked, passwords, ending>>
      /\ \/ /\ tasks[t].kind = "save"
            /\ LockCurrent([sessions EXCEPT ![tasks[t].session] = WithoutPendingSave(@)], Without(t))
         \/ /\ tasks[t].kind = "password"
            /\ LockCurrent([sessions EXCEPT ![tasks[t].session] = WithoutPasswordChange(@)], Without(t))
  BY DEF Fails, known
<1>3. /\ tasks[t].session \in SessionIds
      /\ Unlocked(OwnSession(t)) => tasks[t].session = current
      /\ tasks[t].session # current => OwnSession(t) = NoSession
  BY <1>1, StaleIsLocked
<1>4. WithoutPendingSave(NoSession) = NoSession /\ WithoutPasswordChange(NoSession) = NoSession
  BY DEF WithoutPendingSave, WithoutPasswordChange, NoSession
<1>5. PICK x \in SessionRecords : x = OwnSession(t)
  BY <1>1, <1>3 DEF TypeOK, OwnSession
<1>6. WithoutPendingSave(x) \in SessionRecords /\ WithoutPasswordChange(x) \in SessionRecords
  BY DEF WithoutPendingSave, WithoutPasswordChange, SessionRecords
<1>7. PICK ss \in [SessionIds -> SessionRecords] :
        /\ LockCurrent(ss, Without(t))
        /\ \A i \in SessionIds : i # current => ss[i] = sessions[i]
  <2>1. ASSUME NEW y \in SessionRecords, tasks[t].session # current => y = NoSession
        PROVE  /\ [sessions EXCEPT ![tasks[t].session] = y] \in [SessionIds -> SessionRecords]
               /\ \A i \in SessionIds :
                    i # current => [sessions EXCEPT ![tasks[t].session] = y][i] = sessions[i]
    BY <1>1, <1>3, <2>1 DEF TypeOK, OwnSession
  <2>2. tasks[t].session # current =>
          WithoutPendingSave(x) = NoSession /\ WithoutPasswordChange(x) = NoSession
    BY <1>3, <1>4, <1>5
  <2>3. CASE tasks[t].kind = "save"
    <3>1. LockCurrent([sessions EXCEPT ![tasks[t].session] = WithoutPendingSave(x)], Without(t))
      BY <1>2, <1>5, <2>3 DEF OwnSession
    <3> QED BY <1>6, <2>1, <2>2, <3>1
  <2>4. CASE tasks[t].kind = "password"
    <3>1. LockCurrent([sessions EXCEPT ![tasks[t].session] = WithoutPasswordChange(x)], Without(t))
      BY <1>2, <1>5, <2>4 DEF OwnSession
    <3> QED BY <1>6, <2>1, <2>2, <3>1
  <2> QED BY <2>3, <2>4
<1>8. /\ Without(t) \in [TaskIds -> Tasks \cup {None}] /\ Without(t)[t] = None
      /\ \A u \in TaskIds : u # t => Without(t)[u] = tasks[u]
  BY <1>1, WithoutFacts
<1>9. /\ reads' \in [TaskIds -> [Keys -> Nat \cup {None}]] /\ writes' = writes
      /\ \A u \in TaskIds : u # t => reads'[u] = reads[u]
  BY <1>1, <1>2, CallsNothingFacts
<1>10. screen \in {"vault", "locked"}
  BY DEF ClientInv, OnScreen, Running
<1>11. \A u \in TaskIds :
           \/ Without(t)[u] = tasks[u] /\ reads'[u] = reads[u]
           \/ /\ Without(t)[u] = None /\ tasks[u] # None /\ tasks[u].kind \in {"save", "password"}
              /\ tasks[u].session = current \/ ~Unlocked(OwnSession(u))
  BY <1>3, <1>8, <1>9
<1> QED BY <1>2, <1>7, <1>8, <1>9, <1>10, <1>11, LockCurrentStep

LEMMA StepFailsDestroy ==
  ASSUME ClientInv, NEW t \in TaskIds, tasks[t] # None, Fails(t),
         tasks[t].kind \in {"destroy", "cleanup"}
  PROVE  ClientInv'
<1> DEFINE rest == <<SetStep("password_cache", None)>>
<1>1. /\ TypeOK /\ DestroyFails(t)
      /\ UNCHANGED <<media, sessions, current, screen, ops, owned, acked, passwords, ending>>
  BY DEF ClientInv, Fails, ui, known
<1>2. CASE ~(tasks[t].kind = "destroy" /\ tasks[t].plan # rest)
  <2>1. tasks' = Without(t) /\ CallsNothing(t)
    BY <1>1, <1>2 DEF DestroyFails
  <2> QED BY <1>1, <2>1, TaskEnds
<1>3. CASE tasks[t].kind = "destroy" /\ tasks[t].plan # rest
  <2>1. /\ tasks' = [tasks EXCEPT ![t].kind = "cleanup", ![t].plan = rest]
        /\ Calls(t, Head(rest))
    BY <1>1, <1>3 DEF DestroyFails
  <2>2. PICK step \in Steps : /\ step = SetStep("password_cache", None) /\ step.key \in Keys
                              /\ step.value = None /\ step.value \in Storable(step.key)
    <3>1. "password_cache" \in Keys
      BY DEF Keys, LegacyKeys
    <3> QED BY <3>1, StepFacts, StorableValues
  <2>3. rest = <<step>> /\ rest \in Seq(Steps) /\ Head(rest) = step
    BY <2>2
  <2>4. rest = From(DestroyPlan, 6)
    <3>1. PICK p \in Seq(Steps) : p = From(DestroyPlan, 6)
      BY DestroyParts
    <3>2. Len(p) = 1 /\ Head(p) = DestroyPlan[6]
      <4>1. 6 \in 1..6
        OBVIOUS
      <4>2. Head(From(DestroyPlan, 6)) = DestroyPlan[6] /\ Len(From(DestroyPlan, 6)) = 7 - 6
        BY <4>1, DestroyParts
      <4> QED BY <3>1, <4>2
    <3>3. DestroyPlan[6] = step
      BY <2>2 DEF DestroyPlan
    <3>4. p = <<step>>
      BY <3>2, <3>3
    <3> QED BY <2>3, <3>1, <3>4
  <2> HIDE DEF rest
  <2>5. PICK x \in Tasks : x = tasks[t]
    BY <1>1 DEF TypeOK
  <2>6. PICK y \in Tasks :
          /\ y = [x EXCEPT !.kind = "cleanup", !.plan = rest]
          /\ y.kind = "cleanup" /\ y.plan = rest /\ y.session = x.session
    <3> DEFINE z == [x EXCEPT !.kind = "cleanup", !.plan = rest]
    <3>1. z \in Tasks
      BY <2>3, <2>5 DEF Tasks
    <3>2. z.kind = "cleanup" /\ z.plan = rest /\ z.session = x.session
      BY <2>5 DEF Tasks
    <3> QED BY <3>1, <3>2
  <2>7. /\ tasks' \in [TaskIds -> Tasks \cup {None}] /\ tasks'[t] = y
        /\ \A u \in TaskIds : u # t => tasks'[u] = tasks[u]
    BY <1>1, <2>1, <2>5, <2>6 DEF TypeOK
  <2>8. /\ writes' \in [Keys -> Seq(Values)] /\ \A k \in Keys : writes'[k] \in Seq(Storable(k))
        /\ reads' \in [TaskIds -> [Keys -> Nat \cup {None}]]
        /\ \A k \in Keys : reads'[t][k] \in {None, Len(writes'[k])}
        /\ \A u \in TaskIds : u # t => reads'[u] = reads[u]
    BY <1>1, <2>1, <2>2, <2>3, CallsFacts
  <2>9. \A k \in Keys : Might(k)' \subseteq Might(k) \cup {None}
    BY <1>1, <2>1, <2>2, <2>3, CallsMight
  <2>10. TypeOK'
    BY <1>1, <2>7, <2>8 DEF TypeOK
  <2>11. Progress(t)'
    BY <2>4, <2>6, <2>7 DEF Progress
  <2> QED BY <1>1, <1>3, <2>5, <2>6, <2>7, <2>8, <2>9, <2>10, <2>11, NoneIsNothing, DestroyGoesOn
<1> QED BY <1>2, <1>3

LEMMA StepFails ==
  ASSUME ClientInv, NEW t \in TaskIds, tasks[t] # None, Fails(t)
  PROVE  ClientInv'
<1>1. UNCHANGED <<media, ops, owned, acked, passwords, ending>>
  BY DEF Fails, known
<1>2. CASE tasks[t].kind \in {"create", "unlock"}
  <2>1. /\ CallsNothing(t) /\ sessions' = SessionLocked(sessions, tasks[t].session)
        /\ tasks' = Without(t) /\ UNCHANGED <<current, screen>>
    BY <1>2 DEF Fails, SessionFails, ui
  <2> QED BY <1>1, <1>2, <2>1, TaskEnds
<1>3. CASE tasks[t].kind = "initialize"
  <2>1. CallsNothing(t) /\ tasks' = Without(t) /\ UNCHANGED <<sessions, current>> /\ screen' = "unsupported"
    BY <1>3 DEF Fails
  <2> QED BY <1>1, <1>3, <2>1, TaskEnds
<1>4. CASE tasks[t].kind \in {"save", "password"}
  BY <1>4, StepFailsSession
<1>5. CASE tasks[t].kind \in {"destroy", "cleanup"}
  BY <1>5, StepFailsDestroy
<1> QED BY <1>2, <1>3, <1>4, <1>5 DEF Fails

-----------------------------------------------------------------------------
(* The check of create: nothing is there, and a fresh key names what will be. *)
LEMMA StepCreateChecked ==
  ASSUME ClientInv, NEW t \in TaskIds, CreateChecked(t)
  PROVE  ClientInv'
<1> DEFINE sealed == [key |-> ops, generation |-> 0, content |-> {}, nonce |-> ops]
           meta == [key |-> ops, password |-> ops, nonce |-> ops]
<1>1. /\ TypeOK /\ AnswerTo(t, "get") /\ tasks[t].kind = "create" /\ tasks[t] # None
      /\ StepOf(t).op = "get"
  BY AnsweredStep DEF CreateChecked, ClientInv
<1>2. Value(t) # None => ClientInv'
  BY <1>1, StepFails DEF CreateChecked
<1>3. SUFFICES ASSUME Value(t) = None PROVE ClientInv'
  BY <1>2
<1>4. /\ sessions' = [sessions EXCEPT ![tasks[t].session] = Session("slot_a", sealed, meta)]
      /\ GoesOn(t, CreatePlan(sealed, meta))
      /\ UNCHANGED <<media, current, screen, ops, owned, acked, passwords, ending>>
  BY <1>3 DEF CreateChecked, ui, known
<1>5. /\ Live(t) /\ tasks[t].session \in SessionIds /\ ~owned /\ ending = "no" /\ screen = "onboarding"
      /\ CreateChecks(t) \/ CreateStores(t)
  BY <1>1, CreateFacts
<1>6. CreateChecks(t)
  <2>1. ASSUME CreateStores(t) PROVE FALSE
    <3>1. PICK x \in SessionRecords, n \in 1..3 :
            /\ x.metadata \in Metadata /\ x.vault.key \in Names
            /\ StepOf(t) = CreatePlan(FirstSlot(x.vault.key), x.metadata)[n]
      BY <1>1, <2>1, StoresFacts
    <3>2. StepOf(t).op = "set"
      BY <3>1, FirstSlotFacts, CreatePlanFacts
    <3> QED BY <1>1, <3>2
  <2> QED BY <1>5, <2>1
<1>7. Might("meta") = {None}
  <2>1. StepOf(t) = GetStep("meta")
    BY <1>6 DEF CreateChecks, StepOf
  <2>2. StepOf(t).key = "meta"
    BY <2>1 DEF GetStep
  <2> QED BY <1>1, <1>3, <1>5, <2>2, AnsweredStep
<1>8. ops \in Names /\ ops \in Nat
  BY <1>1, PoolAssumption DEF TypeOK, Names
<1>9. PICK first \in SealedSlots : /\ first = sealed /\ first = FirstSlot(ops) /\ first # None
                                   /\ first.key = ops /\ first.generation = 0 /\ first.content = {}
  BY <1>8, FirstSlotFacts DEF FirstSlot
<1>10. PICK m \in Metadata : m = meta /\ m # None /\ m.key = ops
  <2>1. meta \in Metadata /\ meta.key = ops
    BY <1>8 DEF Metadata
  <2> QED BY <2>1, NoneIsNothing
<1> HIDE DEF sealed, meta
<1>11. PICK s \in SessionRecords :
         /\ s = Session("slot_a", first, m) /\ Unlocked(s) /\ s.metadata = m /\ s.vault.key = ops
         /\ s.pending = None /\ s.change = None
  <2>1. Session("slot_a", first, m).vault \in OpenVaults
    BY <1>9, KeyFacts DEF Session, OpenVaults, SealedSlots
  <2>2. Session("slot_a", first, m) \in SessionRecords
    BY <2>1 DEF Session, SessionRecords
  <2>3. Unlocked(Session("slot_a", first, m))
    BY <2>1, NoneIsNothing DEF Unlocked
  <2> QED BY <1>9, <2>2, <2>3 DEF Session
<1>12. /\ sessions' \in [SessionIds -> SessionRecords] /\ sessions'[tasks[t].session] = s
       /\ \A i \in SessionIds : i # tasks[t].session => sessions'[i] = sessions[i]
  BY <1>1, <1>4, <1>5, <1>9, <1>10, <1>11 DEF TypeOK
<1>13. PICK p \in Seq(Steps) :
         /\ p = CreatePlan(first, m) /\ Len(p) = 3 /\ GoesOn(t, p) /\ p # <<>>
         /\ p[1] = SetStep("slot_a", first) /\ p[1] \in Steps /\ p[1].value \in Storable(p[1].key)
         /\ p = From(CreatePlan(first, m), 1) /\ Head(p) = p[1]
  <2>1. PICK p \in Seq(Steps) :
          /\ p = CreatePlan(first, m) /\ Len(p) = 3
          /\ p[1] = SetStep("slot_a", first) /\ p[1] \in Steps /\ p[1].value \in Storable(p[1].key)
    BY CreatePlanFacts
  <2>2. 1 \in 1..Len(p)
    BY <2>1
  <2>3. p # <<>> /\ Head(p) = p[1] /\ p = From(p, 1)
    BY <2>2, FromFirst, FromFacts
  <2> QED BY <1>4, <1>9, <1>10, <2>1, <2>3
<1>14. PICK step \in Steps : /\ step = Head(p) /\ step.key = "slot_a" /\ step.value = first
                             /\ step.value \in Storable(step.key)
  BY <1>13 DEF SetStep
<1>15. /\ tasks' \in [TaskIds -> Tasks \cup {None}] /\ tasks'[t] # None
       /\ tasks'[t].kind = tasks[t].kind /\ tasks'[t].session = tasks[t].session
       /\ tasks'[t].plan = p
       /\ writes' \in [Keys -> Seq(Values)] /\ \A k \in Keys : writes'[k] \in Seq(Storable(k))
       /\ reads' \in [TaskIds -> [Keys -> Nat \cup {None}]]
       /\ \A k \in Keys : reads'[t][k] \in {None, Len(writes'[k])}
       /\ \A u \in TaskIds : u # t => tasks'[u] = tasks[u] /\ reads'[u] = reads[u]
       /\ \A k \in Keys : k # step.key => Might(k)' = Might(k)
       /\ Might(step.key)' \subseteq Might(step.key) \cup {step.value}
  BY <1>1, <1>4, <1>13, <1>14, GoesOnWrites
<1>16. TypeOK'
  <2>1. \A i \in SessionIds : ~Unlocked(sessions'[i]) => sessions'[i] = NoSession
    BY <1>1, <1>11, <1>12 DEF TypeOK
  <2> QED BY <1>1, <1>4, <1>12, <1>15, <2>1 DEF TypeOK
<1>17. /\ Might("slot_a")' \subseteq Might("slot_a") \cup {first}
       /\ Might("slot_b")' = Might("slot_b") /\ Might("meta")' = Might("meta")
  BY <1>14, <1>15, KeyFacts
<1>18. SlotsInv'
  <2>1. InPlace("slot_a", first.generation) /\ first.key <= ops
    BY <1>8, <1>9 DEF InPlace
  <2>2. \A a \in Might("slot_a")' : a # None => InPlace("slot_a", a.generation) /\ a.key <= ops
    BY <1>17, <2>1, KeyFacts DEF ClientInv, SlotsInv
  <2>3. \A a \in Might("slot_b")' : a # None => InPlace("slot_b", a.generation) /\ a.key <= ops
    BY <1>17, KeyFacts DEF ClientInv, SlotsInv
  <2> QED BY <1>4, <2>2, <2>3, KeyFacts DEF ClientInv, SlotsInv
<1>19. UnownedInv'
  BY <1>7, <1>17 DEF UnownedInv
<1>20. Progress(t)'
  <2>1. OwnSession(t)' = s
    BY <1>12, <1>15 DEF OwnSession
  <2>2. \A b \in Might("slot_b")' : b # None => b.key # ops
    <3>1. \A b \in Might("slot_b") : b # None => b.key < ops /\ b \in SealedSlots
      BY <1>1, <1>6, MightFacts, StorableValues, KeyFacts DEF CreateChecks
    <3> QED BY <1>8, <1>17, <3>1
  <2>3. /\ \A x \in Might("meta")' : x = None
        /\ tasks'[t].plan = From(CreatePlan(first, m), 1)
    BY <1>7, <1>13, <1>15, <1>17
  <2>4. first = FirstSlot(s.vault.key) /\ s = Session("slot_a", FirstSlot(s.vault.key), s.metadata)
    BY <1>9, <1>11
  <2>5. CreateStores(t)'
    BY <1>10, <1>11, <2>1, <2>2, <2>3, <2>4 DEF CreateStores
  <2> QED BY <1>1, <1>15, <2>5 DEF Progress
<1> QED BY <1>1, <1>4, <1>11, <1>12, <1>15, <1>16, <1>18, <1>19, <1>20, CreateGoesOn

-----------------------------------------------------------------------------
(* A session becomes the controller's: it is of the newest slot, which the pointer
   names, and of the metadata. *)
LEMMA Activates ==
  ASSUME ClientInv, NEW t \in TaskIds, tasks[t] # None, tasks[t].kind \in {"create", "unlock"},
         NEW ss \in [SessionIds -> SessionRecords], NEW x \in SessionRecords,
         x = ss[tasks[t].session], \A i \in SessionIds : i # tasks[t].session => ss[i] = sessions[i],
         Mutable(x), VersionStored(x), ContentStored(x), MetadataStored(x), PointerStored(x),
         \A a \in Might(x.vault.slot) : Fits(a),
         acked \subseteq x.vault.content,
         CallsNothing(t), ActivateSession(t, ss), UNCHANGED <<media, ops, ending>>
  PROVE  ClientInv'
<1>1. /\ TypeOK /\ Live(t) /\ tasks[t].session \in SessionIds /\ tasks[t].session # None
      /\ Unlocked(x) /\ x.pending = None /\ x.change = None /\ x.metadata # None
  BY NoneIsNothing DEF ClientInv, Live, SessionsApart, Running, Mutable, VersionStored
<1>2. x.vault \in OpenVaults /\ x.metadata \in Metadata
  BY <1>1 DEF SessionRecords, Unlocked
<1>3. x.vault.content \subseteq Names /\ x.metadata.password \in Names /\ x.vault.slot \in Slots
  BY <1>2 DEF OpenVaults, Metadata
<1>4. /\ sessions' = ss /\ current' = tasks[t].session /\ screen' = "vault" /\ owned' = TRUE
      /\ acked' = acked \cup x.vault.content /\ passwords' = {x.metadata.password}
      /\ tasks' = Rendered(Without(t))
      /\ UNCHANGED <<media, ops, ending>>
  BY DEF ActivateSession
<1>5. /\ reads' \in [TaskIds -> [Keys -> Nat \cup {None}]] /\ writes' = writes
      /\ \A u \in TaskIds : u # t => reads'[u] = reads[u]
  BY <1>1, CallsNothingFacts
<1>6. /\ tasks' \in [TaskIds -> Tasks \cup {None}] /\ tasks'[t] = None
      /\ \A u \in TaskIds : tasks'[u] # None =>
           /\ tasks[u] # None /\ u # t
           /\ tasks'[u].kind = tasks[u].kind /\ tasks'[u].session = tasks[u].session
           /\ tasks'[u].plan = tasks[u].plan /\ tasks'[u].got = tasks[u].got
      /\ \A u \in TaskIds : tasks[u] # None /\ u # t => tasks'[u] # None
  <2>1. /\ Without(t) \in [TaskIds -> Tasks \cup {None}] /\ Without(t)[t] = None
        /\ \A u \in TaskIds : u # t => Without(t)[u] = tasks[u]
    BY <1>1, WithoutFacts
  <2> QED BY <1>4, <2>1, RenderedFacts
<1>7. \A i \in SessionIds : ~Unlocked(ss[i]) => ss[i] = NoSession
  BY <1>1 DEF TypeOK
<1>8. TypeOK'
  BY <1>1, <1>3, <1>4, <1>5, <1>6, <1>7 DEF TypeOK
<1>9. current = None /\ screen # "vault"
  BY DEF ClientInv, OnScreen, Running
<1>10. \A u \in TaskIds : tasks[u] # None /\ u # t =>
         /\ tasks[u].kind \in {"save", "password"} /\ tasks[u].session \in SessionIds
         /\ tasks[u].session # tasks[t].session /\ ~Unlocked(OwnSession(u))
  <2> SUFFICES ASSUME NEW u \in TaskIds, tasks[u] # None, u # t
               PROVE  /\ tasks[u].kind \in {"save", "password"} /\ tasks[u].session \in SessionIds
                      /\ tasks[u].session # tasks[t].session /\ ~Unlocked(OwnSession(u))
    OBVIOUS
  <2>1. ~Live(u)
    BY <1>1 DEF ClientInv, OneLive
  <2>2. tasks[u].kind \in {"save", "password"} /\ ~Unlocked(OwnSession(u))
    BY <2>1 DEF Live
  <2> QED BY <2>2 DEF ClientInv, SessionsApart, Running
<1>11. \A u \in TaskIds : tasks'[u] # None => Surviving(u) /\ ~Live(u)'
  <2> SUFFICES ASSUME NEW u \in TaskIds, tasks'[u] # None PROVE Surviving(u) /\ ~Live(u)'
    OBVIOUS
  <2>1. tasks[u] # None /\ u # t /\ tasks'[u].kind = tasks[u].kind /\ tasks'[u].session = tasks[u].session
    BY <1>6
  <2>2. OwnSession(u)' = OwnSession(u)
    BY <1>4, <1>10, <2>1 DEF OwnSession
  <2> QED BY <1>5, <1>6, <1>10, <2>1, <2>2 DEF Surviving, Live
<1>12. \A i \in SessionIds : Unlocked(sessions'[i]) => i = current'
  <2> SUFFICES ASSUME NEW i \in SessionIds, Unlocked(ss[i]), i # tasks[t].session PROVE FALSE
    BY <1>4
  <2>1. Unlocked(sessions[i])
    OBVIOUS
  <2>2. PICK u \in Running({"create", "unlock"}) : tasks[u].session = i
    BY <1>9, <2>1, NoneIsNothing DEF ClientInv, SessionsApart, ComingUp
  <2> QED BY <1>10, <2>2 DEF Running
<1>13. \A kinds : \A u \in Running(kinds)' : u \in TaskIds /\ tasks'[u].kind \in {"save", "password"}
                                             /\ tasks'[u].kind \in kinds
  BY <1>6, <1>10 DEF Running
<1>14. StructInv'
  <2>1. Running({"destroy", "cleanup"})' = {}
    BY <1>13
  <2> QED BY <1>5, <1>11, <1>12, <2>1, InvParts, SomeEnd
<1>15. OnScreen'
  <2>1. /\ Running({"create"})' = {} /\ Running({"unlock"})' = {} /\ Running({"initialize"})' = {}
        /\ Running({"destroy", "cleanup"})' = {}
    BY <1>13
  <2> QED BY <1>1, <1>4, <2>1 DEF OnScreen
<1>16. PendingIsTask'
  <2> SUFFICES ASSUME NEW i \in SessionIds
      PROVE  /\ ss[i].pending # None => \E u \in Running({"save"})' : tasks'[u].session = i
             /\ ss[i].change # None => \E u \in Running({"password"})' : tasks'[u].session = i
    BY <1>4 DEF PendingIsTask
  <2>1. \A kind \in {"save", "password"} : \A u \in Running({kind}) :
          u \in Running({kind})' /\ tasks'[u].session = tasks[u].session
    BY <1>6 DEF Running
  <2>2. CASE i = tasks[t].session
    BY <1>1, <2>2
  <2>3. CASE i # tasks[t].session
    BY <2>1, <2>3 DEF ClientInv, PendingIsTask
  <2> QED BY <2>2, <2>3
<1>17. \A k \in Keys : Might(k)' = Might(k)
  BY <1>4, <1>5, SameMight
<1>18. SlotsInv'
  BY <1>4, <1>17, KeyFacts DEF ClientInv, SlotsInv
<1>19. /\ VersionStored(x)' /\ ContentStored(x)' /\ MetadataStored(x)' /\ PointerStored(x)'
  BY <1>3, <1>17, KeyFacts, OtherSlot DEF VersionStored, ContentStored, MetadataStored, PointerStored
<1>20. VaultAt(x.vault.slot)'
  <2>1. acked' = x.vault.content
    BY <1>4
  <2>2. \A a \in Might(x.vault.slot)' : Fits(a)
    BY <1>3, <1>17, KeyFacts
  <2> QED BY <1>1, <1>4, <1>19, <2>1, <2>2 DEF VaultAt, VersionStored, ContentStored, MetadataStored
<1>21. OwnedInv' /\ UnownedInv'
  BY <1>3, <1>4, <1>20 DEF OwnedInv, UnownedInv
<1>22. ReportedInv'
  BY <1>4, <1>1, NotReported DEF ReportedInv
<1>23. CurrentInv'
  <2>1. x = sessions'[current'] /\ acked' \subseteq x.vault.content
    BY <1>4
  <2> QED BY <1>1, <1>4, <1>19, <1>20, <2>1 DEF CurrentInv
<1>24. ProgressInv'
  BY <1>11 DEF ProgressInv, Live
<1> QED BY <1>8, <1>14, <1>15, <1>16, <1>18, <1>21, <1>22, <1>23, <1>24 DEF ClientInv, StructInv

LEMMA StoredFits ==
  ASSUME TypeOK, SlotsInv, NEW x \in SessionRecords, Unlocked(x), VersionStored(x), ContentStored(x)
  PROVE  \A a \in Might(x.vault.slot) : Fits(a)
<1>1. x.vault \in OpenVaults
  BY DEF SessionRecords, Unlocked
<1>2. PICK slot \in Slots : slot = x.vault.slot
  BY <1>1 DEF OpenVaults
<1>3. media[slot] \in Might(slot) /\ slot \in Keys
  BY <1>2, MightFacts, KeyFacts
<1>4. Fits(media[slot])
  BY <1>2, <1>3 DEF VersionStored, SlotsInv
<1>5. \A a \in Might(slot) : Version(a) = Version(media[slot])
  BY <1>2, <1>3 DEF VersionStored, ContentStored, Version
<1> QED BY <1>2, <1>4, <1>5 DEF Fits

(* Whatever opens with the metadata and is the newest holds what was acknowledged. *)
LEMMA StoredHoldsAcked ==
  ASSUME ClientInv, NEW x \in SessionRecords, Unlocked(x), VersionStored(x), ContentStored(x),
         MetadataStored(x)
  PROVE  acked \subseteq x.vault.content
<1>1. TypeOK
  BY DEF ClientInv
<1>2. CASE ~owned
  BY <1>2 DEF ClientInv, OwnedInv
<1>3. CASE owned
  <2>1. PICK slot \in Slots : VaultAt(slot)
    BY <1>3 DEF ClientInv, OwnedInv
  <2>2. PICK at \in Slots : at = x.vault.slot
    BY DEF SessionRecords, Unlocked, OpenVaults
  <2>3. /\ media[slot] \in Might(slot) /\ media["meta"] \in Might("meta") /\ media[at] \in Might(at)
        /\ Might(slot) \subseteq SealedSlots \cup {None} /\ Might(at) \subseteq SealedSlots \cup {None}
    BY <1>1, MightFacts, StorableValues, KeyFacts
  <2>4. PICK a \in Might(slot), b \in Might(at) : a = media[slot] /\ b = media[at]
    BY <2>3
  <2>5. /\ a # None /\ acked \subseteq a.content /\ a.key = x.vault.key
        /\ b # None /\ b.key = x.vault.key /\ b.generation = x.vault.generation
        /\ b.content = x.vault.content
    BY <2>1, <2>2, <2>3, <2>4 DEF VaultAt, VersionStored, ContentStored, MetadataStored
  <2>6. CASE at = slot
    BY <2>2, <2>4, <2>5, <2>6
  <2>7. CASE at = Other(slot)
    <3>1. slot = Other(at)
      BY <2>7, OtherSlot
    <3>2. a.generation < x.vault.generation
      BY <2>2, <2>4, <2>5, <3>1 DEF ContentStored
    <3>3. b.generation < a.generation \/ acked \subseteq b.content
      BY <2>1, <2>3, <2>4, <2>5, <2>7 DEF VaultAt
    <3>4. a.generation \in Nat /\ b.generation \in Nat
      BY <2>3, <2>4, <2>5 DEF SealedSlots
    <3> QED BY <2>5, <3>2, <3>3, <3>4
  <2> QED BY <2>6, <2>7, OtherSlot
<1> QED BY <1>2, <1>3

LEMMA StepSessionReady ==
  ASSUME ClientInv, NEW t \in TaskIds, SessionReady(t)
  PROVE  ClientInv'
<1>1. /\ TypeOK /\ AnswerTo(t, "set") /\ Value(t) = StepOf(t).value /\ tasks[t] # None
      /\ tasks[t].kind \in {"create", "unlock"} /\ Len(tasks[t].plan) = 1
      /\ CallsNothing(t) /\ ActivateSession(t, sessions) /\ UNCHANGED <<media, ops, ending>>
  BY AnsweredStep DEF SessionReady, ClientInv
<1>2. Live(t) /\ tasks[t].session \in SessionIds /\ Progress(t) /\ StepOf(t).op = "set"
      /\ Might(StepOf(t).key) = {StepOf(t).value}
  BY <1>1, AnsweredStep DEF Live, ClientInv, ProgressInv, SessionsApart, Running
<1>3. PICK x \in SessionRecords : x = OwnSession(t) /\ x = sessions[tasks[t].session]
  BY <1>1, <1>2 DEF TypeOK, OwnSession
<1>4. CASE tasks[t].kind = "create"
  <2>1. CreateStores(t)
    <3>1. ASSUME CreateChecks(t) PROVE FALSE
      <4>1. StepOf(t) = GetStep("meta")
        BY <3>1 DEF CreateChecks, StepOf
      <4>2. StepOf(t).op = "get"
        BY <4>1 DEF GetStep
      <4> QED BY <1>2, <4>2
    <3> QED BY <1>2, <1>4, <3>1 DEF Progress
  <2>2. PICK y \in SessionRecords, n \in 1..3 :
          /\ y = OwnSession(t) /\ Unlocked(y) /\ y.metadata # None /\ y.metadata \in Metadata
          /\ y.vault.key \in Names /\ y.metadata.key = y.vault.key
          /\ y.vault.slot = "slot_a" /\ y.vault.generation = 0 /\ y.vault.content = {}
          /\ y.pending = None /\ y.change = None
          /\ \A b \in Might("slot_b") : b # None => b.key # y.vault.key
          /\ n > 1 => \A a \in Might("slot_a") : a = FirstSlot(y.vault.key)
          /\ n = 3 => \A m \in Might("meta") : m = y.metadata
          /\ StepOf(t) = CreatePlan(FirstSlot(y.vault.key), y.metadata)[n]
          /\ Len(tasks[t].plan) = 4 - n
    BY <1>1, <1>4, <2>1, StoresFacts
  <2>3. n = 3 /\ x = y
    <3>1. x = y
      BY <1>3, <2>2, Zenon
    <3>2. 4 - n = 1
      BY <1>1, <2>2, Zenon
    <3>3. n = 3
      BY <3>2
    <3> QED BY <3>1, <3>3
  <2>4. PICK sealed \in SealedSlots : /\ sealed = FirstSlot(y.vault.key) /\ Fits(sealed) /\ sealed # None
                                      /\ sealed.key = y.vault.key /\ sealed.generation = 0
                                      /\ sealed.content = {}
    BY <2>2, FirstSlotFacts DEF FirstSlot
  <2>5. StepOf(t) = SetStep("pointer", PointerTo("slot_a", sealed))
    BY <2>2, <2>3, <2>4, CreatePlanFacts
  <2>6. StepOf(t).key = "pointer" /\ StepOf(t).value = [slot |-> "slot_a", generation |-> 0]
    <3>1. PointerTo("slot_a", sealed) = [slot |-> "slot_a", generation |-> 0]
      BY <2>4 DEF PointerTo
    <3>2. StepOf(t) = [op |-> "set", key |-> "pointer", value |-> PointerTo("slot_a", sealed)]
      BY <2>5 DEF SetStep
    <3>3. StepOf(t).value = PointerTo("slot_a", sealed)
      BY <3>2
    <3> QED BY <3>1, <3>2, <3>3
  <2>7. PointerStored(x)
    <3>1. Might("pointer") = {[slot |-> "slot_a", generation |-> 0]}
      BY <1>2, <2>6
    <3>2. x.vault.slot = "slot_a" /\ x.vault.generation = 0
      BY <2>2, <2>3
    <3> QED BY <3>1, <3>2 DEF PointerStored
  <2>8. VersionStored(x) /\ ContentStored(x) /\ MetadataStored(x) /\ Mutable(x)
    <3>1. x.vault.slot = "slot_a" /\ Other("slot_a") = "slot_b" /\ x.vault.generation = 0
      BY <2>2, <2>3, KeyFacts
    <3>2. \A a \in Might("slot_a") : a = sealed
      BY <2>2, <2>3, <2>4
    <3>3. VersionStored(x)
      BY <2>2, <2>3, <2>4, <3>1, <3>2 DEF VersionStored
    <3>4. ContentStored(x)
      BY <2>2, <2>3, <2>4, <3>1, <3>2 DEF ContentStored
    <3>5. MetadataStored(x) /\ Mutable(x)
      BY <2>2, <2>3 DEF MetadataStored, Mutable
    <3> QED BY <3>3, <3>4, <3>5
  <2>9. \A a \in Might(x.vault.slot) : Fits(a)
    BY <2>2, <2>3, <2>4
  <2>10. acked \subseteq x.vault.content
    BY <1>1, <1>4, CreateFacts
  <2> QED BY <1>1, <1>3, <2>7, <2>8, <2>9, <2>10, Activates DEF TypeOK
<1>5. CASE tasks[t].kind = "unlock"
  <2>1. UnlockRepairs(t)
    BY <1>1, <1>2, <1>5 DEF Progress, UnlockReads
  <2>2. /\ Mutable(x) /\ VersionStored(x) /\ ContentStored(x) /\ MetadataStored(x)
        /\ StepOf(t) = SetStep("pointer", [slot |-> x.vault.slot, generation |-> x.vault.generation])
    <3>1. /\ Mutable(x) /\ VersionStored(x) /\ ContentStored(x) /\ MetadataStored(x)
          /\ tasks[t].plan =
               <<SetStep("pointer", [slot |-> x.vault.slot, generation |-> x.vault.generation])>>
      BY <1>3, <2>1 DEF UnlockRepairs
    <3> QED BY <3>1 DEF StepOf
  <2>3. /\ StepOf(t).key = "pointer"
        /\ StepOf(t).value = [slot |-> x.vault.slot, generation |-> x.vault.generation]
    BY <2>2 DEF SetStep
  <2>4. PointerStored(x)
    BY <1>2, <2>3 DEF PointerStored
  <2>5. Unlocked(x)
    BY <2>2 DEF Mutable
  <2>6. (\A a \in Might(x.vault.slot) : Fits(a)) /\ acked \subseteq x.vault.content
    BY <1>1, <2>2, <2>5, StoredFits, StoredHoldsAcked DEF ClientInv
  <2> QED BY <1>1, <1>3, <2>2, <2>4, <2>6, Activates DEF TypeOK
<1> QED BY <1>1, <1>4, <1>5

-----------------------------------------------------------------------------
(* The snapshot of an unlock: what it read is what the keys hold, and will hold. *)
LEMMA UnlockFacts ==
  ASSUME ClientInv, NEW t \in TaskIds, tasks[t] # None, tasks[t].kind = "unlock"
  PROVE  /\ Live(t) /\ tasks[t].session \in SessionIds /\ OwnSession(t) \in SessionRecords
         /\ tasks[t] \in Tasks /\ current = None /\ screen = "locked"
         /\ UnlockReads(t) \/ UnlockRepairs(t)
         /\ ending # "reported"
<1>1. Live(t) /\ t \in Running({"unlock"}) /\ t \in Running({"create", "unlock", "save", "password"})
  BY DEF Live, Running
<1>2. tasks[t].session \in SessionIds
  BY <1>1 DEF ClientInv, SessionsApart
<1>3. screen = "locked" /\ current = None
  BY <1>1 DEF ClientInv, OnScreen
<1>4. UnlockReads(t) \/ UnlockRepairs(t)
  BY <1>1 DEF ClientInv, ProgressInv, Progress
<1>5. OwnSession(t) \in SessionRecords /\ tasks[t] \in Tasks
  BY <1>2 DEF ClientInv, TypeOK, OwnSession
<1> QED BY <1>1, <1>2, <1>3, <1>4, <1>5, NotReported

LEMMA SnapshotReads ==
  ASSUME ClientInv, NEW t \in TaskIds, NEW k \in VaultKeys, Answer(t, k),
         tasks[t].kind = "unlock", tasks[t].plan = <<>>
  PROVE  /\ tasks[t] # None /\ UnlockReads(t) /\ Might(k) = {media[k]}
         /\ tasks[t].got \in [VaultKeys -> Values]
         /\ [tasks[t].got EXCEPT ![k] = media[k]] \in [VaultKeys -> Values]
         /\ \A j \in VaultKeys : j = k \/ reads[t][j] = None =>
              /\ Might(j) = {media[j]} /\ media[j] \in Storable(j)
              /\ [tasks[t].got EXCEPT ![k] = media[k]][j] = media[j]
<1>1. tasks[t] # None /\ reads[t][k] = 0
  BY DEF Answer
<1>2. /\ Live(t) /\ tasks[t] \in Tasks /\ (UnlockReads(t) \/ UnlockRepairs(t))
      /\ TypeOK /\ ReadsLast /\ k \in Keys
  BY <1>1, UnlockFacts, KeyFacts DEF ClientInv
<1>3. UnlockReads(t)
  BY <1>2, UnlockFacts, <1>1 DEF UnlockRepairs
<1>4. Might(k) = {media[k]}
  BY <1>1, <1>2, AnswerSettles, UnlockFacts
<1>5. /\ tasks[t].got \in [VaultKeys -> Values] /\ media[k] \in Values
      /\ [tasks[t].got EXCEPT ![k] = media[k]] \in [VaultKeys -> Values]
  BY <1>1, <1>2, UnlockFacts DEF Tasks, TypeOK
<1>6. ASSUME NEW j \in VaultKeys, j = k \/ reads[t][j] = None
      PROVE  /\ Might(j) = {media[j]} /\ media[j] \in Storable(j)
             /\ [tasks[t].got EXCEPT ![k] = media[k]][j] = media[j]
  <2>1. media[j] \in Might(j) /\ media[j] \in Storable(j)
    BY <1>2, MightFacts, KeyFacts DEF TypeOK
  <2>2. CASE j = k
    BY <1>4, <1>5, <2>1, <2>2
  <2>3. CASE j # k
    <3>1. \A v \in Might(j) : v = tasks[t].got[j]
      BY <1>3, <1>6, <2>3 DEF UnlockReads
    <3> QED BY <1>5, <2>1, <2>3, <3>1
  <2> QED BY <2>2, <2>3
<1> QED BY <1>1, <1>3, <1>4, <1>5, <1>6

(* Of the slots as they are and will be, the one selected is the newest. *)
LEMMA SelectedStored ==
  ASSUME ClientInv, NEW got \in [VaultKeys -> Values],
         \A j \in VaultKeys : Might(j) = {media[j]} /\ media[j] \in Storable(j) /\ got[j] = media[j],
         got["meta"] # None, NEW slot \in Selected(got)
  PROVE  LET x == Session(slot, got[slot], got["meta"]) IN
         /\ slot \in Slots /\ got[slot] \in SealedSlots
         /\ x \in SessionRecords /\ Mutable(x) /\ VersionStored(x) /\ ContentStored(x) /\ MetadataStored(x)
         /\ x.vault.slot = slot /\ x.vault.generation = got[slot].generation
         /\ acked \subseteq x.vault.content /\ \A a \in Might(x.vault.slot) : Fits(a)
<1>1. /\ slot \in Slots /\ got[slot] # None /\ got[slot].key = got["meta"].key
      /\ \A o \in Slots : got[o] # None /\ got[o].key = got["meta"].key /\ Fits(got[o]) =>
           got[o].generation <= got[slot].generation
  BY DEF Selected
<1>2. /\ got[slot] \in SealedSlots /\ got["meta"] \in Metadata
      /\ got[Other(slot)] \in SealedSlots \cup {None}
      /\ Might(slot) = {got[slot]} /\ Might("meta") = {got["meta"]}
      /\ Might(Other(slot)) = {got[Other(slot)]}
      /\ Other(slot) \in Slots /\ Other(slot) # slot
      /\ got[Other(slot)] = media[Other(slot)]
  BY <1>1, KeyFacts, OtherSlot, StorableValues
<1>3. PICK a \in SealedSlots, m \in Metadata : a = got[slot] /\ m = got["meta"]
  BY <1>2
<1>4. PICK x : x = Session(slot, a, m)
  OBVIOUS
<1>5. /\ x.vault.slot = slot /\ x.vault.key = a.key /\ x.vault.generation = a.generation
      /\ x.vault.content = a.content /\ x.metadata = m /\ x.pending = None /\ x.change = None
      /\ x.vault \in OpenVaults /\ x \in SessionRecords
  <2>1. [slot |-> slot, key |-> a.key, generation |-> a.generation, content |-> a.content] \in OpenVaults
    BY <1>1 DEF OpenVaults, SealedSlots
  <2> QED BY <1>4, <2>1 DEF Session, SessionRecords
<1>6. Mutable(x) /\ Unlocked(x)
  BY <1>5, NoneIsNothing DEF Mutable, Unlocked
<1>7. a # None /\ m # None
  BY NoneIsNothing
<1>8. VersionStored(x)
  BY <1>1, <1>2, <1>3, <1>5, <1>7 DEF VersionStored
<1>9. ContentStored(x)
  <2> SUFFICES ASSUME NEW b \in Might(Other(slot)), b # None, b.key = a.key
               PROVE  b.generation < a.generation
    BY <1>2, <1>3, <1>5 DEF ContentStored
  <2>1. b = got[Other(slot)] /\ b \in SealedSlots /\ Fits(b)
    BY <1>2 DEF ClientInv, SlotsInv
  <2>2. b.generation <= a.generation
    BY <1>1, <1>2, <1>3, <2>1
  <2>3. InPlace(slot, a.generation) /\ InPlace(Other(slot), b.generation)
    BY <1>1, <1>2, <1>3, <1>7 DEF ClientInv, SlotsInv
  <2>4. (slot = "slot_a") # (Other(slot) = "slot_a")
    BY <1>1, KeyFacts
  <2>5. (a.generation % 2 = 0) # (b.generation % 2 = 0)
    BY <2>3, <2>4, Zenon DEF InPlace
  <2>6. a.generation \in Nat /\ b.generation \in Nat
    BY <2>1 DEF SealedSlots
  <2> QED BY <2>2, <2>5, <2>6
<1>10. MetadataStored(x)
  BY <1>2, <1>3, <1>5 DEF MetadataStored
<1>11. acked \subseteq x.vault.content /\ \A v \in Might(x.vault.slot) : Fits(v)
  BY <1>5, <1>6, <1>8, <1>9, <1>10, StoredHoldsAcked, StoredFits DEF ClientInv
<1> QED BY <1>1, <1>3, <1>4, <1>5, <1>6, <1>8, <1>9, <1>10, <1>11

LEMMA StepSnapshotPartly ==
  ASSUME ClientInv, NEW t \in TaskIds, NEW k \in VaultKeys, Answer(t, k),
         tasks[t].kind = "unlock", tasks[t].plan = <<>>,
         tasks' = [tasks EXCEPT ![t].got = [tasks[t].got EXCEPT ![k] = media[k]]],
         reads' = [reads EXCEPT ![t][k] = None],
         UNCHANGED <<media, writes, sessions, ui, ops, known>>
  PROVE  ClientInv'
<1> DEFINE got == [tasks[t].got EXCEPT ![k] = media[k]]
<1>1. /\ TypeOK /\ tasks[t] # None /\ UnlockReads(t) /\ got \in [VaultKeys -> Values]
      /\ Might(k) = {media[k]} /\ k \in Keys
      /\ \A j \in VaultKeys : j = k \/ reads[t][j] = None => Might(j) = {media[j]} /\ got[j] = media[j]
  BY SnapshotReads, KeyFacts DEF ClientInv
<1>2. Live(t) /\ tasks[t] \in Tasks
  BY <1>1, UnlockFacts
<1> HIDE DEF got
<1>3. PICK g \in [VaultKeys -> Values] : g = got
  BY <1>1
<1>4. PICK x \in Tasks : x = tasks[t]
  BY <1>2
<1>5. PICK y \in Tasks :
        /\ y = [x EXCEPT !.got = g]
        /\ y.kind = x.kind /\ y.session = x.session /\ y.plan = x.plan /\ y.got = g
  <2> DEFINE z == [x EXCEPT !.got = g]
  <2>1. z \in Tasks /\ z.kind = x.kind /\ z.session = x.session /\ z.plan = x.plan /\ z.got = g
    BY DEF Tasks
  <2> QED BY <2>1
<1>6. /\ tasks' \in [TaskIds -> Tasks \cup {None}] /\ tasks'[t] = y
      /\ \A u \in TaskIds : u # t => tasks'[u] = tasks[u]
  BY <1>1, <1>3, <1>4, <1>5 DEF TypeOK, got
<1>7. /\ reads' \in [TaskIds -> [Keys -> Nat \cup {None}]]
      /\ \A u \in TaskIds : u # t => reads'[u] = reads[u]
      /\ \A j \in Keys : reads'[t][j] = IF j = k THEN None ELSE reads[t][j]
  BY <1>1 DEF TypeOK
<1>8. UNCHANGED <<media, writes, sessions, current, screen, ops, owned, acked, passwords, ending>>
  BY DEF ui, known
<1>9. TypeOK'
  BY <1>1, <1>6, <1>7, <1>8 DEF TypeOK
<1>10. \A j \in Keys : Might(j)' = Might(j)
  BY <1>8, SameMight
<1>11. Progress(t)'
  <2>1. ASSUME NEW j \in VaultKeys, reads'[t][j] = None
        PROVE  \A v \in Might(j)' : v = tasks'[t].got[j]
    <3>1. j \in Keys /\ (j = k \/ reads[t][j] = None)
      BY <1>7, <2>1, KeyFacts
    <3>2. Might(j) = {media[j]} /\ g[j] = media[j]
      BY <1>1, <1>3, <3>1
    <3>3. tasks'[t].got = g /\ Might(j)' = Might(j)
      BY <1>5, <1>6, <1>10, <3>1
    <3> QED BY <3>2, <3>3
  <2>2. tasks'[t].plan = <<>> /\ OwnSession(t)' = NoSession /\ tasks'[t].kind = "unlock"
    BY <1>1, <1>4, <1>5, <1>6, <1>8 DEF UnlockReads, OwnSession
  <2>3. UnlockReads(t)'
    BY <2>1, <2>2 DEF UnlockReads
  <2> QED BY <2>2, <2>3 DEF Progress
<1>12. \A j \in Keys : reads'[t][j] \in {None, Len(writes[j])}
  BY <1>2, <1>7 DEF ClientInv, ReadsLast
<1> QED BY <1>1, <1>4, <1>5, <1>6, <1>7, <1>8, <1>9, <1>11, <1>12, NoneIsNothing, QuietContinues

LEMMA StepRepairs ==
  ASSUME ClientInv, NEW t \in TaskIds, tasks[t] # None, tasks[t].kind = "unlock",
         NEW x \in SessionRecords, Mutable(x), VersionStored(x), ContentStored(x), MetadataStored(x),
         sessions' = [sessions EXCEPT ![tasks[t].session] = x],
         NEW p \in Pointers, p = [slot |-> x.vault.slot, generation |-> x.vault.generation],
         tasks' = [tasks EXCEPT ![t].plan = <<SetStep("pointer", p)>>],
         Calls(t, SetStep("pointer", p)),
         UNCHANGED <<media, ops, ui, known>>
  PROVE  ClientInv'
<1>1. /\ Live(t) /\ tasks[t].session \in SessionIds /\ tasks[t] \in Tasks
      /\ current = None /\ screen = "locked" /\ ending # "reported" /\ TypeOK
  BY UnlockFacts DEF ClientInv
<1>2. PICK step \in Steps : /\ step = SetStep("pointer", p) /\ step.op = "set" /\ step.key = "pointer"
                            /\ step.value = p /\ step.value \in Storable(step.key)
  BY StepFacts, StorableValues, KeyFacts
<1>3. PICK plan \in Seq(Steps) : plan = <<SetStep("pointer", p)>> /\ plan = <<step>>
  <2>1. <<step>> \in Seq(Steps) /\ <<step>> = <<SetStep("pointer", p)>>
    BY <1>2
  <2> QED BY <2>1
<1>4. PICK a \in Tasks : a = tasks[t]
  BY <1>1
<1>5. PICK b \in Tasks :
        /\ b = [a EXCEPT !.plan = plan]
        /\ b.kind = a.kind /\ b.session = a.session /\ b.plan = plan /\ b.got = a.got
  <2> DEFINE z == [a EXCEPT !.plan = plan]
  <2>1. z \in Tasks /\ z.kind = a.kind /\ z.session = a.session /\ z.plan = plan /\ z.got = a.got
    BY DEF Tasks
  <2> QED BY <2>1
<1>6. /\ tasks' \in [TaskIds -> Tasks \cup {None}] /\ tasks'[t] = b
      /\ \A u \in TaskIds : u # t => tasks'[u] = tasks[u]
  BY <1>1, <1>3, <1>4, <1>5 DEF TypeOK
<1>7. /\ writes' \in [Keys -> Seq(Values)] /\ \A k \in Keys : writes'[k] \in Seq(Storable(k))
      /\ reads' \in [TaskIds -> [Keys -> Nat \cup {None}]]
      /\ \A k \in Keys : reads'[t][k] \in {None, Len(writes'[k])}
      /\ \A u \in TaskIds : u # t => reads'[u] = reads[u]
  BY <1>1, <1>2, CallsFacts
<1>8. /\ \A s \in Slots : Might(s)' = Might(s)
      /\ Might("meta")' = Might("meta")
  BY <1>1, <1>2, CallsMight, KeyFacts
<1>9. UNCHANGED <<media, current, screen, ops, owned, acked, passwords, ending>>
  BY DEF ui, known
<1>10. /\ sessions' \in [SessionIds -> SessionRecords] /\ sessions'[tasks[t].session] = x
       /\ \A i \in SessionIds : i # tasks[t].session => sessions'[i] = sessions[i]
       /\ Unlocked(x) /\ x.pending = None /\ x.change = None
  BY <1>1 DEF TypeOK, Mutable
<1>11. TypeOK'
  <2>1. \A i \in SessionIds : ~Unlocked(sessions'[i]) => sessions'[i] = NoSession
    BY <1>1, <1>10 DEF TypeOK
  <2> QED BY <1>1, <1>6, <1>7, <1>9, <1>10, <2>1 DEF TypeOK
<1>12. /\ StructInv' /\ OnScreen' /\ PendingIsTask'
       /\ \A u \in TaskIds : Live(u)' => u = t
  BY <1>1, <1>4, <1>5, <1>6, <1>7, <1>9, <1>10, <1>11, NoneIsNothing, TaskContinues DEF OfSession
<1>13. SlotsInv'
  BY <1>8, <1>9 DEF ClientInv, SlotsInv
<1>14. \A s \in Slots : VaultAt(s) => VaultAt(s)'
  BY <1>8, <1>9, OtherSlot DEF VaultAt
<1>15. OwnedInv'
  BY <1>9, <1>14 DEF ClientInv, OwnedInv
<1>16. UnownedInv'
  BY <1>8, <1>9, KeyFacts DEF ClientInv, UnownedInv
<1>17. ReportedInv' /\ CurrentInv'
  BY <1>1, <1>9 DEF ReportedInv, CurrentInv
<1>18. Progress(t)'
  <2>1. x.vault.slot \in Slots
    BY <1>10 DEF SessionRecords, OpenVaults, Unlocked
  <2>2. VersionStored(x)' /\ ContentStored(x)' /\ MetadataStored(x)'
    BY <1>8, <2>1, OtherSlot DEF VersionStored, ContentStored, MetadataStored
  <2>3. OwnSession(t)' = x /\ tasks'[t].plan = <<SetStep("pointer", p)>> /\ tasks'[t].kind = "unlock"
    BY <1>3, <1>4, <1>5, <1>6, <1>10 DEF OwnSession
  <2>4. UnlockRepairs(t)'
    BY <2>2, <2>3 DEF UnlockRepairs
  <2> QED BY <2>3, <2>4 DEF Progress
<1>19. ProgressInv'
  BY <1>12, <1>18 DEF ProgressInv
<1> QED BY <1>11, <1>12, <1>13, <1>15, <1>16, <1>17, <1>19 DEF ClientInv, StructInv

LEMMA StepSnapshotRead ==
  ASSUME ClientInv, NEW t \in TaskIds, NEW k \in VaultKeys, SnapshotRead(t, k)
  PROVE  ClientInv'
<1> DEFINE got == [tasks[t].got EXCEPT ![k] = media[k]]
           complete == \A j \in VaultKeys \ {k} : reads[t][j] = None
<1>1. /\ Answer(t, k) /\ tasks[t].kind = "unlock" /\ tasks[t].plan = <<>>
      /\ \/ /\ tasks' = [tasks EXCEPT ![t].got = got]
            /\ reads' = [reads EXCEPT ![t][k] = None]
            /\ UNCHANGED <<media, writes, sessions, ui, ops, known>>
         \/ Fails(t)
         \/ /\ complete /\ got["meta"] # None
            /\ \E slot \in Selected(got) : Opened(t, got, slot)
            /\ UNCHANGED <<media, ops>>
  BY DEF SnapshotRead
<1>2. /\ TypeOK /\ tasks[t] # None /\ got \in [VaultKeys -> Values]
      /\ \A j \in VaultKeys : j = k \/ reads[t][j] = None =>
           Might(j) = {media[j]} /\ media[j] \in Storable(j) /\ got[j] = media[j]
  BY <1>1, SnapshotReads DEF ClientInv
<1>3. /\ tasks[t].session \in SessionIds /\ Live(t)
  BY <1>1, <1>2, UnlockFacts
<1>4. CASE /\ tasks' = [tasks EXCEPT ![t].got = got]
           /\ reads' = [reads EXCEPT ![t][k] = None]
           /\ UNCHANGED <<media, writes, sessions, ui, ops, known>>
  BY <1>1, <1>4, StepSnapshotPartly
<1>5. CASE Fails(t)
  BY <1>2, <1>5, StepFails
<1>6. CASE /\ complete /\ got["meta"] # None
           /\ \E slot \in Selected(got) : Opened(t, got, slot)
           /\ UNCHANGED <<media, ops>>
  <2>1. \A j \in VaultKeys : Might(j) = {media[j]} /\ media[j] \in Storable(j) /\ got[j] = media[j]
    BY <1>2, <1>6
  <2> HIDE DEF got, complete
  <2>2. PICK g \in [VaultKeys -> Values] : g = got
    BY <1>2
  <2>3. PICK slot \in Selected(g) : Opened(t, g, slot)
    BY <1>6, <2>2
  <2>4. g["meta"] # None
        /\ \A j \in VaultKeys : Might(j) = {media[j]} /\ media[j] \in Storable(j) /\ g[j] = media[j]
    BY <1>6, <2>1, <2>2
  <2>5. PICK x \in SessionRecords :
          /\ x = Session(slot, g[slot], g["meta"]) /\ slot \in Slots /\ g[slot] \in SealedSlots
          /\ Mutable(x) /\ VersionStored(x) /\ ContentStored(x) /\ MetadataStored(x)
          /\ x.vault.slot = slot /\ x.vault.generation = g[slot].generation
          /\ acked \subseteq x.vault.content /\ \A a \in Might(x.vault.slot) : Fits(a)
    BY <2>4, SelectedStored
  <2>6. PICK p \in Pointers : /\ p = PointerTo(slot, g[slot])
                              /\ p = [slot |-> x.vault.slot, generation |-> x.vault.generation]
    BY <2>5 DEF PointerTo, Pointers, SealedSlots
  <2>7. PICK ss \in [SessionIds -> SessionRecords] :
          /\ ss = [sessions EXCEPT ![tasks[t].session] = x] /\ x = ss[tasks[t].session]
          /\ \A i \in SessionIds : i # tasks[t].session => ss[i] = sessions[i]
    <3> DEFINE ss == [sessions EXCEPT ![tasks[t].session] = x]
    <3>1. /\ ss \in [SessionIds -> SessionRecords] /\ x = ss[tasks[t].session]
          /\ \A i \in SessionIds : i # tasks[t].session => ss[i] = sessions[i]
      BY <1>2, <1>3 DEF TypeOK
    <3> HIDE DEF ss
    <3>2. PICK r \in [SessionIds -> SessionRecords] : r = ss
      BY <3>1
    <3> QED BY <3>1, <3>2 DEF ss
  <2>8. CASE g["pointer"] = p
    <3>1. ActivateSession(t, ss) /\ CallsNothing(t) /\ UNCHANGED ending
      BY <2>3, <2>5, <2>6, <2>7, <2>8 DEF Opened
    <3>2. PointerStored(x)
      BY <2>4, <2>6, <2>8, KeyFacts DEF PointerStored
    <3> QED BY <1>1, <1>2, <1>6, <2>5, <2>7, <3>1, <3>2, Activates
  <2>9. CASE g["pointer"] # p
    <3>1. /\ sessions' = [sessions EXCEPT ![tasks[t].session] = x]
          /\ tasks' = [tasks EXCEPT ![t].plan = <<SetStep("pointer", p)>>]
          /\ Calls(t, SetStep("pointer", p)) /\ UNCHANGED <<ui, known>>
      BY <2>3, <2>5, <2>6, <2>7, <2>9 DEF Opened
    <3> QED BY <1>1, <1>2, <1>6, <2>5, <2>6, <3>1, StepRepairs
  <2> QED BY <2>8, <2>9
<1> QED BY <1>1, <1>4, <1>5, <1>6

-----------------------------------------------------------------------------
(* Only the pointer may change. *)
LEMMA SlotsKept ==
  ASSUME ClientInv, \A s \in Slots : Might(s)' = Might(s), Might("meta")' = Might("meta"),
         UNCHANGED <<media, screen, ops, owned, acked, passwords, ending>>
  PROVE  SlotsInv' /\ OwnedInv' /\ UnownedInv' /\ \A s \in Slots : VaultAt(s) => VaultAt(s)'
<1>1. SlotsInv'
  BY DEF ClientInv, SlotsInv
<1>2. \A s \in Slots : VaultAt(s) => VaultAt(s)'
  BY OtherSlot DEF VaultAt
<1>3. OwnedInv'
  BY <1>2 DEF ClientInv, OwnedInv
<1>4. UnownedInv'
  BY KeyFacts DEF ClientInv, UnownedInv
<1> QED BY <1>1, <1>2, <1>3, <1>4

(* The slot of a save is read back and verified, and the pointer written. *)
LEMMA StepSlotReadBack ==
  ASSUME ClientInv, NEW t \in TaskIds, SlotReadBack(t)
  PROVE  ClientInv'
<1> DEFINE plan == Tail(tasks[t].plan)
<1>1. /\ TypeOK /\ AnswerTo(t, "get") /\ tasks[t].kind = "save" /\ Len(tasks[t].plan) > 1
      /\ tasks[t] # None /\ StepOf(t).op = "get"
  BY AnsweredStep DEF SlotReadBack, ClientInv
<1>2. ~SlotVerifies(sessions[tasks[t].session], Value(t)) => Fails(t)
  BY DEF SlotReadBack
<1>3. SUFFICES ASSUME SlotVerifies(sessions[tasks[t].session], Value(t)) PROVE ClientInv'
  BY <1>1, <1>2, StepFails
<1>4. /\ sessions' = [sessions EXCEPT ![tasks[t].session] = WithVerifiedSlot(@)]
      /\ GoesOn(t, plan)
      /\ UNCHANGED <<media, current, screen, ops, owned, acked, passwords, ending>>
  BY <1>3 DEF SlotReadBack, ui, known
<1>5. Live(t)
  BY <1>1, <1>3 DEF SlotVerifies, Live, OwnSession
<1>6. PICK x \in SessionRecords, n \in 1..4 :
        /\ x = OwnSession(t) /\ tasks[t].session \in SessionIds /\ tasks[t].session = current
        /\ Unlocked(x) /\ x.vault \in OpenVaults /\ x.pending \in PendingSaves /\ x.pending # None
        /\ x.change = None /\ IsNextSlot(x, x.pending.slot, x.pending.sealed)
        /\ x.pending.slot \in Slots /\ x.pending.sealed \in SealedSlots
        /\ n > 1 => \A b \in Might(x.pending.slot) : b = x.pending.sealed
        /\ StepOf(t) = SavePlan(x.pending.slot, x.pending.sealed)[n]
        /\ Len(tasks[t].plan) = 5 - n
        /\ n < 4 => plan = From(SavePlan(x.pending.slot, x.pending.sealed), n + 1)
  BY <1>1, <1>5, SaveFacts
<1>7. n = 2
  <2>1. (StepOf(t).op = "set") = (n \in {1, 3})
    BY <1>6, SavePlanFacts
  <2>2. n \notin {1, 3}
    BY <1>1, <2>1
  <2>3. 5 - n > 1
    BY <1>1, <1>6, Zenon
  <2> QED BY <2>2, <2>3
<1> HIDE DEF plan
<1>8. PICK slot \in Slots, sealed \in SealedSlots : slot = x.pending.slot /\ sealed = x.pending.sealed
  BY <1>6
<1>9. PICK p \in Seq(Steps) :
        /\ p = plan /\ p = From(SavePlan(slot, sealed), 3) /\ p # <<>> /\ GoesOn(t, p)
        /\ Head(p) = SetStep("pointer", PointerTo(slot, sealed))
  <2>1. plan = From(SavePlan(slot, sealed), 3)
    <3>1. n < 4 /\ n + 1 = 3
      BY <1>7
    <3> QED BY <1>6, <1>8, <3>1
  <2>2. PICK q \in Seq(Steps) : /\ q = SavePlan(slot, sealed) /\ Len(q) = 4
                                /\ q[3] = SetStep("pointer", PointerTo(slot, sealed))
    BY SavePlanFacts
  <2>3. From(q, 3) \in Seq(Steps) /\ From(q, 3) # <<>> /\ Head(From(q, 3)) = q[3]
    <3>1. 3 \in 1..Len(q)
      BY <2>2
    <3> QED BY <3>1, FromFacts
  <2> QED BY <1>4, <2>1, <2>2, <2>3
<1>10. PICK step \in Steps : /\ step = Head(p) /\ step.key = "pointer"
                             /\ step.value \in Storable(step.key)
  <2>1. PointerTo(slot, sealed) \in Storable("pointer") /\ "pointer" \in Keys
    BY SavePlanFacts, KeyFacts
  <2> QED BY <1>9, <2>1, StepFacts
<1>11. /\ tasks' \in [TaskIds -> Tasks \cup {None}] /\ tasks'[t] # None
       /\ tasks'[t].kind = tasks[t].kind /\ tasks'[t].session = tasks[t].session
       /\ tasks'[t].plan = p
       /\ writes' \in [Keys -> Seq(Values)] /\ \A k \in Keys : writes'[k] \in Seq(Storable(k))
       /\ reads' \in [TaskIds -> [Keys -> Nat \cup {None}]]
       /\ \A k \in Keys : reads'[t][k] \in {None, Len(writes'[k])}
       /\ \A u \in TaskIds : u # t => tasks'[u] = tasks[u] /\ reads'[u] = reads[u]
       /\ \A k \in Keys : k # step.key => Might(k)' = Might(k)
  BY <1>1, <1>4, <1>9, <1>10, GoesOnWrites
<1>12. PICK y \in SessionRecords :
         /\ y = WithVerifiedSlot(x) /\ y.vault = x.vault /\ y.metadata = x.metadata /\ y.change = None
         /\ y.pending # None /\ y.pending.slot = slot /\ y.pending.sealed = sealed
         /\ y.pending.verified = TRUE
  <2> DEFINE z == WithVerifiedSlot(x)
  <2>1. [x.pending EXCEPT !.verified = TRUE] \in PendingSaves
    BY <1>6 DEF PendingSaves
  <2>2. z = [x EXCEPT !.pending = [x.pending EXCEPT !.verified = TRUE]]
    BY DEF WithVerifiedSlot, SessionRecords
  <2>3. z \in SessionRecords /\ z.vault = x.vault /\ z.metadata = x.metadata /\ z.change = None
        /\ z.pending = [x.pending EXCEPT !.verified = TRUE]
    BY <1>6, <2>1, <2>2 DEF SessionRecords
  <2>4. /\ z.pending.slot = slot /\ z.pending.sealed = sealed /\ z.pending.verified = TRUE
        /\ z.pending # None
    BY <1>6, <1>8, <2>1, <2>3, NoneIsNothing DEF PendingSaves
  <2> HIDE DEF z
  <2>5. PICK r \in SessionRecords : r = z
    BY <2>3
  <2> QED BY <2>3, <2>4, <2>5 DEF z
<1>13. /\ sessions' \in [SessionIds -> SessionRecords] /\ sessions'[current] = y
       /\ \A i \in SessionIds : i # current => sessions'[i] = sessions[i]
  BY <1>1, <1>4, <1>6, <1>12 DEF TypeOK, OwnSession
<1>14. TypeOK'
  <2>1. \A i \in SessionIds : ~Unlocked(sessions'[i]) => sessions'[i] = NoSession
    BY <1>1, <1>6, <1>12, <1>13 DEF TypeOK, Unlocked
  <2> QED BY <1>1, <1>4, <1>11, <1>13, <2>1 DEF TypeOK
<1>15. /\ \A s \in Slots : Might(s)' = Might(s)
       /\ Might("meta")' = Might("meta")
  BY <1>10, <1>11, KeyFacts
<1>16. \A j \in DOMAIN tasks'[t].plan :
         tasks'[t].plan[j].op = "set" => j < Len(tasks'[t].plan) /\ tasks'[t].plan[j + 1].op = "get"
  <2>1. /\ tasks[t].plan \in Seq(Steps) /\ tasks[t].plan # <<>>
        /\ \A j \in DOMAIN tasks[t].plan :
             tasks[t].plan[j].op = "set" => j < Len(tasks[t].plan) /\ tasks[t].plan[j + 1].op = "get"
    BY <1>1, TaskPlan DEF ClientInv, ReadsBack, Running
  <2>2. \A j \in DOMAIN plan : plan[j].op = "set" => j < Len(plan) /\ plan[j + 1].op = "get"
    BY <1>1, <2>1, TailReadsBack DEF plan
  <2> QED BY <1>9, <1>11, <2>2
<1>17. /\ StructInv' /\ OnScreen' /\ PendingIsTask'
       /\ \A u \in TaskIds : Live(u)' => u = t
  <2>1. \A i \in SessionIds :
           \/ sessions'[i] = sessions[i]
           \/ /\ i = tasks[t].session /\ Unlocked(sessions'[i])
              /\ sessions[i].pending # None
              /\ sessions'[i].change = None
    BY <1>6, <1>12, <1>13 DEF OwnSession, Unlocked
  <2>2. OfSession(t) /\ tasks'[t].kind = tasks[t].kind
    BY <1>1, <1>11 DEF OfSession
  <2> QED BY <1>1, <1>4, <1>5, <1>9, <1>11, <1>14, <1>16, <2>1, <2>2, TaskContinues
<1>18. SlotsInv' /\ OwnedInv' /\ UnownedInv' /\ \A s \in Slots : VaultAt(s) => VaultAt(s)'
  BY <1>4, <1>15, SlotsKept
<1>19. ReportedInv'
  BY <1>1, <1>4, NotReported DEF ReportedInv
<1>20. CurrentInv'
  <2>1. /\ owned /\ VaultAt(x.vault.slot) /\ acked \subseteq x.vault.content /\ VersionStored(x)
        /\ MetadataStored(x) /\ x.vault.slot \in Slots /\ current # None
    BY <1>6, NoneIsNothing DEF ClientInv, CurrentInv, OwnSession, OpenVaults
  <2>2. /\ VaultAt(y.vault.slot)' /\ VersionStored(y)' /\ MetadataStored(y)'
    BY <1>12, <1>15, <1>18, <2>1 DEF VersionStored, MetadataStored
  <2>3. owned' /\ acked' \subseteq y.vault.content /\ y = sessions'[current']
    BY <1>4, <1>12, <1>13, <2>1
  <2> QED BY <1>12, <2>2, <2>3 DEF CurrentInv
<1>21. Progress(t)'
  <2>1. OwnSession(t)' = y
    BY <1>6, <1>11, <1>13 DEF OwnSession
  <2>2. IsNextSlot(y, slot, sealed)
    BY <1>6, <1>8, <1>12 DEF IsNextSlot, NextSealed
  <2>3. \A b \in Might(slot)' : b = sealed
    BY <1>6, <1>7, <1>8, <1>15
  <2>6. 3 \in 1..4 /\ (3 > 2) = TRUE
    OBVIOUS
  <2>7. tasks'[t].plan = From(SavePlan(slot, sealed), 3)
    BY <1>9, <1>11, Zenon
  <2>8. y.pending.verified = (3 > 2)
    BY <1>12, <2>6, Zenon
  <2>9. (3 = 4) = FALSE
    OBVIOUS
  <2>5. SaveInv(t)'
    BY <1>12, <2>1, <2>2, <2>3, <2>6, <2>7, <2>8, <2>9 DEF SaveInv
  <2> QED BY <1>1, <1>11, <2>5 DEF Progress
<1>22. ProgressInv'
  BY <1>17, <1>21 DEF ProgressInv
<1> QED BY <1>14, <1>17, <1>18, <1>19, <1>20, <1>22 DEF ClientInv, StructInv

-----------------------------------------------------------------------------
(* A save or a password change of the controller's session ends well: the storage
   holds what the session now says. *)
LEMMA CommitEnds ==
  ASSUME ClientInv, NEW t \in TaskIds, Live(t), tasks[t].kind \in {"save", "password"},
         tasks[t].session = current, NEW y \in SessionRecords,
         Unlocked(y), y.pending = None, y.change = None,
         sessions' = [sessions EXCEPT ![current] = y],
         CallsNothing(t), tasks' = Rendered(Without(t)), screen' = "vault",
         UNCHANGED <<media, current, ops, owned, ending>>,
         acked' \subseteq Names, passwords' \subseteq Names, acked' \subseteq y.vault.content,
         VaultAt(y.vault.slot)', VersionStored(y)', ContentStored(y)', MetadataStored(y)', PointerStored(y)'
  PROVE  ClientInv'
<1>1. /\ TypeOK /\ tasks[t] # None /\ tasks[t].session \in SessionIds /\ Unlocked(OwnSession(t))
      /\ current \in SessionIds /\ current # None
  BY NoneIsNothing DEF ClientInv, Live, SessionsApart, Running
<1>2. y.vault \in OpenVaults /\ y.vault.slot \in Slots
  BY DEF SessionRecords, Unlocked, OpenVaults
<1>3. /\ sessions' \in [SessionIds -> SessionRecords] /\ sessions'[current] = y
      /\ \A i \in SessionIds : i # current => sessions'[i] = sessions[i]
  BY <1>1 DEF TypeOK
<1>4. owned /\ screen = "vault"
  BY <1>1 DEF ClientInv, CurrentInv, OnScreen, OwnSession
<1>5. /\ reads' \in [TaskIds -> [Keys -> Nat \cup {None}]] /\ writes' = writes
      /\ \A u \in TaskIds : u # t => reads'[u] = reads[u]
  BY <1>1, CallsNothingFacts
<1>6. /\ tasks' \in [TaskIds -> Tasks \cup {None}] /\ tasks'[t] = None
      /\ \A u \in TaskIds : tasks'[u] # None =>
           /\ tasks[u] # None /\ u # t
           /\ tasks'[u].kind = tasks[u].kind /\ tasks'[u].session = tasks[u].session
           /\ tasks'[u].plan = tasks[u].plan /\ tasks'[u].got = tasks[u].got
      /\ \A u \in TaskIds : tasks[u] # None /\ u # t => tasks'[u] # None
  <2>1. /\ Without(t) \in [TaskIds -> Tasks \cup {None}] /\ Without(t)[t] = None
        /\ \A u \in TaskIds : u # t => Without(t)[u] = tasks[u]
    BY <1>1, WithoutFacts
  <2> QED BY <2>1, RenderedFacts
<1>7. \A i \in SessionIds : ~Unlocked(sessions'[i]) => sessions'[i] = NoSession
  BY <1>1, <1>3 DEF TypeOK
<1>8. TypeOK'
  BY <1>1, <1>3, <1>4, <1>5, <1>6, <1>7 DEF TypeOK
<1>9. \A u \in TaskIds : tasks[u] # None /\ u # t =>
        /\ tasks[u].kind \in {"save", "password"} /\ tasks[u].session \in SessionIds
        /\ tasks[u].session # current /\ ~Unlocked(OwnSession(u))
  <2> SUFFICES ASSUME NEW u \in TaskIds, tasks[u] # None, u # t
               PROVE  /\ tasks[u].kind \in {"save", "password"} /\ tasks[u].session \in SessionIds
                      /\ tasks[u].session # current /\ ~Unlocked(OwnSession(u))
    OBVIOUS
  <2>1. ~Live(u)
    BY <1>1 DEF ClientInv, OneLive
  <2>2. tasks[u].kind \in {"save", "password"} /\ ~Unlocked(OwnSession(u))
    BY <2>1 DEF Live
  <2>3. tasks[u].session # current
    BY <1>1, <2>2 DEF OwnSession
  <2> QED BY <2>2, <2>3 DEF ClientInv, SessionsApart, Running
<1>10. \A u \in TaskIds : tasks'[u] # None => Surviving(u) /\ ~Live(u)'
  <2> SUFFICES ASSUME NEW u \in TaskIds, tasks'[u] # None PROVE Surviving(u) /\ ~Live(u)'
    OBVIOUS
  <2>1. tasks[u] # None /\ u # t /\ tasks'[u].kind = tasks[u].kind /\ tasks'[u].session = tasks[u].session
    BY <1>6
  <2>2. OwnSession(u)' = OwnSession(u)
    BY <1>3, <1>9, <2>1 DEF OwnSession
  <2> QED BY <1>5, <1>6, <1>9, <2>1, <2>2 DEF Surviving, Live
<1>11. \A kinds : \A u \in Running(kinds)' : u \in TaskIds /\ tasks'[u].kind \in {"save", "password"}
                                             /\ tasks'[u].kind \in kinds
  BY <1>6, <1>9 DEF Running
<1>12. \A i \in SessionIds : Unlocked(sessions'[i]) => i = current'
  <2> SUFFICES ASSUME NEW i \in SessionIds, Unlocked(sessions'[i]), i # current PROVE FALSE
    OBVIOUS
  <2>1. Unlocked(sessions[i])
    BY <1>3
  <2>2. PICK u \in Running({"create", "unlock"}) : tasks[u].session = i
    BY <2>1 DEF ClientInv, SessionsApart, ComingUp
  <2> QED BY <1>9, <2>2 DEF Running
<1>13. StructInv'
  <2>1. Running({"destroy", "cleanup"})' = {}
    BY <1>11
  <2> QED BY <1>5, <1>10, <1>12, <2>1, InvParts, SomeEnd
<1>14. OnScreen'
  <2>1. /\ Running({"create"})' = {} /\ Running({"unlock"})' = {} /\ Running({"initialize"})' = {}
        /\ Running({"destroy", "cleanup"})' = {}
    BY <1>11
  <2> QED BY <1>1, <2>1 DEF OnScreen
<1>15. PendingIsTask'
  <2> SUFFICES ASSUME NEW i \in SessionIds
      PROVE  /\ sessions'[i].pending # None => \E u \in Running({"save"})' : tasks'[u].session = i
             /\ sessions'[i].change # None => \E u \in Running({"password"})' : tasks'[u].session = i
    BY DEF PendingIsTask
  <2>1. \A kind \in {"save", "password"} : \A u \in Running({kind}) : u # t =>
          u \in Running({kind})' /\ tasks'[u].session = tasks[u].session
    BY <1>6 DEF Running
  <2>2. CASE i = current
    BY <1>3, <2>2
  <2>3. CASE i # current
    BY <1>3, <2>1, <2>3 DEF ClientInv, PendingIsTask
  <2> QED BY <2>2, <2>3
<1>16. \A k \in Keys : Might(k)' = Might(k)
  BY <1>5, SameMight
<1>17. SlotsInv'
  BY <1>16, KeyFacts DEF ClientInv, SlotsInv
<1>18. OwnedInv' /\ UnownedInv'
  BY <1>2, <1>4 DEF OwnedInv, UnownedInv
<1>19. ReportedInv'
  BY <1>1, NotReported DEF ReportedInv
<1>20. CurrentInv'
  BY <1>3, <1>4 DEF CurrentInv
<1>21. ProgressInv'
  BY <1>10 DEF ProgressInv, Live
<1> QED BY <1>8, <1>13, <1>14, <1>15, <1>17, <1>18, <1>19, <1>20, <1>21 DEF ClientInv, StructInv

(* The pointer of a save is read back: the session is of the slot it wrote. *)
LEMMA StepPointerReadBack ==
  ASSUME ClientInv, NEW t \in TaskIds, PointerReadBack(t)
  PROVE  ClientInv'
<1>1. /\ TypeOK /\ AnswerTo(t, "get") /\ tasks[t].kind = "save" /\ Len(tasks[t].plan) = 1
      /\ tasks[t] # None
  BY AnsweredStep DEF PointerReadBack, ClientInv
<1>2. ~SaveCommits(sessions[tasks[t].session], Value(t)) => Fails(t)
  BY DEF PointerReadBack
<1>3. SUFFICES ASSUME SaveCommits(sessions[tasks[t].session], Value(t)) PROVE ClientInv'
  BY <1>1, <1>2, StepFails
<1>4. Live(t)
  BY <1>1, <1>3 DEF SaveCommits, Live, OwnSession
<1>5. PICK x \in SessionRecords, n \in 1..4 :
        /\ x = OwnSession(t) /\ tasks[t].session \in SessionIds /\ tasks[t].session = current
        /\ Unlocked(x) /\ x.vault \in OpenVaults /\ x.pending \in PendingSaves /\ x.pending # None
        /\ x.change = None /\ IsNextSlot(x, x.pending.slot, x.pending.sealed)
        /\ x.pending.slot \in Slots /\ x.pending.sealed \in SealedSlots
        /\ n > 1 => \A b \in Might(x.pending.slot) : b = x.pending.sealed
        /\ n = 4 => \A p \in Might("pointer") : p = PointerTo(x.pending.slot, x.pending.sealed)
        /\ Len(tasks[t].plan) = 5 - n
  BY <1>1, <1>4, SaveFacts
<1>6. n = 4
  <2>1. 5 - n = 1
    BY <1>1, <1>5, Zenon
  <2> QED BY <2>1
<1>7. PICK slot \in Slots, sealed \in SealedSlots :
        /\ slot = x.pending.slot /\ sealed = x.pending.sealed
        /\ slot = Other(x.vault.slot) /\ sealed.key = x.vault.key
        /\ sealed.generation = x.vault.generation + 1 /\ sealed.content = x.vault.content
  BY <1>5 DEF IsNextSlot, NextSealed
<1>8. /\ \A b \in Might(slot) : b = sealed
      /\ \A p \in Might("pointer") : p = [slot |-> slot, generation |-> sealed.generation]
  BY <1>5, <1>6, <1>7 DEF PointerTo
<1>9. PICK y \in SessionRecords :
        /\ y = WithCommittedSave(x) /\ Unlocked(y) /\ y.vault.slot = slot
        /\ y.vault.generation = sealed.generation /\ y.vault.key = x.vault.key
        /\ y.vault.content = x.vault.content /\ y.metadata = x.metadata
        /\ y.pending = None /\ y.change = None
  <2> DEFINE z == WithCommittedSave(x)
             v == [x.vault EXCEPT !.slot = slot, !.generation = sealed.generation]
  <2>1. v \in OpenVaults /\ v.slot = slot /\ v.generation = sealed.generation
        /\ v.key = x.vault.key /\ v.content = x.vault.content
    BY <1>5, <1>7 DEF OpenVaults, SealedSlots
  <2>2. z = [x EXCEPT !.vault = v, !.pending = None]
    BY <1>5, <1>7 DEF WithCommittedSave, SessionRecords
  <2> HIDE DEF v
  <2>3. z \in SessionRecords /\ z.vault = v /\ z.metadata = x.metadata /\ z.change = None
        /\ z.pending = None
    BY <1>5, <2>1, <2>2 DEF SessionRecords
  <2>4. Unlocked(z)
    BY <2>1, <2>3, NoneIsNothing DEF Unlocked
  <2> HIDE DEF z
  <2>5. PICK r \in SessionRecords : r = z
    BY <2>3
  <2> QED BY <2>1, <2>3, <2>4, <2>5 DEF z
<1>10. PICK ss \in [SessionIds -> SessionRecords] :
         /\ ss = [sessions EXCEPT ![tasks[t].session] = WithCommittedSave(@)]
         /\ ss = [sessions EXCEPT ![current] = y] /\ ss[current] = y
  <2>1. sessions \in [SessionIds -> SessionRecords] /\ sessions[current] = x /\ current \in SessionIds
    BY <1>1, <1>5 DEF TypeOK, OwnSession
  <2>2. [sessions EXCEPT ![current] = y] \in [SessionIds -> SessionRecords]
        /\ [sessions EXCEPT ![current] = y][current] = y
    BY <2>1
  <2>3. [sessions EXCEPT ![tasks[t].session] = WithCommittedSave(@)] = [sessions EXCEPT ![current] = y]
    BY <1>5, <1>9, <2>1, Zenon
  <2> QED BY <2>2, <2>3
<1>11. current # None /\ current \in SessionIds
  BY <1>5, NoneIsNothing
<1>12. /\ CallsNothing(t) /\ sessions' = ss /\ tasks' = Rendered(Without(t)) /\ screen' = "vault"
       /\ acked' = acked \cup y.vault.content
       /\ UNCHANGED <<media, current, ops, owned, passwords, ending>>
  BY <1>3, <1>5, <1>9, <1>10, <1>11 DEF PointerReadBack
<1>13. /\ VaultAt(x.vault.slot) /\ acked \subseteq x.vault.content /\ VersionStored(x) /\ MetadataStored(x)
  BY <1>5, <1>11 DEF ClientInv, CurrentInv, OwnSession
<1>14. writes' = writes /\ \A k \in Keys : Might(k)' = Might(k)
  BY <1>1, <1>12, CallsNothingFacts, SameMight
<1>15. acked' = x.vault.content /\ x.vault.content \subseteq Names /\ passwords' \subseteq Names
  BY <1>1, <1>5, <1>9, <1>12, <1>13 DEF OpenVaults, TypeOK
<1>16. PICK old \in Slots : old = x.vault.slot /\ slot = Other(old) /\ old = Other(slot)
  BY <1>5, <1>7, OtherSlot DEF OpenVaults
<1>17. /\ \A b \in Might(slot)' : b = sealed
       /\ \A b \in Might(old)' : b # None /\ b.generation = x.vault.generation
       /\ \A m \in Might("meta")' : m = x.metadata
       /\ \A p \in Might("pointer")' : p = [slot |-> slot, generation |-> sealed.generation]
  BY <1>8, <1>13, <1>14, <1>16, KeyFacts DEF VersionStored, MetadataStored
<1>18. x.vault.generation < sealed.generation /\ x.vault.generation \in Nat
  BY <1>5, <1>7 DEF OpenVaults
<1>19. Fits(sealed) /\ sealed # None
  <2>1. media[slot] \in Might(slot)
    BY <1>1, MightFacts, KeyFacts
  <2>2. media[slot] = sealed /\ sealed # None
    BY <1>8, <2>1, NoneIsNothing
  <2> QED BY <2>2 DEF ClientInv, SlotsInv
<1>20. x.metadata # None /\ x.metadata.key = x.vault.key /\ x.metadata.password \in passwords
  <2>1. x.metadata # None /\ x.metadata.key = x.vault.key
    BY <1>13 DEF VersionStored
  <2>2. media["meta"] \in Might("meta") /\ media[old] \in Might(old)
    BY <1>1, MightFacts, KeyFacts
  <2> QED BY <1>13, <1>16, <2>1, <2>2 DEF VaultAt, MetadataStored
<1>21. VaultAt(y.vault.slot)'
  <2> SUFFICES ASSUME NEW a \in Might(slot)', NEW m \in Might("meta")', NEW b \in Might(old)'
               PROVE  /\ a # None /\ Fits(a) /\ acked' \subseteq a.content
                      /\ m # None /\ m.key = a.key /\ m.password \in passwords'
                      /\ b # None /\ b.key = a.key => b.generation < a.generation
    <3>1. media[old] \in Might(old)'
      BY <1>1, <1>14, MightFacts, KeyFacts
    <3> QED BY <1>9, <1>16, <3>1 DEF VaultAt
  <2> QED BY <1>7, <1>12, <1>15, <1>17, <1>18, <1>19, <1>20
<1>22. /\ VersionStored(y)' /\ ContentStored(y)' /\ MetadataStored(y)' /\ PointerStored(y)'
  <2>1. VersionStored(y)'
    BY <1>7, <1>9, <1>17, <1>19, <1>20 DEF VersionStored
  <2>2. ContentStored(y)'
    BY <1>7, <1>9, <1>16, <1>17, <1>18 DEF ContentStored
  <2>3. MetadataStored(y)' /\ PointerStored(y)'
    BY <1>9, <1>17 DEF MetadataStored, PointerStored
  <2> QED BY <2>1, <2>2, <2>3
<1>23. acked' \subseteq Names /\ acked' \subseteq y.vault.content
  BY <1>9, <1>15
<1> QED BY <1>1, <1>4, <1>5, <1>9, <1>10, <1>12, <1>15, <1>21, <1>22, <1>23, CommitEnds

(* The metadata of a password change is read back: only the new password opens it. *)
LEMMA StepMetadataReadBack ==
  ASSUME ClientInv, NEW t \in TaskIds, MetadataReadBack(t)
  PROVE  ClientInv'
<1>1. /\ TypeOK /\ AnswerTo(t, "get") /\ tasks[t].kind = "password"
      /\ tasks[t] # None /\ StepOf(t).op = "get"
  BY AnsweredStep DEF MetadataReadBack, ClientInv
<1>2. ~PasswordCommits(sessions[tasks[t].session], Value(t)) => Fails(t)
  BY DEF MetadataReadBack
<1>3. SUFFICES ASSUME PasswordCommits(sessions[tasks[t].session], Value(t)) PROVE ClientInv'
  BY <1>1, <1>2, StepFails
<1>4. Live(t)
  <2>1. t \in Running({"password"})
    BY <1>1 DEF Running
  <2>2. tasks[t].session \in SessionIds
    BY <2>1 DEF ClientInv, SessionsApart, Running
  <2>3. ~Unlocked(OwnSession(t)) => sessions[tasks[t].session] = NoSession
    BY <1>1, <2>2 DEF TypeOK, OwnSession
  <2> QED BY <1>1, <1>3, <2>3, NoSessionFacts DEF PasswordCommits, Live
<1>5. PICK x \in SessionRecords, n \in 1..2 :
        /\ x = OwnSession(t) /\ tasks[t].session \in SessionIds /\ tasks[t].session = current
        /\ Unlocked(x) /\ x.vault \in OpenVaults /\ x.change \in Metadata /\ x.change # None
        /\ x.pending = None /\ x.change.key = x.vault.key
        /\ n = 2 => \A m \in Might("meta") : m = x.change
        /\ StepOf(t) = ChangePlan(x.change)[n]
  BY <1>1, <1>4, ChangeFacts
<1>6. n = 2
  <2>1. ChangePlan(x.change)[1].op = "set"
    BY <1>5, ChangePlanFacts
  <2>2. n # 1
    BY <1>1, <1>5, <2>1
  <2> QED BY <2>2
<1>7. Value(t) = x.change
  BY <1>3, <1>5 DEF PasswordCommits, OwnSession
<1>8. PICK y \in SessionRecords :
        /\ y = WithCommittedPassword(x) /\ Unlocked(y) /\ y.vault = x.vault /\ y.metadata = x.change
        /\ y.pending = None /\ y.change = None
  <2> DEFINE z == WithCommittedPassword(x)
  <2>1. z = [x EXCEPT !.metadata = x.change, !.change = None]
    BY DEF WithCommittedPassword
  <2>2. z \in SessionRecords /\ z.vault = x.vault /\ z.metadata = x.change /\ z.change = None
        /\ z.pending = None
    BY <1>5, <2>1 DEF SessionRecords
  <2>3. Unlocked(z)
    BY <1>5, <2>2 DEF Unlocked
  <2> HIDE DEF z
  <2>4. PICK r \in SessionRecords : r = z
    BY <2>2
  <2> QED BY <2>2, <2>3, <2>4 DEF z
<1>9. PICK ss \in [SessionIds -> SessionRecords] :
        /\ ss = [sessions EXCEPT ![tasks[t].session] = WithCommittedPassword(@)]
        /\ ss = [sessions EXCEPT ![current] = y]
  <2>1. sessions \in [SessionIds -> SessionRecords] /\ sessions[current] = x
    BY <1>1, <1>5 DEF TypeOK, OwnSession
  <2> QED BY <1>5, <1>8, <2>1
<1>10. current # None /\ current \in SessionIds
  BY <1>5, NoneIsNothing
<1>11. /\ CallsNothing(t) /\ sessions' = ss /\ tasks' = Rendered(Without(t)) /\ screen' = "vault"
       /\ passwords' = {x.change.password}
       /\ UNCHANGED <<media, current, ops, owned, acked, ending>>
  BY <1>3, <1>7, <1>9 DEF MetadataReadBack
<1>12. /\ VaultAt(x.vault.slot) /\ acked \subseteq x.vault.content /\ VersionStored(x)
       /\ ContentStored(x) /\ PointerStored(x)
  BY <1>5, <1>10 DEF ClientInv, CurrentInv, OwnSession
<1>13. writes' = writes /\ \A k \in Keys : Might(k)' = Might(k)
  BY <1>1, <1>11, CallsNothingFacts, SameMight
<1>14. PICK slot \in Slots : slot = x.vault.slot
  BY <1>5 DEF OpenVaults
<1>15. \A m \in Might("meta")' : m = x.change
  BY <1>5, <1>6, <1>13, KeyFacts
<1>16. VaultAt(y.vault.slot)'
  <2> SUFFICES ASSUME NEW a \in Might(slot)', NEW m \in Might("meta")', NEW b \in Might(Other(slot))'
               PROVE  /\ a # None /\ Fits(a) /\ acked' \subseteq a.content
                      /\ m # None /\ m.key = a.key /\ m.password \in passwords'
                      /\ b # None /\ b.key = a.key =>
                           \/ b.generation < a.generation
                           \/ b.generation = a.generation + 1 /\ acked' \subseteq b.content
    <3>1. media[Other(slot)] \in Might(Other(slot))'
      BY <1>1, <1>13, <1>14, MightFacts, KeyFacts, OtherSlot
    <3> QED BY <1>8, <1>14, <3>1 DEF VaultAt
  <2>1. a \in Might(slot) /\ m = x.change /\ b \in Might(Other(slot))
    BY <1>13, <1>14, <1>15, KeyFacts, OtherSlot
  <2>2. media["meta"] \in Might("meta")
    BY <1>1, MightFacts, KeyFacts
  <2>3. /\ a # None /\ Fits(a) /\ acked \subseteq a.content
        /\ b # None /\ b.key = a.key =>
             \/ b.generation < a.generation
             \/ b.generation = a.generation + 1 /\ acked \subseteq b.content
    BY <1>12, <1>14, <2>1, <2>2 DEF VaultAt
  <2>4. m # None /\ m.key = a.key /\ m.password \in passwords'
    BY <1>5, <1>11, <1>12, <1>14, <2>1 DEF VersionStored
  <2> QED BY <1>11, <2>3, <2>4
<1>17. /\ VersionStored(y)' /\ ContentStored(y)' /\ MetadataStored(y)' /\ PointerStored(y)'
  <2>1. VersionStored(y)'
    BY <1>5, <1>8, <1>12, <1>13, <1>14, KeyFacts DEF VersionStored
  <2>2. ContentStored(y)' /\ PointerStored(y)'
    BY <1>8, <1>12, <1>13, <1>14, KeyFacts, OtherSlot DEF ContentStored, PointerStored
  <2>3. MetadataStored(y)'
    BY <1>8, <1>15 DEF MetadataStored
  <2> QED BY <2>1, <2>2, <2>3
<1>18. acked' \subseteq Names /\ acked' \subseteq y.vault.content /\ passwords' \subseteq Names
  BY <1>1, <1>5, <1>8, <1>11, <1>12 DEF TypeOK, Metadata
<1> QED BY <1>1, <1>4, <1>5, <1>8, <1>9, <1>11, <1>16, <1>17, <1>18, CommitEnds

-----------------------------------------------------------------------------
(* A write or removal of a longer series is confirmed, whatever operation made it. *)
LEMMA StepSetDone ==
  ASSUME ClientInv, NEW t \in TaskIds, SetDone(t)
  PROVE  ClientInv'
<1>1. /\ TypeOK /\ AnswerTo(t, "set") /\ Len(tasks[t].plan) > 1
      /\ tasks[t] # None /\ tasks[t].plan # <<>> /\ StepOf(t).op = "set" /\ tasks[t] \in Tasks
  BY AnsweredStep, TaskPlan DEF SetDone, ClientInv
<1>2. tasks[t].kind \in (Kinds \ {"reload"}) \cup {"initialize", "cleanup"}
  BY <1>1 DEF Tasks
<1>3. tasks[t].kind \in {"create", "unlock", "save", "password", "destroy", "initialize", "cleanup"}
  BY <1>2, PoolAssumption
<1>4. tasks[t].kind \in {"unlock", "initialize", "cleanup"} => Live(t) /\ Progress(t)
  BY <1>1 DEF Live, ClientInv, ProgressInv
<1>5. ASSUME tasks[t].kind = "unlock" PROVE FALSE
  <2>1. UnlockRepairs(t)
    BY <1>1, <1>4, <1>5 DEF Progress, UnlockReads
  <2> QED BY <1>1, <2>1 DEF UnlockRepairs
<1>6. ASSUME tasks[t].kind = "cleanup" PROVE FALSE
  <2>1. tasks[t].plan = From(DestroyPlan, 6)
    BY <1>4, <1>6 DEF Progress
  <2>2. PICK n \in 1..6 : n = 6
    OBVIOUS
  <2>3. Len(From(DestroyPlan, n)) = 7 - n
    BY DestroyParts
  <2>4. 7 - n = 1
    BY <2>2
  <2>5. Len(From(DestroyPlan, 6)) = 1
    BY <2>2, <2>3, <2>4, Zenon
  <2>6. ~(1 > 1)
    OBVIOUS
  <2> QED BY <1>1, <2>1, <2>5, <2>6, Zenon
<1>7. ASSUME tasks[t].kind = "initialize" PROVE FALSE
  <2>1. tasks[t].plan = <<GetStep("meta")>>
    BY <1>1, <1>4, <1>7 DEF Progress
  <2> QED BY <1>1, <2>1
<1> QED BY <1>3, <1>5, <1>6, <1>7, StepSetDoneSession, StepSetDoneCreate, StepSetDoneDestroy

-----------------------------------------------------------------------------
(* A destroy ends: each of its removals was read back, and no operation can write. *)
LEMMA StepDestroyed ==
  ASSUME ClientInv, NEW t \in TaskIds, Destroyed(t)
  PROVE  ClientInv'
<1>1. /\ TypeOK /\ AnswerTo(t, "set") /\ Value(t) = None /\ Len(tasks[t].plan) = 1
      /\ tasks[t].kind = "destroy" /\ tasks[t] # None /\ tasks[t].plan # <<>>
      /\ StepOf(t).key \in Keys
      /\ CallsNothing(t) /\ tasks' = Rendered(Without(t))
      /\ current' = None /\ screen' = "onboarding" /\ ending' = "reported"
      /\ UNCHANGED <<media, sessions, ops, owned, acked, passwords>>
  BY AnsweredStep DEF Destroyed, ClientInv
<1>2. Live(t) /\ DestroyInv(t) /\ Might(StepOf(t).key) = {None}
  BY <1>1, AnsweredStep DEF Live, ClientInv, ProgressInv, Progress
<1>3. PICK n \in 1..6 : /\ tasks[t].plan = From(DestroyPlan, n)
                        /\ \A j \in 1..(n - 1) : \A v \in Might(DestroyPlan[j].key) : v = None
  BY <1>2 DEF DestroyInv
<1>4. n = 6 /\ StepOf(t) = DestroyPlan[6]
  <2>1. Head(From(DestroyPlan, n)) = DestroyPlan[n] /\ Len(From(DestroyPlan, n)) = 7 - n
    BY DestroyParts
  <2>2. 7 - n = 1
    BY <1>1, <1>3, <2>1, Zenon
  <2>3. n = 6
    BY <2>2
  <2> QED BY <1>3, <2>1, <2>3 DEF StepOf
<1>5. writes' = writes /\ reads' \in [TaskIds -> [Keys -> Nat \cup {None}]]
  BY <1>1, CallsNothingFacts
<1>6. \A k \in Keys : \A v \in Might(k)' : v = None
  <2> SUFFICES ASSUME NEW k \in Keys PROVE \A v \in Might(k) : v = None
    BY <1>1, <1>5, SameMight
  <2>1. PICK j \in 1..6 : DestroyPlan[j].key = k
    BY PlanFacts
  <2>2. CASE j = 6
    BY <1>2, <1>4, <2>1, <2>2
  <2>3. CASE j # 6
    <3>1. j \in 1..(n - 1)
      BY <1>4, <2>3
    <3> QED BY <1>3, <2>1, <3>1
  <2> QED BY <2>2, <2>3
<1>7. \A u \in TaskIds : tasks'[u] = None
  <2>1. \A u \in TaskIds : Without(t)[u] = None
    BY <1>1, WithoutFacts DEF ClientInv, Alone, Running
  <2> QED BY <1>1, <2>1 DEF Rendered
<1>8. tasks' \in [TaskIds -> Tasks \cup {None}]
  BY <1>1, WithoutFacts, RenderedFacts
<1>9. TypeOK'
  BY <1>1, <1>5, <1>8 DEF TypeOK
<1>10. ~owned /\ \A i \in SessionIds : sessions[i] = NoSession
  <2>1. Running({"destroy", "cleanup"}) # {}
    BY <1>1 DEF Running
  <2> QED BY <1>1, <2>1 DEF ClientInv, OnScreen, SessionsApart, TypeOK
<1>11. \A kinds : Running(kinds)' = {}
  BY <1>7 DEF Running
<1>12. OneLive' /\ ReadsLast' /\ ReadsBack' /\ Alone' /\ ProgressInv'
  BY <1>7, <1>11 DEF OneLive, ReadsLast, ReadsBack, Alone, ProgressInv, Live
<1>13. OnScreen'
  BY <1>1, <1>10, <1>11 DEF OnScreen
<1>14. SessionsApart' /\ PendingIsTask'
  BY <1>1, <1>10, <1>11, NoSessionFacts DEF SessionsApart, PendingIsTask
<1>15. \A k \in Keys : media'[k] = None
  <2>1. \A k \in Keys : media'[k] \in Might(k)'
    BY <1>9, MightFacts, <1>1, <1>5, SameMight
  <2> QED BY <1>6, <2>1
<1>16. SlotsInv'
  BY <1>6, <1>15, KeyFacts DEF SlotsInv
<1>17. OwnedInv' /\ UnownedInv'
  BY <1>1, <1>6, <1>10, KeyFacts DEF ClientInv, OwnedInv, UnownedInv
<1>18. ReportedInv'
  BY <1>1, <1>6, <1>7, <1>10 DEF ReportedInv
<1>19. CurrentInv'
  BY <1>1 DEF CurrentInv
<1> QED BY <1>9, <1>12, <1>13, <1>14, <1>16, <1>17, <1>18, <1>19 DEF ClientInv

(* The end of a destroy that failed *)
LEMMA StepCleanedUp ==
  ASSUME ClientInv, NEW t \in TaskIds, CleanedUp(t)
  PROVE  ClientInv'
BY TaskEnds, AnsweredStep DEF CleanedUp, ui, known

(* The start of the page *)
LEMMA StepInspected ==
  ASSUME ClientInv, NEW t \in TaskIds, Inspected(t)
  PROVE  ClientInv'
<1>1. /\ AnswerTo(t, "get") /\ tasks[t].kind = "initialize" /\ tasks[t] # None /\ tasks[t].plan # <<>>
      /\ CallsNothing(t) /\ tasks' = Without(t)
      /\ screen' = IF Value(t) = None THEN "onboarding" ELSE "locked"
      /\ UNCHANGED <<media, sessions, current, ops, owned, acked, passwords, ending>>
  BY AnsweredStep DEF Inspected, known
<1>2. tasks[t].plan = <<GetStep("meta")>>
  BY <1>1 DEF ClientInv, ProgressInv, Progress, Live
<1>3. StepOf(t).key = "meta"
  BY <1>2 DEF StepOf, GetStep
<1>4. reads[t]["meta"] = 0 /\ Value(t) = media["meta"]
  BY <1>1, <1>3 DEF AnswerTo, Answer, Value
<1>5. \/ screen' \in {"locked", "unsupported"} /\ (screen' = "locked" => media["meta"] # None)
      \/ screen' = "onboarding" /\ reads[t]["meta"] = 0 /\ media["meta"] = None
  BY <1>1, <1>4
<1> QED BY <1>1, <1>5, TaskEnds

(* What an earlier version left is removed, or not: the page asks for the metadata. *)
LEMMA StepLegacyCleared ==
  ASSUME ClientInv, NEW t \in TaskIds, LegacyCleared(t)
  PROVE  ClientInv'
<1>1. /\ TypeOK /\ tasks[t] # None /\ tasks[t].kind = "initialize"
      /\ tasks' = [tasks EXCEPT ![t].plan = <<GetStep("meta")>>]
      /\ Calls(t, GetStep("meta"))
      /\ UNCHANGED <<media, sessions, current, screen, ops, owned, acked, passwords, ending>>
  BY DEF LegacyCleared, ClientInv, ui, known
<1>2. PICK step \in Steps : step = GetStep("meta") /\ step.op = "get" /\ step.key = "meta"
  BY StepFacts, KeyFacts, StorableValues
<1>3. /\ writes' \in [Keys -> Seq(Values)] /\ \A k \in Keys : writes'[k] \in Seq(Storable(k))
      /\ reads' \in [TaskIds -> [Keys -> Nat \cup {None}]]
      /\ \A k \in Keys : reads'[t][k] \in {None, Len(writes'[k])}
      /\ \A u \in TaskIds : u # t => reads'[u] = reads[u]
  <2>1. step.op = "set" => step.value \in Storable(step.key)
    BY <1>2
  <2> QED BY <1>1, <1>2, <2>1, CallsFacts
<1>4. writes' = writes
  BY <1>1, <1>2 DEF Calls
<1>5. PICK x \in Tasks : x = tasks[t] /\ x # None
  BY <1>1, TaskPlan
<1>6. PICK z \in Tasks : z = [x EXCEPT !.plan = <<GetStep("meta")>>]
  <2>1. <<step>> \in Seq(Steps)
    OBVIOUS
  <2>2. <<GetStep("meta")>> \in Seq(Steps)
    BY <1>2, <2>1, Zenon
  <2> QED BY <1>5, <2>2 DEF Tasks
<1>7. /\ z # None /\ z.kind = x.kind /\ z.session = x.session /\ z.plan = <<GetStep("meta")>>
  BY <1>6, NoneIsNothing DEF Tasks
<1>8. tasks' = [tasks EXCEPT ![t] = z]
  BY <1>1, <1>5, <1>6
<1>9. /\ tasks' \in [TaskIds -> Tasks \cup {None}] /\ tasks'[t] = z
      /\ \A u \in TaskIds : u # t => tasks'[u] = tasks[u]
  BY <1>1, <1>8 DEF TypeOK
<1>10. TypeOK'
  BY <1>1, <1>3, <1>9 DEF TypeOK
<1>11. Progress(t)'
  BY <1>1, <1>5, <1>7, <1>9 DEF Progress
<1> QED BY <1>1, <1>3, <1>4, <1>5, <1>7, <1>9, <1>10, <1>11, QuietContinues

(* The adapter reports an error. *)
LEMMA StepAdapterFails ==
  ASSUME ClientInv, NEW t \in TaskIds, AdapterFails(t)
  PROVE  ClientInv'
BY StepFails DEF AdapterFails

-----------------------------------------------------------------------------
(* The user asks for an operation, when no other can write any more. *)
LEMMA NextName ==
  ASSUME TypeOK, ops < MaxOps
  PROVE  /\ ops + 1 \in Names /\ ops + 1 >= ops /\ ops \in Nat /\ ops < ops + 1
BY PoolAssumption DEF TypeOK, Names

LEMMA BeginFacts ==
  ASSUME TypeOK, NEW t \in TaskIds, NEW task \in Tasks,
         NEW step \in Steps, step = Head(task.plan),
         step.op = "set" => step.value \in Storable(step.key),
         Begin(t, task), media' = media
  PROVE  /\ tasks[t] = None /\ ops < MaxOps /\ ops' = ops + 1 /\ ops' \in Names
         /\ tasks' \in [TaskIds -> Tasks \cup {None}] /\ tasks'[t] = task /\ task # None
         /\ writes' \in [Keys -> Seq(Values)] /\ \A k \in Keys : writes'[k] \in Seq(Storable(k))
         /\ reads' \in [TaskIds -> [Keys -> Nat \cup {None}]]
         /\ \A k \in Keys : reads'[t][k] \in {None, Len(writes'[k])}
         /\ \A u \in TaskIds : u # t => tasks'[u] = tasks[u] /\ reads'[u] = reads[u]
         /\ \A k \in Keys : k # step.key \/ step.op = "get" => Might(k)' = Might(k)
         /\ Might(step.key)' \subseteq Might(step.key) \cup {step.value}
<1>1. /\ tasks[t] = None /\ ops < MaxOps /\ ops' = ops + 1
      /\ tasks' = [tasks EXCEPT ![t] = task] /\ Calls(t, step)
  BY DEF Begin
<1>2. ops' \in Names
  BY <1>1, NextName
<1>3. /\ tasks' \in [TaskIds -> Tasks \cup {None}] /\ tasks'[t] = task
      /\ \A u \in TaskIds : u # t => tasks'[u] = tasks[u]
  BY <1>1 DEF TypeOK
<1>4. task # None
  BY NoneIsNothing
<1> QED BY <1>1, <1>2, <1>3, <1>4, CallsFacts, CallsMight

LEMMA TaskFacts ==
  \A kind, own, plan :
    /\ kind \in (Kinds \ {"reload"}) \cup {"initialize", "cleanup"}
    /\ own \in SessionIds \cup {None} /\ plan \in Seq(Steps)
    => /\ Task(kind, own, plan) \in Tasks /\ Task(kind, own, plan) # None
       /\ Task(kind, own, plan).kind = kind /\ Task(kind, own, plan).session = own
       /\ Task(kind, own, plan).plan = plan
<1> TAKE kind, own, plan
<1> SUFFICES ASSUME kind \in (Kinds \ {"reload"}) \cup {"initialize", "cleanup"},
                    own \in SessionIds \cup {None}, plan \in Seq(Steps)
             PROVE  /\ Task(kind, own, plan) \in Tasks /\ Task(kind, own, plan) # None
                    /\ Task(kind, own, plan).kind = kind /\ Task(kind, own, plan).session = own
                    /\ Task(kind, own, plan).plan = plan
  OBVIOUS
<1>1. [k \in VaultKeys |-> None] \in [VaultKeys -> Values]
  BY DEF Values
<1> DEFINE got == [k \in VaultKeys |-> None]
           z == [kind |-> kind, session |-> own, plan |-> plan, got |-> got, form |-> TRUE]
<1>2. z = Task(kind, own, plan)
  BY DEF Task
<1> HIDE DEF got
<1>3. z \in Tasks /\ z.kind = kind /\ z.session = own /\ z.plan = plan
  BY <1>1 DEF Tasks, got
<1> HIDE DEF z
<1> QED BY <1>2, <1>3, NoneIsNothing

(* With the new operation the only live one, what tells operations apart stays true. *)
LEMMA TaskBegins ==
  ASSUME ClientInv, TypeOK', NEW t \in TaskIds, tasks'[t] # None,
         \A k \in Keys : reads'[t][k] \in {None, Len(writes'[k])},
         \A u \in TaskIds : u # t => tasks'[u] = tasks[u] /\ ~Live(u)',
         tasks'[t].kind \in {"save", "password"} =>
           /\ tasks'[t].plan # <<>>
           /\ \A j \in DOMAIN tasks'[t].plan :
                tasks'[t].plan[j].op = "set" => /\ j < Len(tasks'[t].plan)
                                                /\ tasks'[t].plan[j + 1].op = "get"
  PROVE  /\ OneLive' /\ ReadsLast' /\ ReadsBack'
         /\ Progress(t)' => ProgressInv'
<1>1. OneLive' /\ ReadsLast' /\ (Progress(t)' => ProgressInv')
  BY DEF OneLive, ReadsLast, ProgressInv
<1>2. ReadsBack'
  <2> SUFFICES ASSUME NEW u \in TaskIds, tasks'[u] # None, tasks'[u].kind \in {"save", "password"}
      PROVE  /\ tasks'[u].plan # <<>>
             /\ \A j \in DOMAIN tasks'[u].plan :
                  tasks'[u].plan[j].op = "set" => /\ j < Len(tasks'[u].plan)
                                                  /\ tasks'[u].plan[j + 1].op = "get"
    BY DEF ReadsBack, Running
  <2>1. CASE u = t
    BY <2>1
  <2>2. CASE u # t
    BY <2>2 DEF ClientInv, ReadsBack, Running
  <2> QED BY <2>1, <2>2
<1> QED BY <1>1, <1>2

(* The user asks for a vault. *)
LEMMA StepCreate ==
  ASSUME Patient, ClientInv, NEW t \in TaskIds, Create(t)
  PROVE  ClientInv'
<1>1. PICK i \in FreeSessions : Begin(t, Task("create", i, <<GetStep("meta")>>))
  BY DEF Create
<1>2. /\ TypeOK /\ screen = "onboarding" /\ Running({"create", "unlock", "destroy", "cleanup"}) = {}
      /\ ending' = "no" /\ UNCHANGED <<media, sessions, current, screen, owned, acked, passwords>>
  BY DEF Create, Submits, ui, ClientInv
<1>3. i \in SessionIds /\ ~Unlocked(sessions[i])
  BY DEF FreeSessions
<1>4. PICK step \in Steps : step = GetStep("meta") /\ step.op = "get" /\ step.key = "meta"
  BY StepFacts, KeyFacts, StorableValues
<1>5. PICK task \in Tasks : /\ task = Task("create", i, <<GetStep("meta")>>)
                            /\ task.kind = "create" /\ task.session = i
                            /\ task.plan = <<step>> /\ Head(task.plan) = step
  <2>1. <<step>> \in Seq(Steps) /\ Head(<<step>>) = step
    OBVIOUS
  <2>2. "create" \in Kinds
    BY <1>1 DEF Begin, Task
  <2>3. PICK kind \in (Kinds \ {"reload"}) \cup {"initialize", "cleanup"} : kind = "create"
    BY <2>2
  <2>4. PICK plan \in Seq(Steps), j \in SessionIds \cup {None} : plan = <<step>> /\ j = i
    BY <1>3, <2>1
  <2>5. /\ Task(kind, j, plan) \in Tasks /\ Task(kind, j, plan).kind = kind
        /\ Task(kind, j, plan).session = j /\ Task(kind, j, plan).plan = plan
    BY TaskFacts
  <2> QED BY <1>4, <2>1, <2>3, <2>4, <2>5
<1>6. /\ tasks[t] = None /\ ops < MaxOps /\ ops' = ops + 1 /\ ops' \in Names
      /\ tasks' \in [TaskIds -> Tasks \cup {None}] /\ tasks'[t] = task /\ task # None
      /\ writes' \in [Keys -> Seq(Values)] /\ \A k \in Keys : writes'[k] \in Seq(Storable(k))
      /\ reads' \in [TaskIds -> [Keys -> Nat \cup {None}]]
      /\ \A k \in Keys : reads'[t][k] \in {None, Len(writes'[k])}
      /\ \A u \in TaskIds : u # t => tasks'[u] = tasks[u] /\ reads'[u] = reads[u]
      /\ \A k \in Keys : Might(k)' = Might(k)
  <2>1. Begin(t, task) /\ step = Head(task.plan) /\ (step.op = "set" => step.value \in Storable(step.key))
    BY <1>1, <1>4, <1>5
  <2> QED BY <1>2, <1>4, <2>1, BeginFacts
<1>7. \A u \in TaskIds : tasks[u] = None
  <2> SUFFICES ASSUME NEW u \in TaskIds, tasks[u] # None PROVE FALSE
    OBVIOUS
  <2>1. tasks[u].kind \notin {"create", "unlock", "destroy", "cleanup"}
    BY <1>2 DEF Running
  <2>2. tasks[u].kind \notin {"save", "password", "initialize"}
    BY <1>2 DEF ClientInv, OnScreen, Running
  <2>3. tasks[u].kind \in (Kinds \ {"reload"}) \cup {"initialize", "cleanup"}
    BY <1>2, TaskPlan DEF Tasks
  <2> QED BY <2>1, <2>2, <2>3, PoolAssumption
<1>8. current = None /\ \A j \in SessionIds : sessions[j] = NoSession
  <2>1. current = None
    BY <1>2 DEF ClientInv, OnScreen
  <2>2. \A j \in SessionIds : ~ComingUp(j)
    BY <1>7 DEF ComingUp, Running
  <2>3. \A j \in SessionIds : ~Unlocked(sessions[j])
    BY <2>1, <2>2, NoneIsNothing DEF ClientInv, SessionsApart
  <2> QED BY <1>2, <2>1, <2>3 DEF TypeOK
<1>9. TypeOK'
  BY <1>2, <1>6 DEF TypeOK
<1>10. OneLive' /\ ReadsLast' /\ ReadsBack'
  BY <1>5, <1>6, <1>7, <1>9, TaskBegins DEF Live
<1>11. \A kinds : Running(kinds)' \subseteq {t} /\ (t \in Running(kinds)' => "create" \in kinds)
  BY <1>5, <1>6, <1>7 DEF Running
<1>12. Alone' /\ OnScreen' /\ PendingIsTask'
  <2>1. Alone'
    BY <1>6, <1>7, <1>11 DEF Alone
  <2>2. PendingIsTask'
    BY <1>2, <1>8, NoSessionFacts DEF PendingIsTask
  <2>3. /\ Running({"unlock"})' = {} /\ Running({"initialize"})' = {}
        /\ Running({"save", "password", "destroy", "cleanup"})' = {}
        /\ Running({"destroy", "cleanup"})' = {}
    BY <1>11
  <2>4. OnScreen'
    BY <1>2, <1>8, <2>3 DEF ClientInv, OnScreen
  <2> QED BY <2>1, <2>2, <2>4
<1>13. SessionsApart'
  BY <1>2, <1>3, <1>5, <1>6, <1>7, <1>8, <1>11, NoSessionFacts DEF SessionsApart
<1>14. Quiet
  BY <1>2, <1>6, NextName, KeyFacts DEF Quiet
<1>15. Progress(t)'
  <2>1. \A slot \in Slots : \A a \in Might(slot)' : a # None => a.key < ops'
    <3> SUFFICES ASSUME NEW slot \in Slots, NEW a \in Might(slot), a # None PROVE a.key < ops + 1
      BY <1>6, KeyFacts
    <3>1. a \in SealedSlots /\ a.key <= ops
      BY <1>2, MightFacts, StorableValues, KeyFacts DEF ClientInv, SlotsInv
    <3> QED BY <1>2, <1>6, <3>1, NextName DEF SealedSlots, Names
  <2>2. CreateChecks(t)'
    BY <1>2, <1>3, <1>4, <1>5, <1>6, <1>8, <2>1 DEF CreateChecks, OwnSession
  <2> QED BY <1>5, <1>6, <2>2 DEF Progress
<1> QED BY <1>2, <1>6, <1>7, <1>8, <1>9, <1>10, <1>12, <1>13, <1>14, <1>15, QuietStep
           DEF StructInv, Live, ReportedInv

(* The user asks for the vault to be opened: the reads stand behind every write. *)
LEMMA StepUnlock ==
  ASSUME Patient, ClientInv, NEW t \in TaskIds, Unlock(t)
  PROVE  ClientInv'
<1>1. PICK i \in FreeSessions : tasks' = [tasks EXCEPT ![t] = Task("unlock", i, <<>>)]
  BY DEF Unlock
<1>2. /\ TypeOK /\ screen = "locked" /\ Running({"create", "unlock", "destroy", "cleanup"}) = {}
      /\ tasks[t] = None /\ ops < MaxOps /\ "unlock" \in Kinds /\ ops' = ops + 1
      /\ reads' = [reads EXCEPT ![t] = [k \in Keys |-> IF k \in VaultKeys THEN Len(writes[k]) ELSE None]]
      /\ UNCHANGED <<media, writes, sessions, current, screen, owned, acked, passwords, ending>>
  BY DEF Unlock, Submits, ui, known, ClientInv
<1>3. /\ i \in SessionIds /\ ~Unlocked(sessions[i])
      /\ \A u \in TaskIds : tasks[u] # None => tasks[u].session # i
  BY DEF FreeSessions
<1>4. PICK task \in Tasks : /\ task = Task("unlock", i, <<>>) /\ task.kind = "unlock" /\ task.session = i
                            /\ task.plan = <<>> /\ task # None
  <2>1. PICK plan \in Seq(Steps) : plan = <<>>
    <3>1. <<>> \in Seq(Steps)
      OBVIOUS
    <3> QED BY <3>1, Zenon
  <2>2. PICK kind \in (Kinds \ {"reload"}) \cup {"initialize", "cleanup"} : kind = "unlock"
    BY <1>2
  <2>3. PICK j \in SessionIds \cup {None} : j = i
    BY <1>3
  <2>4. /\ Task(kind, j, plan) \in Tasks /\ Task(kind, j, plan) # None
        /\ Task(kind, j, plan).kind = kind /\ Task(kind, j, plan).session = j
        /\ Task(kind, j, plan).plan = plan
    BY TaskFacts
  <2> QED BY <2>1, <2>2, <2>3, <2>4, Zenon
<1>5. /\ tasks' \in [TaskIds -> Tasks \cup {None}] /\ tasks'[t] = task
      /\ \A u \in TaskIds : u # t => tasks'[u] = tasks[u]
  BY <1>1, <1>2, <1>4 DEF TypeOK
<1>6. /\ reads' \in [TaskIds -> [Keys -> Nat \cup {None}]]
      /\ \A k \in Keys : reads'[t][k] \in {None, Len(writes'[k])}
      /\ \A k \in VaultKeys : reads'[t][k] # None
      /\ \A u \in TaskIds : u # t => reads'[u] = reads[u]
  <2>1. \A k \in Keys : Len(writes[k]) \in Nat
    BY <1>2, MightFacts
  <2> QED BY <1>2, <2>1, NoneIsNothing, KeyFacts DEF TypeOK
<1>7. ops' \in Names /\ ops' >= ops
  BY <1>2, NextName
<1>8. TypeOK'
  BY <1>2, <1>5, <1>6, <1>7 DEF TypeOK
<1>9. current = None /\ \A j \in SessionIds : sessions[j] = NoSession
  <2>1. current = None
    BY <1>2 DEF ClientInv, OnScreen
  <2>2. \A j \in SessionIds : ~ComingUp(j)
    BY <1>2 DEF ComingUp, Running
  <2>3. \A j \in SessionIds : ~Unlocked(sessions[j])
    BY <2>1, <2>2, NoneIsNothing DEF ClientInv, SessionsApart
  <2> QED BY <1>2, <2>1, <2>3 DEF TypeOK
<1>10. \A u \in TaskIds : tasks[u] # None => /\ tasks[u].kind \in {"save", "password"} /\ u # t
                                             /\ tasks[u].session \in SessionIds
  <2> SUFFICES ASSUME NEW u \in TaskIds, tasks[u] # None
               PROVE  tasks[u].kind \in {"save", "password"} /\ tasks[u].session \in SessionIds
    BY <1>2
  <2>1. tasks[u].kind \notin {"create", "unlock", "destroy", "cleanup"}
    BY <1>2 DEF Running
  <2>2. tasks[u].kind # "initialize"
    BY <1>2 DEF ClientInv, OnScreen, Running
  <2>3. tasks[u].kind \in (Kinds \ {"reload"}) \cup {"initialize", "cleanup"}
    BY <1>2, TaskPlan DEF Tasks
  <2>4. tasks[u].kind \in {"save", "password"}
    BY <2>1, <2>2, <2>3, PoolAssumption
  <2> QED BY <2>4 DEF ClientInv, SessionsApart, Running
<1>11. \A u \in TaskIds : u # t => tasks'[u] = tasks[u] /\ ~Live(u)'
  BY <1>2, <1>5, <1>9, <1>10, NoSessionFacts DEF Live, OwnSession
<1>12. OneLive' /\ ReadsLast' /\ ReadsBack'
  BY <1>4, <1>5, <1>6, <1>8, <1>11, TaskBegins
<1>13. /\ \A kinds : \A u \in Running(kinds)' : u \in TaskIds /\ (u = t \/ u \in Running(kinds))
       /\ \A u \in TaskIds : tasks'[u] # None =>
            \/ u = t /\ tasks'[u].kind = "unlock"
            \/ u # t /\ tasks'[u] = tasks[u] /\ tasks'[u].kind \in {"save", "password"}
       /\ \A kinds : \A u \in Running(kinds) : u \in Running(kinds)' /\ tasks'[u] = tasks[u]
  BY <1>2, <1>4, <1>5, <1>10 DEF Running
<1>14. Alone' /\ OnScreen'
  <2>1. /\ Running({"create"})' = {} /\ Running({"initialize"})' = {}
        /\ Running({"destroy", "cleanup"})' = {}
        /\ Running({"create", "destroy", "cleanup", "initialize"})' = {}
    BY <1>13 DEF Running
  <2> QED BY <1>2, <2>1 DEF Alone, ClientInv, OnScreen
<1>15. PendingIsTask'
  BY <1>2, <1>9, NoSessionFacts DEF PendingIsTask
<1>16. SessionsApart'
  <2>1. \A u \in Running({"create", "unlock"})' : u = t
    BY <1>13 DEF Running
  <2>2. \A u \in Running({"create", "unlock", "save", "password"})' : tasks'[u].session \in SessionIds
    BY <1>3, <1>4, <1>5, <1>10, <1>13 DEF Running
  <2>3. \A u \in TaskIds : tasks'[u] # None /\ u # t => tasks'[u].session # tasks'[t].session
    BY <1>3, <1>4, <1>5
  <2> QED BY <1>2, <1>9, <2>1, <2>2, <2>3, NoSessionFacts DEF SessionsApart
<1>17. Quiet
  BY <1>2, <1>7, SameMight, KeyFacts DEF Quiet
<1>18. Progress(t)'
  <2>1. OwnSession(t)' = NoSession
    BY <1>2, <1>3, <1>4, <1>5, <1>9 DEF OwnSession
  <2>2. UnlockReads(t)'
    BY <1>4, <1>5, <1>6, <2>1 DEF UnlockReads
  <2> QED BY <1>4, <1>5, <2>2 DEF Progress
<1>19. ReportedInv'
  BY <1>2 DEF ClientInv, ReportedInv
<1> QED BY <1>2, <1>8, <1>9, <1>11, <1>12, <1>14, <1>15, <1>16, <1>17, <1>18, <1>19, QuietStep DEF StructInv

(* The page is loaded anew: of what was called, only writes are left. *)
LEMMA StepReload ==
  ASSUME ClientInv, Reload
  PROVE  ClientInv'
<1>1. /\ TypeOK /\ ops < MaxOps /\ ops' = ops + 1
      /\ sessions' = [i \in SessionIds |-> NoSession] /\ current' = None /\ screen' = "loading"
      /\ reads' = [t \in TaskIds |-> NoReads]
      /\ writes' = [k \in Keys |-> IF k \in LegacyKeys /\ media[k] # None
                                   THEN Append(writes[k], None) ELSE writes[k]]
      /\ UNCHANGED <<media, owned, acked, passwords, ending>>
  BY DEF Reload, ClientInv, known
<1>2. PICK t \in TaskIds :
        tasks' = [[u \in TaskIds |-> None] EXCEPT ![t] = Task("initialize", None, <<>>)]
  BY DEF Reload
<1>3. PICK task \in Tasks : /\ task = Task("initialize", None, <<>>) /\ task.kind = "initialize"
                            /\ task.session = None /\ task.plan = <<>> /\ task # None
  <2>1. PICK plan \in Seq(Steps) : plan = <<>>
    <3>1. <<>> \in Seq(Steps)
      OBVIOUS
    <3> QED BY <3>1, Zenon
  <2>2. PICK kind \in (Kinds \ {"reload"}) \cup {"initialize", "cleanup"} : kind = "initialize"
    OBVIOUS
  <2>3. PICK i \in SessionIds \cup {None} : i = None
    OBVIOUS
  <2>4. /\ Task(kind, i, plan) \in Tasks /\ Task(kind, i, plan) # None
        /\ Task(kind, i, plan).kind = kind /\ Task(kind, i, plan).session = i
        /\ Task(kind, i, plan).plan = plan
    BY TaskFacts
  <2> QED BY <2>1, <2>2, <2>3, <2>4, Zenon
<1>4. /\ tasks' \in [TaskIds -> Tasks \cup {None}] /\ tasks'[t] = task
      /\ \A u \in TaskIds : u # t => tasks'[u] = None
  BY <1>2, <1>3
<1>5. \A k \in Keys : writes'[k] \in Seq(Storable(k)) /\ writes'[k] \in Seq(Values)
  <2> SUFFICES ASSUME NEW k \in Keys PROVE writes'[k] \in Seq(Storable(k)) /\ writes'[k] \in Seq(Values)
    OBVIOUS
  <2>1. writes[k] \in Seq(Storable(k)) /\ writes[k] \in Seq(Values)
    BY <1>1 DEF TypeOK
  <2>2. None \in Storable(k) /\ None \in Values
    BY StorableValues
  <2>3. Append(writes[k], None) \in Seq(Storable(k)) /\ Append(writes[k], None) \in Seq(Values)
    BY <2>1, <2>2
  <2> QED BY <1>1, <2>1, <2>3
<1>6. writes' \in [Keys -> Seq(Values)]
  BY <1>1, <1>5
<1>7. /\ \A k \in VaultKeys : Might(k)' = Might(k)
      /\ \A k \in LegacyKeys : Might(k)' \subseteq Might(k) \cup {None}
  <2>1. \A k \in VaultKeys : writes'[k] = writes[k]
    BY <1>1, KeyFacts
  <2>2. ASSUME NEW k \in LegacyKeys PROVE ToSet(writes'[k]) \subseteq ToSet(writes[k]) \cup {None}
    <3>1. k \in Keys /\ writes[k] \in Seq(Values) /\ None \in Values
      BY <1>1, KeyFacts, StorableValues DEF TypeOK
    <3>2. ToSet(Append(writes[k], None)) = ToSet(writes[k]) \cup {None}
      BY <3>1, AppendSet
    <3>3. writes'[k] \in {writes[k], Append(writes[k], None)}
      BY <1>1, <3>1
    <3> QED BY <3>2, <3>3
  <2> QED BY <1>1, <2>1, <2>2 DEF Might
<1>8. ops' \in Names /\ ops' >= ops
  BY <1>1, NextName
<1>9. reads' \in [TaskIds -> [Keys -> Nat \cup {None}]] /\ \A u \in TaskIds, k \in Keys : reads'[u][k] = None
  BY <1>1 DEF NoReads
<1>10. \A i \in SessionIds : sessions'[i] = NoSession
  BY <1>1
<1>11. TypeOK'
  BY <1>1, <1>4, <1>5, <1>6, <1>8, <1>9, <1>10, NoSessionFacts DEF TypeOK
<1>12. \A kinds : \A u \in Running(kinds)' : u = t /\ "initialize" \in kinds
  BY <1>3, <1>4 DEF Running
<1>13. OneLive' /\ ReadsLast' /\ ReadsBack' /\ Alone'
  BY <1>4, <1>9, <1>12 DEF OneLive, ReadsLast, ReadsBack, Alone, Live
<1>14. SessionsApart' /\ PendingIsTask'
  <2>1. /\ Running({"create", "unlock", "save", "password"})' = {}
        /\ Running({"create", "unlock"})' = {} /\ Running({"destroy", "cleanup"})' = {}
    BY <1>12
  <2> QED BY <1>10, <2>1, NoSessionFacts DEF SessionsApart, PendingIsTask
<1>15. OnScreen'
  <2>1. /\ Running({"create"})' = {} /\ Running({"unlock"})' = {}
        /\ Running({"save", "password", "destroy", "cleanup"})' = {}
        /\ Running({"destroy", "cleanup"})' = {}
    BY <1>12
  <2> QED BY <1>1, <2>1 DEF OnScreen
<1>16. Quiet
  BY <1>1, <1>7, <1>8, KeyFacts DEF Quiet
<1>17. ReportedInv'
  <2>1. \A k \in Keys : k \in VaultKeys \/ k \in LegacyKeys
    BY DEF Keys
  <2> QED BY <1>1, <1>3, <1>4, <1>7, <2>1 DEF ClientInv, ReportedInv
<1>18. Progress(t)'
  BY <1>3, <1>4 DEF Progress
<1>19. \A u \in TaskIds : Live(u)' => Progress(u)'
  BY <1>4, <1>18 DEF Live
<1> QED BY <1>1, <1>11, <1>13, <1>14, <1>15, <1>16, <1>17, <1>19, QuietStep DEF StructInv

(* A session that may be changed: no other operation of it is under way. *)
LEMMA MutableFacts ==
  ASSUME ClientInv, InVault, Mutable(sessions[current])
  PROVE  \E x \in SessionRecords :
           /\ x = sessions[current] /\ current \in SessionIds /\ current # None
           /\ Unlocked(x) /\ x.vault \in OpenVaults /\ x.pending = None /\ x.change = None
           /\ x.metadata \in Metadata /\ x.metadata # None
           /\ owned /\ VaultAt(x.vault.slot) /\ acked \subseteq x.vault.content
           /\ VersionStored(x) /\ ContentStored(x) /\ PointerStored(x) /\ MetadataStored(x)
           /\ \A u \in TaskIds : tasks[u] # None =>
                /\ tasks[u].kind \in {"save", "password"} /\ tasks[u].session \in SessionIds
                /\ ~Live(u) /\ tasks[u].session # current
<1>1. /\ TypeOK /\ current # None /\ screen = "vault" /\ current \in SessionIds
      /\ sessions[current].pending = None /\ sessions[current].change = None
      /\ Unlocked(sessions[current])
  BY DEF ClientInv, InVault, Mutable, TypeOK
<1>2. PICK x \in SessionRecords : x = sessions[current]
  BY <1>1 DEF TypeOK
<1>3. /\ Unlocked(x) /\ x.pending = None /\ x.change = None
      /\ owned /\ VaultAt(x.vault.slot) /\ acked \subseteq x.vault.content
      /\ VersionStored(x) /\ ContentStored(x) /\ PointerStored(x) /\ MetadataStored(x)
  BY <1>1, <1>2 DEF ClientInv, CurrentInv
<1>4. x.vault \in OpenVaults /\ x.metadata \in Metadata /\ x.metadata # None
  BY <1>3 DEF SessionRecords, Unlocked, VersionStored
<1>5. \A u \in TaskIds : tasks[u] # None =>
        /\ tasks[u].kind \in {"save", "password"} /\ tasks[u].session \in SessionIds
        /\ ~Live(u) /\ tasks[u].session # current
  <2> SUFFICES ASSUME NEW u \in TaskIds, tasks[u] # None
               PROVE  /\ tasks[u].kind \in {"save", "password"} /\ tasks[u].session \in SessionIds
                      /\ ~Live(u) /\ tasks[u].session # current
    OBVIOUS
  <2>1. tasks[u].kind \notin {"create", "unlock", "initialize"}
    BY <1>1 DEF ClientInv, OnScreen, Running
  <2>2. tasks[u].kind \notin {"destroy", "cleanup"}
    BY <1>1 DEF ClientInv, SessionsApart, Running
  <2>3. tasks[u].kind \in (Kinds \ {"reload"}) \cup {"initialize", "cleanup"}
    BY <1>1, TaskPlan DEF Tasks
  <2>4. tasks[u].kind \in {"save", "password"}
    BY <2>1, <2>2, <2>3, PoolAssumption
  <2>5. u \in Running({"save", "password"})
    BY <2>4 DEF Running
  <2>6. tasks[u].session \in SessionIds /\ (Unlocked(OwnSession(u)) => tasks[u].session = current)
    BY <2>5, StaleIsLocked
  <2>7. ~Live(u)
    <3> SUFFICES ASSUME Live(u) PROVE FALSE
      OBVIOUS
    <3>1. OwnSession(u) = x
      BY <1>2, <2>4, <2>6 DEF Live, OwnSession
    <3>2. Progress(u)
      BY DEF ClientInv, ProgressInv
    <3>3. tasks[u].kind = "save" => SaveInv(u)
      BY <3>2 DEF Progress
    <3>4. tasks[u].kind = "password" => ChangeInv(u)
      BY <3>2 DEF Progress
    <3> QED BY <1>3, <2>4, <3>1, <3>3, <3>4 DEF SaveInv, ChangeInv
  <2>8. tasks[u].session # current
    BY <1>2, <1>3, <2>4, <2>7 DEF Live, OwnSession
  <2> QED BY <2>4, <2>6, <2>7, <2>8
<1> QED BY <1>1, <1>2, <1>3, <1>4, <1>5

(* A save or a password change of the controller's session begins. *)
LEMMA ChangeBegins ==
  ASSUME ClientInv, InVault, Mutable(sessions[current]),
         NEW t \in TaskIds, NEW task \in Tasks, task.kind \in {"save", "password"},
         task.session = current, task.plan # <<>>,
         \A j \in DOMAIN task.plan :
           task.plan[j].op = "set" => j < Len(task.plan) /\ task.plan[j + 1].op = "get",
         NEW y \in SessionRecords, Unlocked(y),
         y.pending # None => task.kind = "save", y.change # None => task.kind = "password",
         sessions' = [sessions EXCEPT ![current] = y],
         UNCHANGED <<media, current, screen, owned, acked, ending>>, passwords' \subseteq Names,
         tasks[t] = None, ops < MaxOps, ops' = ops + 1,
         tasks' \in [TaskIds -> Tasks \cup {None}], tasks'[t] = task, task # None,
         writes' \in [Keys -> Seq(Values)], \A k \in Keys : writes'[k] \in Seq(Storable(k)),
         reads' \in [TaskIds -> [Keys -> Nat \cup {None}]],
         \A k \in Keys : reads'[t][k] \in {None, Len(writes'[k])},
         \A u \in TaskIds : u # t => tasks'[u] = tasks[u] /\ reads'[u] = reads[u]
  PROVE  /\ TypeOK' /\ StructInv' /\ OnScreen' /\ PendingIsTask' /\ UnownedInv' /\ ReportedInv'
         /\ Progress(t)' => ProgressInv'
<1>1. TypeOK /\ screen = "vault"
  BY DEF ClientInv, InVault
<1>2. PICK x \in SessionRecords :
        /\ x = sessions[current] /\ current \in SessionIds /\ current # None /\ Unlocked(x) /\ owned
        /\ \A u \in TaskIds : tasks[u] # None =>
             /\ tasks[u].kind \in {"save", "password"} /\ tasks[u].session \in SessionIds
             /\ ~Live(u) /\ tasks[u].session # current
  BY MutableFacts
<1>3. /\ sessions' \in [SessionIds -> SessionRecords] /\ sessions'[current] = y
      /\ \A i \in SessionIds : i # current => sessions'[i] = sessions[i]
  BY <1>1, <1>2 DEF TypeOK
<1>4. TypeOK'
  <2>1. \A i \in SessionIds : ~Unlocked(sessions'[i]) => sessions'[i] = NoSession
    BY <1>1, <1>3 DEF TypeOK
  <2>2. ops' \in Names
    BY <1>1, NextName
  <2> QED BY <1>1, <1>3, <2>1, <2>2 DEF TypeOK
<1>5. \A u \in TaskIds : u # t => tasks'[u] = tasks[u] /\ ~Live(u)'
  <2> SUFFICES ASSUME NEW u \in TaskIds, u # t, tasks[u] # None PROVE ~Live(u)'
    BY DEF Live
  <2>1. /\ tasks[u].kind \in {"save", "password"} /\ tasks[u].session \in SessionIds
        /\ ~Unlocked(OwnSession(u)) /\ tasks[u].session # current /\ tasks'[u] = tasks[u]
    BY <1>2 DEF Live
  <2>2. OwnSession(u)' = OwnSession(u)
    BY <1>3, <2>1 DEF OwnSession
  <2> QED BY <2>1, <2>2 DEF Live
<1>6. OneLive' /\ ReadsLast' /\ ReadsBack' /\ (Progress(t)' => ProgressInv')
  BY <1>4, <1>5, TaskBegins
<1>7. /\ \A kinds : \A u \in Running(kinds)' :
           /\ u \in TaskIds /\ tasks'[u].kind \in {"save", "password"} /\ tasks'[u].kind \in kinds
           /\ tasks'[u].session \in SessionIds
      /\ \A kinds : \A u \in Running(kinds) : u # t /\ u \in Running(kinds)' /\ tasks'[u] = tasks[u]
  BY <1>2 DEF Running
<1>8. /\ Running({"create"})' = {} /\ Running({"unlock"})' = {} /\ Running({"initialize"})' = {}
      /\ Running({"destroy", "cleanup"})' = {} /\ Running({"create", "unlock"})' = {}
      /\ Running({"create", "destroy", "cleanup", "initialize"})' = {}
  <2>1. \A kinds : "save" \notin kinds /\ "password" \notin kinds => Running(kinds)' = {}
    BY <1>7
  <2> QED BY <2>1
<1>9. Alone' /\ OnScreen'
  BY <1>1, <1>2, <1>8 DEF Alone, OnScreen
<1>10. SessionsApart'
  <2>1. \A i \in SessionIds : Unlocked(sessions'[i]) => i = current
    <3> SUFFICES ASSUME NEW i \in SessionIds, Unlocked(sessions[i]), i # current PROVE FALSE
      BY <1>3
    <3>1. ComingUp(i)
      BY DEF ClientInv, SessionsApart
    <3> QED BY <1>2, <3>1 DEF ComingUp, Running
  <2> QED BY <1>7, <1>8, <2>1 DEF SessionsApart
<1>11. PendingIsTask'
  <2> SUFFICES ASSUME NEW i \in SessionIds
      PROVE  /\ sessions'[i].pending # None => \E u \in Running({"save"})' : tasks'[u].session = i
             /\ sessions'[i].change # None => \E u \in Running({"password"})' : tasks'[u].session = i
    BY DEF PendingIsTask
  <2>1. CASE i = current
    <3>1. \A kind : task.kind = kind => t \in Running({kind})'
      BY DEF Running
    <3> QED BY <1>3, <2>1, <3>1
  <2>2. CASE i # current
    BY <1>3, <1>7, <2>2 DEF ClientInv, PendingIsTask
  <2> QED BY <2>1, <2>2
<1>12. UnownedInv' /\ ReportedInv'
  BY <1>2 DEF UnownedInv, ReportedInv, ClientInv
<1> QED BY <1>4, <1>6, <1>9, <1>10, <1>11, <1>12 DEF StructInv

(* The user asks for the end of the vault: no other operation is under way. *)
LEMMA StepDestroy ==
  ASSUME Patient, ClientInv, NEW t \in TaskIds, Destroy(t)
  PROVE  ClientInv'
<1>1. /\ TypeOK /\ screen \in {"vault", "locked"}
      /\ Running({"create", "unlock", "destroy", "cleanup"}) = {} /\ Running({"save", "password"}) = {}
      /\ sessions' = SessionLocked(sessions, current)
      /\ Begin(t, Task("destroy", current, DestroyPlan))
      /\ owned' = FALSE /\ acked' = {} /\ ending' = "asked"
      /\ UNCHANGED <<media, current, screen, passwords>>
  BY DEF Destroy, Submits, ui, ClientInv
<1>2. PICK step \in Steps : /\ step = Head(DestroyPlan) /\ step.key \in Keys /\ step.value = None
                            /\ step.value \in Storable(step.key) /\ step.op = "set"
  <2>1. PICK n \in 1..6 : n = 1
    OBVIOUS
  <2>2. From(DestroyPlan, n) = DestroyPlan
    BY <2>1, FromFirst, PlanFacts
  <2>3. /\ Head(DestroyPlan) = DestroyPlan[n] /\ DestroyPlan \in Seq(Steps) /\ DestroyPlan # <<>>
        /\ DestroyPlan[n].key \in Keys /\ DestroyPlan[n].op = "set" /\ DestroyPlan[n].value = None
        /\ None \in Storable(DestroyPlan[n].key)
    BY <2>2, DestroyParts
  <2>4. PICK step \in Steps : step = Head(DestroyPlan)
    BY <2>3, PlanParts
  <2> QED BY <2>3, <2>4
<1>3. PICK task \in Tasks : /\ task = Task("destroy", current, DestroyPlan) /\ task.kind = "destroy"
                            /\ task.session = current /\ task.plan = DestroyPlan /\ task # None
  <2>1. "destroy" \in (Kinds \ {"reload"}) \cup {"initialize", "cleanup"}
    <3>1. Task("destroy", current, DestroyPlan).kind = "destroy"
      BY DEF Task
    <3> QED BY <1>1, <3>1 DEF Begin
  <2>2. current \in SessionIds \cup {None} /\ DestroyPlan \in Seq(Steps)
    BY <1>1, PlanFacts DEF TypeOK
  <2> QED BY <2>1, <2>2, TaskFacts
<1>4. /\ tasks[t] = None /\ ops < MaxOps /\ ops' = ops + 1 /\ ops' \in Names
      /\ tasks' \in [TaskIds -> Tasks \cup {None}] /\ tasks'[t] = task /\ task # None
      /\ writes' \in [Keys -> Seq(Values)] /\ \A k \in Keys : writes'[k] \in Seq(Storable(k))
      /\ reads' \in [TaskIds -> [Keys -> Nat \cup {None}]]
      /\ \A k \in Keys : reads'[t][k] \in {None, Len(writes'[k])}
      /\ \A u \in TaskIds : u # t => tasks'[u] = tasks[u] /\ reads'[u] = reads[u]
      /\ \A k \in Keys : k # step.key => Might(k)' = Might(k)
      /\ Might(step.key)' \subseteq Might(step.key) \cup {step.value}
  <2>1. Begin(t, task) /\ step = Head(task.plan)
    <3>1. Begin(t, task)
      BY <1>1, <1>3
    <3>2. step = Head(task.plan)
      BY <1>2, <1>3
    <3> QED BY <3>1, <3>2
  <2>2. TypeOK /\ media' = media /\ step.value \in Storable(step.key)
    BY <1>1, <1>2
  <2>3. /\ tasks[t] = None /\ ops < MaxOps /\ ops' = ops + 1 /\ ops' \in Names
        /\ tasks' \in [TaskIds -> Tasks \cup {None}] /\ tasks'[t] = task /\ task # None
        /\ writes' \in [Keys -> Seq(Values)] /\ \A k \in Keys : writes'[k] \in Seq(Storable(k))
        /\ reads' \in [TaskIds -> [Keys -> Nat \cup {None}]]
        /\ \A k \in Keys : reads'[t][k] \in {None, Len(writes'[k])}
        /\ \A u \in TaskIds : u # t => tasks'[u] = tasks[u] /\ reads'[u] = reads[u]
    BY <2>1, <2>2, BeginFacts
  <2>4. \A k \in Keys : k # step.key => Might(k)' = Might(k)
    BY <2>1, <2>2, BeginFacts
  <2>5. Might(step.key)' \subseteq Might(step.key) \cup {step.value}
    BY <2>1, <2>2, BeginFacts
  <2> QED BY <2>3, <2>4, <2>5
<1>5. \A k \in Keys : Might(k)' \subseteq Might(k) \cup {None}
  BY <1>2, <1>4
<1>6. \A u \in TaskIds : tasks[u] = None
  <2> SUFFICES ASSUME NEW u \in TaskIds, tasks[u] # None PROVE FALSE
    OBVIOUS
  <2>1. tasks[u].kind \notin {"create", "unlock", "destroy", "cleanup", "save", "password"}
    BY <1>1 DEF Running
  <2>2. tasks[u].kind # "initialize"
    BY <1>1 DEF ClientInv, OnScreen, Running
  <2>3. tasks[u].kind \in (Kinds \ {"reload"}) \cup {"initialize", "cleanup"}
    BY <1>1, TaskPlan DEF Tasks
  <2> QED BY <2>1, <2>2, <2>3, PoolAssumption
<1>7. sessions' \in [SessionIds -> SessionRecords] /\ \A j \in SessionIds : sessions'[j] = NoSession
  <2>1. \A j \in SessionIds : ~ComingUp(j)
    BY <1>6 DEF ComingUp, Running
  <2>2. \A j \in SessionIds : j = current \/ sessions[j] = NoSession
    BY <1>1, <2>1 DEF ClientInv, SessionsApart, TypeOK
  <2>3. CASE current = None
    BY <1>1, <2>2, <2>3, NoneIsNothing DEF SessionLocked, TypeOK
  <2>4. CASE current # None
    <3>1. current \in SessionIds /\ sessions' = [sessions EXCEPT ![current] = NoSession]
      BY <1>1, <2>4 DEF SessionLocked, Locked, TypeOK
    <3> QED BY <1>1, <2>2, <3>1, NoSessionFacts DEF TypeOK
  <2> QED BY <2>3, <2>4
<1>8. TypeOK'
  BY <1>1, <1>4, <1>7 DEF TypeOK
<1>9. OneLive' /\ ReadsLast' /\ ReadsBack' /\ (Progress(t)' => ProgressInv')
  BY <1>3, <1>4, <1>6, <1>8, TaskBegins DEF Live
<1>10. \A kinds : Running(kinds)' \subseteq {t} /\ (t \in Running(kinds)' => "destroy" \in kinds)
  BY <1>3, <1>4, <1>6 DEF Running
<1>11. /\ Running({"create"})' = {} /\ Running({"unlock"})' = {} /\ Running({"initialize"})' = {}
       /\ Running({"create", "unlock"})' = {}
       /\ Running({"create", "unlock", "save", "password"})' = {}
  BY <1>10
<1>12. Alone'
  <2>1. \A u \in TaskIds : tasks'[u] # None => u = t
    BY <1>4, <1>6
  <2>2. \A kinds : \A u \in Running(kinds)' : u = t
    BY <1>10
  <2> QED BY <2>1, <2>2 DEF Alone
<1>13. OnScreen'
  BY <1>1, <1>11 DEF ClientInv, OnScreen
<1>14. SessionsApart' /\ PendingIsTask'
  BY <1>7, <1>11, NoSessionFacts DEF SessionsApart, PendingIsTask
<1>15. SlotsInv'
  <2> SUFFICES ASSUME NEW slot \in Slots
               PROVE  /\ \A a \in Might(slot)' : a # None => InPlace(slot, a.generation) /\ a.key <= ops'
                      /\ media'[slot] # None => Fits(media'[slot])
    BY DEF SlotsInv
  <2>1. media[slot] # None => Fits(media[slot])
    BY DEF ClientInv, SlotsInv
  <2>2. ASSUME NEW a \in Might(slot)', a # None PROVE InPlace(slot, a.generation) /\ a.key <= ops'
    <3>1. a \in Might(slot)
      BY <1>5, <2>2, KeyFacts
    <3>2. a \in SealedSlots /\ InPlace(slot, a.generation) /\ a.key <= ops
      BY <1>1, <2>2, <3>1, MightFacts, StorableValues, KeyFacts DEF ClientInv, SlotsInv
    <3> QED BY <1>1, <1>4, <3>2, NextName DEF SealedSlots, Names
  <2> QED BY <1>1, <2>1, <2>2
<1>16. OwnedInv' /\ UnownedInv' /\ ReportedInv'
  BY <1>1 DEF OwnedInv, UnownedInv, ReportedInv
<1>17. CurrentInv'
  BY <1>7, <1>8, NoSessionFacts DEF CurrentInv, TypeOK
<1>18. Progress(t)'
  <2>1. tasks'[t].plan = From(DestroyPlan, 1) /\ tasks'[t].kind = "destroy"
    BY <1>3, <1>4, PlanFacts, FromFirst
  <2>2. 1 \in 1..6 /\ \A j \in 1..(1 - 1) : FALSE
    OBVIOUS
  <2>3. DestroyInv(t)'
    BY <2>1, <2>2 DEF DestroyInv
  <2> QED BY <2>1, <2>3 DEF Progress
<1> QED BY <1>8, <1>9, <1>12, <1>13, <1>14, <1>15, <1>16, <1>17, <1>18 DEF ClientInv

(* The user saves an edit: the other slot is written, newer than the session's, which
   holds all that was acknowledged. *)
LEMMA StepSave ==
  ASSUME ClientInv, NEW t \in TaskIds, Save(t)
  PROVE  ClientInv'
<1>1. TypeOK /\ InVault /\ Mutable(sessions[current]) /\ UNCHANGED <<media, current, screen, owned, acked, passwords, ending>>
  BY DEF Save, ClientInv, ui, known
<1>2. PICK x \in SessionRecords :
        /\ x = sessions[current] /\ current \in SessionIds /\ current # None
        /\ Unlocked(x) /\ x.vault \in OpenVaults /\ x.pending = None /\ x.change = None
        /\ x.metadata \in Metadata /\ x.metadata # None
        /\ owned /\ VaultAt(x.vault.slot) /\ acked \subseteq x.vault.content
        /\ VersionStored(x) /\ MetadataStored(x)
  BY <1>1, MutableFacts
<1> DEFINE edited == x.vault.content \cup {ops + 1}
           s == WithPreparedSave(WithContent(x, edited), ops + 1)
<1>3. /\ sessions' = [sessions EXCEPT ![current] = s]
      /\ Begin(t, Task("save", current, SavePlan(s.pending.slot, s.pending.sealed)))
  BY <1>2 DEF Save
<1>4. ops < MaxOps /\ "save" \in Kinds
  <2>1. Task("save", current, SavePlan(s.pending.slot, s.pending.sealed)).kind = "save"
    BY DEF Task
  <2> QED BY <1>3, <2>1 DEF Begin
<1>5. /\ ops + 1 \in Names /\ edited \subseteq Names /\ x.vault.content \subseteq edited
      /\ x.vault.slot \in Slots /\ x.vault.generation \in Nat /\ x.vault.key \in Names
  BY <1>1, <1>2, <1>4, NextName DEF OpenVaults
<1>6. PICK slot \in Slots, sealed \in SealedSlots :
        /\ slot = Other(x.vault.slot) /\ sealed # None /\ sealed.key = x.vault.key
        /\ sealed.generation = x.vault.generation + 1 /\ sealed.content = edited
        /\ sealed = [key |-> x.vault.key, generation |-> x.vault.generation + 1,
                     content |-> edited, nonce |-> ops + 1]
  <2> DEFINE z == [key |-> x.vault.key, generation |-> x.vault.generation + 1,
                   content |-> edited, nonce |-> ops + 1]
  <2> HIDE DEF edited
  <2>1. /\ z \in SealedSlots /\ z.key = x.vault.key
        /\ z.generation = x.vault.generation + 1 /\ z.content = edited
    BY <1>5 DEF SealedSlots
  <2>2. Other(x.vault.slot) \in Slots
    BY <1>5, OtherSlot
  <2> QED BY <2>1, <2>2, NoneIsNothing
<1> HIDE DEF edited
<1>7. PICK y \in SessionRecords :
        /\ y = s /\ Unlocked(y) /\ y.vault.slot = x.vault.slot /\ y.vault.key = x.vault.key
        /\ y.vault.generation = x.vault.generation /\ y.vault.content = edited
        /\ y.metadata = x.metadata /\ y.change = None /\ y.pending # None
        /\ y.pending.slot = slot /\ y.pending.sealed = sealed /\ y.pending.verified = FALSE
  <2> DEFINE v == [x.vault EXCEPT !.content = edited]
             p == [slot |-> slot, sealed |-> sealed, verified |-> FALSE]
  <2>1. /\ v \in OpenVaults /\ v.slot = x.vault.slot /\ v.key = x.vault.key
        /\ v.generation = x.vault.generation /\ v.content = edited
    BY <1>2, <1>5 DEF OpenVaults
  <2>2. /\ p \in PendingSaves /\ p.slot = slot /\ p.sealed = sealed /\ p.verified = FALSE
    BY DEF PendingSaves
  <2>6. WithContent(x, edited) = [x EXCEPT !.vault = v]
    BY <1>2 DEF WithContent, SessionRecords
  <2> HIDE DEF v
  <2>3. s = [x EXCEPT !.vault = v, !.pending = p]
    <3>1. v \in OpenVaults \cup {None}
      BY <2>1
    <3>6. [x EXCEPT !.vault = v] \in SessionRecords
      BY <3>1 DEF SessionRecords
    <3>7. [x EXCEPT !.vault = v].vault = v
      BY DEF SessionRecords
    <3>2. PICK e \in SessionRecords : e = [x EXCEPT !.vault = v] /\ e.vault = v
      BY <3>6, <3>7
    <3>3. NextSealed(e, ops + 1) = sealed /\ Other(e.vault.slot) = slot
      BY <1>6, <2>1, <3>2 DEF NextSealed
    <3>4. WithPreparedSave(e, ops + 1) = [e EXCEPT !.pending = p]
      BY <3>3 DEF WithPreparedSave
    <3>5. s = [e EXCEPT !.pending = p]
      BY <2>6, <3>2, <3>4
    <3> HIDE DEF p
    <3> QED BY <3>2, <3>5 DEF SessionRecords
  <2> HIDE DEF p
  <2>4. s \in SessionRecords /\ s.vault = v /\ s.pending = p /\ s.metadata = x.metadata /\ s.change = None
    BY <1>2, <2>1, <2>2, <2>3 DEF SessionRecords
  <2> HIDE DEF s
  <2>5. PICK y \in SessionRecords : y = s
    BY <2>4
  <2> QED BY <2>1, <2>2, <2>4, <2>5, NoneIsNothing DEF Unlocked
<1> HIDE DEF s
<1>8. PICK plan \in Seq(Steps) :
        /\ plan = SavePlan(slot, sealed) /\ Len(plan) = 4 /\ plan # <<>>
        /\ plan[1] = SetStep(slot, sealed) /\ sealed \in Storable(slot)
        /\ \A j \in 1..4 : (plan[j].op = "set") = (j \in {1, 3})
        /\ \A j \in 1..4 : plan[j] \in Steps
  BY SavePlanFacts
<1>9. PICK step \in Steps : /\ step = Head(plan) /\ step.op = "set" /\ step.key = slot
                            /\ step.value = sealed
  <2>1. Head(plan) = SetStep(slot, sealed)
    BY <1>8
  <2> QED BY <1>8, <2>1, StepFacts, KeyFacts
<1>10. PICK task \in Tasks : /\ task = Task("save", current, plan) /\ task.kind = "save"
                             /\ task.session = current /\ task.plan = plan /\ task # None
  <2>1. "save" \in (Kinds \ {"reload"}) \cup {"initialize", "cleanup"} /\ current \in SessionIds \cup {None}
    BY <1>2, <1>4
  <2> QED BY <2>1, TaskFacts
<1>11. Begin(t, task) /\ step = Head(task.plan) /\ step.value \in Storable(step.key)
  <2>1. task = Task("save", current, SavePlan(s.pending.slot, s.pending.sealed))
    BY <1>7, <1>8, <1>10, Zenon
  <2>2. Begin(t, task)
    BY <1>3, <2>1, Zenon
  <2>3. step = Head(task.plan)
    BY <1>9, <1>10, Zenon
  <2>4. step.value \in Storable(step.key)
    BY <1>8, <1>9, Zenon
  <2> QED BY <2>2, <2>3, <2>4
<1>12. media' = media
  BY <1>1
<1>13. /\ tasks[t] = None /\ ops < MaxOps /\ ops' = ops + 1
       /\ tasks' \in [TaskIds -> Tasks \cup {None}] /\ tasks'[t] = task
       /\ writes' \in [Keys -> Seq(Values)] /\ \A k \in Keys : writes'[k] \in Seq(Storable(k))
       /\ reads' \in [TaskIds -> [Keys -> Nat \cup {None}]]
       /\ \A k \in Keys : reads'[t][k] \in {None, Len(writes'[k])}
       /\ \A u \in TaskIds : u # t => tasks'[u] = tasks[u] /\ reads'[u] = reads[u]
  BY <1>1, <1>11, <1>12, BeginFacts
<1>14. \A k \in Keys : k # step.key => Might(k)' = Might(k)
  BY <1>1, <1>11, <1>12, BeginFacts
<1>15. Might(step.key)' \subseteq Might(step.key) \cup {step.value}
  BY <1>1, <1>11, <1>12, BeginFacts
<1>16. sessions' = [sessions EXCEPT ![current] = y] /\ sessions'[current] = y
  BY <1>1, <1>2, <1>3, <1>7 DEF TypeOK
<1>17. \A j \in DOMAIN task.plan : task.plan[j].op = "set" => j < Len(task.plan) /\ task.plan[j + 1].op = "get"
  <2> SUFFICES ASSUME NEW j \in 1..4, plan[j].op = "set" PROVE j < 4 /\ plan[j + 1].op = "get"
    <3>1. DOMAIN plan = 1..4 /\ Len(plan) = 4
      BY <1>8
    <3>2. task.plan = plan
      BY <1>10
    <3> QED BY <3>1, <3>2, Zenon
  <2>1. j \in {1, 3}
    BY <1>8
  <2>2. j + 1 \in 1..4 /\ j + 1 \notin {1, 3}
    BY <2>1
  <2>3. plan[j + 1].op # "set"
    BY <1>8, <2>2
  <2>4. plan[j + 1] \in Steps
    BY <1>8, <2>2
  <2> QED BY <2>1, <2>3, <2>4 DEF Steps
<1>18. /\ TypeOK' /\ StructInv' /\ OnScreen' /\ PendingIsTask' /\ UnownedInv' /\ ReportedInv'
       /\ Progress(t)' => ProgressInv'
  <2>1. passwords' \subseteq Names
    BY <1>1 DEF TypeOK
  <2>2. task.plan # <<>> /\ task.kind \in {"save", "password"} /\ task.kind = "save"
    BY <1>8, <1>10
  <2> QED BY <1>1, <1>7, <1>10, <1>13, <1>16, <1>17, <2>1, <2>2, ChangeBegins
<1>19. PICK old \in Slots : old = x.vault.slot /\ slot = Other(old) /\ old # slot /\ old = Other(slot)
  BY <1>5, <1>6, OtherSlot
<1>20. /\ Might(old)' = Might(old) /\ Might("meta")' = Might("meta")
       /\ Might(slot)' \subseteq Might(slot) \cup {sealed}
  BY <1>9, <1>14, <1>15, <1>19, KeyFacts
<1>21. SlotsInv'
  <2>1. InPlace(slot, sealed.generation) /\ sealed.key <= ops'
    <3>1. media[old] \in Might(old) /\ media[old] # None
      BY <1>1, <1>2, <1>19, MightFacts, KeyFacts DEF VersionStored
    <3>2. /\ InPlace(old, media[old].generation) /\ media[old].key <= ops
          /\ media[old].generation = x.vault.generation /\ media[old].key = x.vault.key
      BY <1>2, <1>19, <3>1 DEF ClientInv, SlotsInv, VersionStored
    <3>3. sealed.generation % 2 = 0 <=> ~(x.vault.generation % 2 = 0)
      BY <1>5, <1>6
    <3>4. old = "slot_a" <=> ~(slot = "slot_a")
      BY <1>19, KeyFacts DEF Other
    <3>5. InPlace(slot, sealed.generation)
      BY <3>2, <3>3, <3>4 DEF InPlace
    <3>6. sealed.key <= ops'
      BY <1>1, <1>5, <1>6, <1>13, <3>2, NextName DEF Names
    <3> QED BY <3>5, <3>6
  <2> SUFFICES ASSUME NEW r \in Slots, NEW a \in Might(r)', a # None
               PROVE  InPlace(r, a.generation) /\ a.key <= ops'
    BY <1>1 DEF SlotsInv, ClientInv
  <2>2. CASE a = sealed /\ r = slot
    BY <2>1, <2>2
  <2>3. CASE ~(a = sealed /\ r = slot)
    <3>1. a \in Might(r)
      BY <1>19, <1>20, <2>3, OtherSlot
    <3>2. a \in SealedSlots /\ InPlace(r, a.generation) /\ a.key <= ops
      BY <1>1, <3>1, MightFacts, StorableValues, KeyFacts DEF ClientInv, SlotsInv
    <3> QED BY <1>1, <1>13, <3>2, NextName DEF SealedSlots, Names
  <2> QED BY <2>2, <2>3
<1>22. VaultAt(old)'
  <2> SUFFICES ASSUME NEW a \in Might(old), NEW m \in Might("meta"), NEW b \in Might(slot) \cup {sealed}
               PROVE  /\ a # None /\ Fits(a) /\ acked \subseteq a.content
                      /\ m # None /\ m.key = a.key /\ m.password \in passwords
                      /\ b # None /\ b.key = a.key =>
                           \/ b.generation < a.generation
                           \/ b.generation = a.generation + 1 /\ acked \subseteq b.content
    BY <1>1, <1>19, <1>20 DEF VaultAt
  <2>1. media[slot] \in Might(slot)
    BY <1>1, MightFacts, KeyFacts
  <2>2. /\ a # None /\ Fits(a) /\ acked \subseteq a.content
        /\ m # None /\ m.key = a.key /\ m.password \in passwords
    BY <1>2, <1>19, <2>1 DEF VaultAt
  <2>3. CASE b = sealed
    BY <1>2, <1>5, <1>6, <1>19, <2>2, <2>3 DEF VersionStored
  <2>4. CASE b \in Might(slot)
    BY <1>2, <1>19, <2>2, <2>4 DEF VaultAt
  <2> QED BY <2>2, <2>3, <2>4
<1>23. OwnedInv'
  BY <1>1, <1>2, <1>22 DEF OwnedInv
<1>24. CurrentInv'
  <2>1. VaultAt(y.vault.slot)' /\ acked' \subseteq y.vault.content /\ y.metadata # None
    BY <1>1, <1>2, <1>5, <1>7, <1>19, <1>22
  <2>2. VersionStored(y)' /\ MetadataStored(y)'
    BY <1>2, <1>7, <1>19, <1>20 DEF VersionStored, MetadataStored
  <2> QED BY <1>1, <1>2, <1>7, <1>16, <2>1, <2>2 DEF CurrentInv
<1>25. Progress(t)'
  <2>1. OwnSession(t)' = y /\ tasks'[t].kind = "save"
    BY <1>10, <1>13, <1>16 DEF OwnSession
  <2>2. IsNextSlot(y, slot, sealed)
    BY <1>6, <1>7 DEF IsNextSlot, NextSealed
  <2>3. tasks'[t].plan = From(SavePlan(slot, sealed), 1)
    BY <1>8, <1>10, <1>13, FromFirst
  <2>4. 1 \in 1..4 /\ (1 > 2) = FALSE /\ (1 > 1) = FALSE /\ (1 = 4) = FALSE
    OBVIOUS
  <2>5. y.pending.verified = (1 > 2)
    BY <1>7, <2>4, Zenon
  <2>6. SaveInv(t)'
    BY <1>7, <2>1, <2>2, <2>3, <2>4, <2>5 DEF SaveInv
  <2> QED BY <2>1, <2>6 DEF Progress
<1> QED BY <1>18, <1>21, <1>23, <1>24, <1>25 DEF ClientInv, StructInv

(* The user changes the password: until it is confirmed, either may be the vault's. *)
LEMMA StepChangePassword ==
  ASSUME ClientInv, NEW t \in TaskIds, ChangePassword(t)
  PROVE  ClientInv'
<1>1. /\ TypeOK /\ InVault /\ Mutable(sessions[current]) /\ passwords' = passwords \cup {ops + 1}
      /\ UNCHANGED <<media, current, screen, owned, acked, ending>>
  BY DEF ChangePassword, ClientInv, ui
<1>2. PICK x \in SessionRecords :
        /\ x = sessions[current] /\ current \in SessionIds /\ current # None
        /\ Unlocked(x) /\ x.vault \in OpenVaults /\ x.pending = None /\ x.change = None
        /\ x.metadata \in Metadata /\ x.metadata # None
        /\ owned /\ VaultAt(x.vault.slot) /\ acked \subseteq x.vault.content
        /\ VersionStored(x) /\ ContentStored(x) /\ PointerStored(x)
  BY <1>1, MutableFacts
<1> DEFINE s == WithPreparedPassword(x, ops + 1, ops + 1)
<1>3. /\ sessions' = [sessions EXCEPT ![current] = s]
      /\ Begin(t, Task("password", current, ChangePlan(s.change)))
  BY <1>2 DEF ChangePassword
<1>4. ops < MaxOps /\ "password" \in Kinds
  <2>1. Task("password", current, ChangePlan(s.change)).kind = "password"
    BY DEF Task
  <2> QED BY <1>3, <2>1 DEF Begin
<1>5. ops + 1 \in Names
  BY <1>1, <1>4, NextName
<1>6. PICK change \in Metadata :
        /\ change = [key |-> x.metadata.key, password |-> ops + 1, nonce |-> ops + 1]
        /\ change # None /\ change.key = x.metadata.key /\ change.password = ops + 1
  <2>1. [key |-> x.metadata.key, password |-> ops + 1, nonce |-> ops + 1] \in Metadata
    BY <1>2, <1>5 DEF Metadata
  <2> QED BY <2>1, NoneIsNothing
<1>7. PICK y \in SessionRecords :
        /\ y = s /\ Unlocked(y) /\ y.vault = x.vault /\ y.metadata = x.metadata
        /\ y.pending = None /\ y.change = change
  <2>1. s = [x EXCEPT !.change = change]
    BY <1>6 DEF WithPreparedPassword
  <2>2. /\ s \in SessionRecords /\ s.vault = x.vault /\ s.metadata = x.metadata
        /\ s.pending = None /\ s.change = change
    BY <1>2, <2>1 DEF SessionRecords
  <2> HIDE DEF s
  <2>3. PICK y \in SessionRecords : y = s
    BY <2>2
  <2> QED BY <1>2, <2>2, <2>3 DEF Unlocked
<1> HIDE DEF s
<1>8. PICK plan \in Seq(Steps) :
        /\ plan = ChangePlan(change) /\ Len(plan) = 2 /\ plan # <<>>
        /\ plan[1] = SetStep("meta", change) /\ change \in Storable("meta")
        /\ plan[1].op = "set" /\ plan[2].op = "get"
  BY ChangePlanFacts
<1>9. PICK step \in Steps : step = Head(plan) /\ step.op = "set" /\ step.key = "meta" /\ step.value = change
  <2>1. Head(plan) = SetStep("meta", change)
    BY <1>8
  <2> QED BY <1>8, <2>1, StepFacts, KeyFacts
<1>10. PICK task \in Tasks : /\ task = Task("password", current, plan) /\ task.kind = "password"
                             /\ task.session = current /\ task.plan = plan /\ task # None
  <2>1. "password" \in (Kinds \ {"reload"}) \cup {"initialize", "cleanup"} /\ current \in SessionIds \cup {None}
    BY <1>2, <1>4
  <2> QED BY <2>1, TaskFacts
<1>11. Begin(t, task) /\ step = Head(task.plan) /\ step.value \in Storable(step.key)
  <2>1. task = Task("password", current, ChangePlan(s.change))
    BY <1>7, <1>8, <1>10, Zenon
  <2>2. Begin(t, task)
    BY <1>3, <2>1, Zenon
  <2>3. step = Head(task.plan)
    BY <1>9, <1>10, Zenon
  <2>4. step.value \in Storable(step.key)
    BY <1>8, <1>9, Zenon
  <2> QED BY <2>2, <2>3, <2>4
<1>12. media' = media
  BY <1>1
<1>13. /\ tasks[t] = None /\ ops < MaxOps /\ ops' = ops + 1
       /\ tasks' \in [TaskIds -> Tasks \cup {None}] /\ tasks'[t] = task
       /\ writes' \in [Keys -> Seq(Values)] /\ \A k \in Keys : writes'[k] \in Seq(Storable(k))
       /\ reads' \in [TaskIds -> [Keys -> Nat \cup {None}]]
       /\ \A k \in Keys : reads'[t][k] \in {None, Len(writes'[k])}
       /\ \A u \in TaskIds : u # t => tasks'[u] = tasks[u] /\ reads'[u] = reads[u]
  BY <1>1, <1>11, <1>12, BeginFacts
<1>14. \A k \in Keys : k # step.key => Might(k)' = Might(k)
  BY <1>1, <1>11, <1>12, BeginFacts
<1>15. Might(step.key)' \subseteq Might(step.key) \cup {step.value}
  BY <1>1, <1>11, <1>12, BeginFacts
<1>16. sessions' = [sessions EXCEPT ![current] = y] /\ sessions'[current] = y
  BY <1>1, <1>2, <1>3, <1>7 DEF TypeOK
<1>17. \A j \in DOMAIN task.plan : task.plan[j].op = "set" => j < Len(task.plan) /\ task.plan[j + 1].op = "get"
  <2> SUFFICES ASSUME NEW j \in 1..2, plan[j].op = "set" PROVE j < 2 /\ plan[j + 1].op = "get"
    <3>1. DOMAIN plan = 1..2 /\ Len(plan) = 2
      BY <1>8
    <3>2. task.plan = plan
      BY <1>10
    <3> QED BY <3>1, <3>2, Zenon
  <2>1. j = 1 /\ j + 1 = 2
    BY <1>8
  <2> QED BY <1>8, <2>1
<1>18. /\ TypeOK' /\ StructInv' /\ OnScreen' /\ PendingIsTask' /\ UnownedInv' /\ ReportedInv'
       /\ Progress(t)' => ProgressInv'
  <2>1. passwords' \subseteq Names
    BY <1>1, <1>5 DEF TypeOK
  <2>2. task.plan # <<>> /\ task.kind \in {"save", "password"} /\ task.kind = "password"
    BY <1>8, <1>10
  <2> QED BY <1>1, <1>7, <1>10, <1>13, <1>16, <1>17, <2>1, <2>2, ChangeBegins
<1>19. PICK slot \in Slots : slot = x.vault.slot
  BY <1>2 DEF OpenVaults
<1>20. /\ \A r \in Slots : Might(r)' = Might(r)
       /\ Might("pointer")' = Might("pointer")
       /\ Might("meta")' \subseteq Might("meta") \cup {change}
  BY <1>9, <1>14, <1>15, KeyFacts
<1>21. SlotsInv'
  <2> SUFFICES ASSUME NEW r \in Slots, NEW a \in Might(r), a # None
               PROVE  InPlace(r, a.generation) /\ a.key <= ops'
    BY <1>1, <1>20 DEF SlotsInv, ClientInv
  <2>1. a \in SealedSlots /\ InPlace(r, a.generation) /\ a.key <= ops
    BY <1>1, MightFacts, StorableValues, KeyFacts DEF ClientInv, SlotsInv
  <2> QED BY <1>1, <1>13, <2>1, NextName DEF SealedSlots, Names
<1>22. VaultAt(slot)'
  <2> SUFFICES ASSUME NEW a \in Might(slot), NEW m \in Might("meta") \cup {change}, NEW b \in Might(Other(slot))
               PROVE  /\ a # None /\ Fits(a) /\ acked \subseteq a.content
                      /\ m # None /\ m.key = a.key /\ m.password \in passwords'
                      /\ b # None /\ b.key = a.key =>
                           \/ b.generation < a.generation
                           \/ b.generation = a.generation + 1 /\ acked \subseteq b.content
    <3>1. media[Other(slot)] \in Might(Other(slot))
      BY <1>1, MightFacts, KeyFacts, OtherSlot
    <3> QED BY <1>1, <1>20, <3>1, OtherSlot DEF VaultAt
  <2>1. media["meta"] \in Might("meta")
    BY <1>1, MightFacts, KeyFacts
  <2>2. /\ a # None /\ Fits(a) /\ acked \subseteq a.content
        /\ b # None /\ b.key = a.key =>
             \/ b.generation < a.generation
             \/ b.generation = a.generation + 1 /\ acked \subseteq b.content
    BY <1>2, <1>19, <2>1 DEF VaultAt
  <2>3. CASE m = change
    BY <1>1, <1>2, <1>6, <1>19, <2>2, <2>3 DEF VersionStored
  <2>4. CASE m \in Might("meta")
    BY <1>1, <1>2, <1>19, <2>4 DEF VaultAt
  <2> QED BY <2>2, <2>3, <2>4
<1>23. OwnedInv'
  BY <1>1, <1>2, <1>22 DEF OwnedInv
<1>24. CurrentInv'
  <2>1. VaultAt(y.vault.slot)' /\ acked' \subseteq y.vault.content /\ y.metadata # None
    BY <1>1, <1>2, <1>7, <1>19, <1>22
  <2>2. VersionStored(y)' /\ ContentStored(y)' /\ PointerStored(y)'
    BY <1>2, <1>7, <1>19, <1>20, OtherSlot DEF VersionStored, ContentStored, PointerStored
  <2> QED BY <1>1, <1>2, <1>6, <1>7, <1>16, <2>1, <2>2 DEF CurrentInv
<1>25. Progress(t)'
  <2>1. OwnSession(t)' = y /\ tasks'[t].kind = "password"
    BY <1>10, <1>13, <1>16 DEF OwnSession
  <2>2. tasks'[t].plan = From(ChangePlan(y.change), 1)
    BY <1>7, <1>8, <1>10, <1>13, FromFirst
  <2>3. 1 \in 1..2 /\ (1 = 2) = FALSE
    OBVIOUS
  <2>4. y.change.key = y.vault.key
    BY <1>2, <1>6, <1>7 DEF VersionStored
  <2>5. ChangeInv(t)'
    BY <1>6, <1>7, <2>1, <2>2, <2>3, <2>4 DEF ChangeInv
  <2> QED BY <2>1, <2>5 DEF Progress
<1> QED BY <1>18, <1>21, <1>23, <1>24, <1>25 DEF ClientInv, StructInv

-----------------------------------------------------------------------------
LEMMA StepStutter ==
  ASSUME ClientInv, UNCHANGED vars
  PROVE  ClientInv'
<1>1. UNCHANGED <<media, writes, reads, tasks, sessions, current, screen, ops, owned, acked, passwords, ending>>
  BY DEF vars, storage, ui, known
<1>2. \A k : Might(k)' = Might(k)
  BY <1>1 DEF Might
<1>3. TypeOK'
  BY <1>1 DEF ClientInv, TypeOK
<1>4. Quiet
  BY <1>1, <1>2, <1>3 DEF Quiet, ClientInv, TypeOK, Names
<1>5. StructInv'
  BY <1>1 DEF ClientInv, StructInv, OneLive, ReadsLast, ReadsBack, Alone, SessionsApart, Live,
              OwnSession, Running, ComingUp
<1>6. OnScreen' /\ PendingIsTask'
  BY <1>1 DEF ClientInv, OnScreen, PendingIsTask, Running
<1>7. ReportedInv'
  BY <1>1, <1>2 DEF ClientInv, ReportedInv
<1>8. \A u \in TaskIds : Live(u)' => Kept(u)
  BY <1>1 DEF Live, Kept, OwnSession
<1> QED BY <1>1, <1>3, <1>4, <1>5, <1>6, <1>7, <1>8, QuietStep


-----------------------------------------------------------------------------
(* The page is loaded: nothing stored, or a vault as its creation left it. *)
LEMMA StoredVaultFacts ==
  ASSUME NEW p \in Pointers \cup {None}, NEW l \in LegacyValues \cup {None},
         NEW c \in LegacyValues \cup {None}
  PROVE  /\ StoredVault(p, l, c) \in [Keys -> Values]
         /\ \A k \in Keys : StoredVault(p, l, c)[k] \in Storable(k)
         /\ StoredVault(p, l, c)["slot_a"] = FirstSlot(0)
         /\ StoredVault(p, l, c)["slot_b"] = None
         /\ StoredVault(p, l, c)["meta"] = [key |-> 0, password |-> 0, nonce |-> 0]
<1>1. PICK m : m = StoredVault(p, l, c)
  OBVIOUS
<1>2. DOMAIN m = {"slot_a", "slot_b", "meta", "pointer", "manual_lock", "password_cache"}
  BY <1>1 DEF StoredVault
<1>3. DOMAIN m = Keys
  BY <1>2 DEF Keys, VaultKeys, LegacyKeys, Slots
<1>4. m = [k \in DOMAIN m |-> m[k]]
  BY <1>1 DEF StoredVault
<1>5. /\ m["slot_a"] = FirstSlot(0) /\ m["slot_b"] = None
      /\ m["meta"] = [key |-> 0, password |-> 0, nonce |-> 0] /\ m["pointer"] = p
      /\ m["manual_lock"] = l /\ m["password_cache"] = c
  BY <1>1 DEF StoredVault, FirstSlot
<1>6. FirstSlot(0) \in SealedSlots /\ [key |-> 0, password |-> 0, nonce |-> 0] \in Metadata
  BY PoolAssumption DEF FirstSlot, SealedSlots, Metadata, Names
<1>7. \A k \in Keys : m[k] \in Storable(k)
  <2>1. m["slot_a"] \in Storable("slot_a") /\ m["slot_b"] \in Storable("slot_b")
    BY <1>5, <1>6, KeyFacts, StorableValues
  <2>2. m["meta"] \in Storable("meta") /\ m["pointer"] \in Storable("pointer")
    BY <1>5, <1>6, StorableValues
  <2>3. m["manual_lock"] \in Storable("manual_lock") /\ m["password_cache"] \in Storable("password_cache")
    BY <1>5, StorableValues DEF LegacyKeys
  <2> QED BY <2>1, <2>2, <2>3 DEF Keys, VaultKeys, LegacyKeys, Slots
<1>8. \A k \in Keys : m[k] \in Values
  BY <1>7, StorableValues
<1>9. m \in [Keys -> Values]
  BY <1>3, <1>4, <1>8
<1> QED BY <1>1, <1>5, <1>7, <1>9

LEMMA InitMedia ==
  ASSUME Init
  PROVE  /\ media \in [Keys -> Values] /\ \A k \in Keys : media[k] \in Storable(k)
         /\ \/ screen = "onboarding" /\ \A k \in Keys : media[k] = None
            \/ /\ screen = "locked" /\ media["slot_a"] = FirstSlot(0) /\ media["slot_b"] = None
               /\ media["meta"] = [key |-> 0, password |-> 0, nonce |-> 0]
<1>1. CASE media = [k \in Keys |-> None] /\ screen = "onboarding"
  BY <1>1, StorableValues
<1>2. CASE media = StoredVault(None, Leftover, None) /\ screen = "locked"
  <2>1. Leftover \in LegacyValues
    BY DEF Leftover, LegacyValues
  <2> QED BY <1>2, <2>1, StoredVaultFacts
<1>3. CASE media = StoredVault([slot |-> "slot_a", generation |-> 0], None, Leftover) /\ screen = "locked"
  <2>1. [slot |-> "slot_a", generation |-> 0] \in Pointers /\ Leftover \in LegacyValues
    BY DEF Pointers, Slots, Leftover, LegacyValues
  <2> QED BY <1>3, <2>1, StoredVaultFacts
<1> QED BY <1>1, <1>2, <1>3 DEF Init

LEMMA InitClientInv == Init => ClientInv
<1> SUFFICES ASSUME Init PROVE ClientInv
  OBVIOUS
<1>1. /\ writes = [k \in Keys |-> <<>>] /\ reads = [t \in TaskIds |-> NoReads]
      /\ owned = (screen = "locked") /\ tasks = [t \in TaskIds |-> None]
      /\ sessions = [i \in SessionIds |-> NoSession]
      /\ current = None /\ ops = 0 /\ acked = {} /\ passwords = {0} /\ ending = "no"
  BY DEF Init
<1>2. \A i \in SessionIds : /\ sessions[i] = NoSession /\ ~Unlocked(sessions[i])
                            /\ sessions[i].pending = None /\ sessions[i].change = None
  BY <1>1, NoSessionFacts
<1>3. \A k \in Keys : Might(k) = {media[k]}
  <2>1. \A k \in Keys : writes[k] = <<>> /\ <<>> \in Seq(Values) /\ Len(<<>>) = 0
    BY <1>1
  <2> QED BY <2>1, EmptySequence DEF Might
<1>4. FirstSlot(0) # None /\ [key |-> 0, password |-> 0, nonce |-> 0] # None
  BY StoredVaultFacts, NoneIsNothing, PoolAssumption
      DEF FirstSlot, SealedSlots, Metadata, Names
<1>5. Fits(FirstSlot(0)) /\ FirstSlot(0).key = 0 /\ FirstSlot(0).generation = 0
  BY EmptyVaultFits DEF FirstSlot, Fits, Version
<1>6. TypeOK
  <2>1. writes \in [Keys -> Seq(Values)] /\ \A k \in Keys : writes[k] \in Seq(Storable(k))
    BY <1>1
  <2>2. reads \in [TaskIds -> [Keys -> Nat \cup {None}]]
    BY <1>1 DEF NoReads
  <2>3. sessions \in [SessionIds -> SessionRecords]
    BY <1>1, NoSessionFacts
  <2>4. screen \in {"onboarding", "locked"} /\ owned \in BOOLEAN
    BY <1>1, InitMedia, Zenon
  <2> QED BY <1>1, <1>2, <2>1, <2>2, <2>3, <2>4, InitMedia, PoolAssumption DEF TypeOK, Names
<1>7. \A t \in TaskIds : tasks[t] = None /\ ~Live(t)
  BY <1>1 DEF Live
<1>8. \A kinds : Running(kinds) = {}
  BY <1>7 DEF Running
<1>9. OneLive /\ ReadsLast /\ ReadsBack /\ Alone /\ ProgressInv
  BY <1>7, <1>8 DEF OneLive, ReadsLast, ReadsBack, Alone, ProgressInv
<1>10. OnScreen
  BY <1>1, <1>8, InitMedia DEF OnScreen
<1>11. SessionsApart /\ PendingIsTask
  BY <1>2, <1>8 DEF SessionsApart, PendingIsTask
<1>12. SlotsInv
  <2>1. InPlace("slot_a", 0)
    BY DEF InPlace
  <2>2. "slot_a" \in Keys /\ "slot_b" \in Keys
    BY KeyFacts
  <2> QED BY <1>1, <1>3, <1>5, <2>1, <2>2, InitMedia, KeyFacts DEF SlotsInv
<1>13. CASE screen = "onboarding"
  <2>1. OwnedInv /\ ReportedInv /\ CurrentInv
    BY <1>1, <1>13 DEF OwnedInv, ReportedInv, CurrentInv
  <2>2. UnownedInv
    BY <1>3, <1>13, InitMedia, KeyFacts DEF UnownedInv
  <2> QED BY <1>6, <1>9, <1>10, <1>11, <1>12, <2>1, <2>2 DEF ClientInv
<1>14. CASE screen = "locked"
  <2>1. UnownedInv /\ ReportedInv /\ CurrentInv
    BY <1>1, <1>14 DEF UnownedInv, ReportedInv, CurrentInv
  <2>2. VaultAt("slot_a")
    BY <1>1, <1>3, <1>4, <1>5, <1>14, InitMedia, KeyFacts DEF VaultAt
  <2>3. OwnedInv
    BY <2>2, <1>1, <1>14, KeyFacts DEF OwnedInv
  <2> QED BY <1>6, <1>9, <1>10, <1>11, <1>12, <2>1, <2>3 DEF ClientInv
<1> QED BY <1>13, <1>14, InitMedia

-----------------------------------------------------------------------------
(* Every step of a patient user, of the host and of the operations keeps it. *)
LEMMA StepNext ==
  ASSUME Patient, ClientInv, [Next]_vars
  PROVE  ClientInv'
<1>1. CASE User
  <2>1. ASSUME NEW t \in TaskIds,
               Create(t) \/ Unlock(t) \/ Save(t) \/ ChangePassword(t) \/ Destroy(t)
        PROVE  ClientInv'
    BY <2>1, StepCreate, StepUnlock, StepSave, StepChangePassword, StepDestroy
  <2> QED BY <1>1, <2>1, StepLock, StepReload DEF User
<1>2. CASE \E k \in Keys : HostWrites(k)
  BY <1>2, StepHostWrites
<1>3. ASSUME NEW t \in TaskIds, Continue(t) PROVE ClientInv'
  <2>1. CASE ReadsAgain(t)
    BY <2>1, StepReadsAgain
  <2>2. CASE SetDone(t)
    BY <2>2, StepSetDone
  <2>3. CASE CreateChecked(t)
    BY <2>3, StepCreateChecked
  <2>4. CASE SessionReady(t)
    BY <2>4, StepSessionReady
  <2>5. CASE SlotReadBack(t)
    BY <2>5, StepSlotReadBack
  <2>6. CASE PointerReadBack(t)
    BY <2>6, StepPointerReadBack
  <2>7. CASE MetadataReadBack(t)
    BY <2>7, StepMetadataReadBack
  <2>8. CASE Destroyed(t) \/ CleanedUp(t)
    BY <2>8, StepDestroyed, StepCleanedUp
  <2>9. CASE LegacyCleared(t) \/ Inspected(t)
    BY <2>9, StepLegacyCleared, StepInspected
  <2>10. CASE \E k \in VaultKeys : SnapshotRead(t, k)
    BY <2>10, StepSnapshotRead
  <2> QED BY <1>3, <2>1, <2>2, <2>3, <2>4, <2>5, <2>6, <2>7, <2>8, <2>9, <2>10 DEF Continue
<1>4. CASE \E t \in TaskIds : AdapterFails(t)
  BY <1>4, StepAdapterFails
<1>5. CASE UNCHANGED vars
  BY <1>5, StepStutter
<1> QED BY <1>1, <1>2, <1>3, <1>4, <1>5 DEF Next

(* Whatever a patient user asks for, whatever the host makes of the calls and
   wherever an operation fails: at most one operation can still write, and the
   session and every operation under way are right about the storage. *)
THEOREM ClientKeepsInv == ASSUME Patient PROVE Spec => []ClientInv
<1>1. ClientInv /\ [Next]_vars => ClientInv'
  BY StepNext
<1> QED BY <1>1, InitClientInv, PTL DEF Spec

-----------------------------------------------------------------------------
(* What it says of the next unlock *)
LEMMA SelectedOne ==
  ASSUME ClientInv, NEW a \in Might("slot_a"), NEW b \in Might("slot_b"), NEW m \in Might("meta"),
         NEW s \in Slots, Found(a, b, m)[s] # None, Found(a, b, m)[s].key = m.key,
         Fits(Found(a, b, m)[s])
  PROVE  Selected(Found(a, b, m)) # {}
<1>1. PICK got : got = Found(a, b, m)
  OBVIOUS
<1>2. got["slot_a"] = a /\ got["slot_b"] = b /\ got["meta"] = m
  BY <1>1 DEF Found
<1>3. \A o \in Slots : got[o] \in SealedSlots \cup {None}
  BY <1>2, KeyFacts, MightFacts, StorableValues DEF ClientInv
<1>4. \A o \in Slots : got[o] # None => got[o].generation \in Nat
  BY <1>3 DEF SealedSlots
<1>5. got[s] # None /\ got[s].key = got["meta"].key /\ Fits(got[s])
  BY <1>1, <1>2
<1> DEFINE o == Other(s)
<1>6. o \in Slots /\ \A r \in Slots : r = s \/ r = o
  BY OtherSlot
<1>7. CASE got[o] # None /\ got[o].key = got["meta"].key /\ Fits(got[o])
           /\ got[s].generation < got[o].generation
  BY <1>4, <1>6, <1>7, <1>1, <1>5 DEF Selected
<1>8. CASE ~(got[o] # None /\ got[o].key = got["meta"].key /\ Fits(got[o])
             /\ got[s].generation < got[o].generation)
  BY <1>4, <1>6, <1>8, <1>1, <1>5 DEF Selected
<1> QED BY <1>7, <1>8

LEMMA FoundFields == \A a, b, m : /\ Found(a, b, m)["slot_a"] = a /\ Found(a, b, m)["slot_b"] = b
                                  /\ Found(a, b, m)["meta"] = m
BY DEF Found

LEMMA VaultOpens ==
  ASSUME ClientInv, NEW slot \in Slots, VaultAt(slot),
         NEW a \in Might("slot_a"), NEW b \in Might("slot_b"), NEW m \in Might("meta")
  PROVE  /\ m # None /\ m.password \in passwords /\ Selected(Found(a, b, m)) # {}
         /\ \A s \in Selected(Found(a, b, m)) : acked \subseteq Found(a, b, m)[s].content
<1>1. PICK got : got = Found(a, b, m)
  OBVIOUS
<1>2. got["slot_a"] = a /\ got["slot_b"] = b /\ got["meta"] = m
  BY <1>1, FoundFields
<1>3. \A s \in Slots : got[s] \in Might(s)
  BY <1>2, KeyFacts
<1>4. /\ got[slot] # None /\ Fits(got[slot]) /\ acked \subseteq got[slot].content
      /\ m # None /\ m.key = got[slot].key /\ m.password \in passwords
      /\ Other(slot) \in Slots
      /\ LET o == got[Other(slot)] IN
           o # None /\ o.key = got[slot].key =>
             \/ o.generation < got[slot].generation
             \/ o.generation = got[slot].generation + 1 /\ acked \subseteq o.content
  BY <1>3, OtherSlot DEF VaultAt
<1>5. Selected(got) # {}
  BY <1>1, <1>4, SelectedOne
<1>6. ASSUME NEW s \in Selected(got) PROVE acked \subseteq got[s].content
  <2>1. /\ s \in Slots /\ got[s] # None /\ got[s].key = m.key
        /\ got[slot].generation <= got[s].generation
    BY <1>2, <1>4 DEF Selected
  <2>2. CASE s = slot
    BY <1>4, <2>2
  <2>3. CASE s = Other(slot)
    <3>1. got[s].generation \in Nat /\ got[slot].generation \in Nat
      <4>1. got[s] \in SealedSlots /\ got[slot] \in SealedSlots
        BY <1>3, <1>4, <2>1, KeyFacts, MightFacts, StorableValues DEF ClientInv
      <4> QED BY <4>1 DEF SealedSlots
    <3>2. ~(got[s].generation < got[slot].generation)
      BY <2>1, <3>1
    <3> QED BY <1>4, <2>1, <2>3, <3>2
  <2> QED BY <2>1, <2>2, <2>3, OtherSlot
<1> QED BY <1>1, <1>4, <1>5, <1>6

LEMMA InvAckedSurvives == ClientInv => AckedSurvives
<1> SUFFICES ASSUME ClientInv, owned PROVE AckedSurvives
  BY DEF AckedSurvives
<1>1. PICK slot \in Slots : VaultAt(slot)
  BY DEF ClientInv, OwnedInv
<1> QED BY <1>1, VaultOpens DEF AckedSurvives

LEMMA InvMetadataOpens == ClientInv => MetadataOpens
<1> SUFFICES ASSUME ClientInv, ending = "no",
                    NEW a \in Might("slot_a"), NEW b \in Might("slot_b"), NEW m \in Might("meta"),
                    m # None
             PROVE  Selected(Found(a, b, m)) # {}
  BY DEF MetadataOpens
<1>1. CASE owned
  <2>1. PICK slot \in Slots : VaultAt(slot)
    BY <1>1 DEF ClientInv, OwnedInv
  <2> QED BY <2>1, VaultOpens
<1>2. CASE ~owned
  <2>1. a # None /\ a.key = m.key /\ Fits(a)
    BY <1>2 DEF ClientInv, UnownedInv
  <2> QED BY <2>1, SelectedOne, FoundFields, KeyFacts
<1> QED BY <1>1, <1>2

LEMMA InvSessionMatchesStorage == ClientInv => SessionMatchesStorage
<1> SUFFICES ASSUME ClientInv, current # None, Unlocked(sessions[current]),
                    \A t \in TaskIds : tasks[t] = None
             PROVE  SessionMatchesStorage
  BY DEF SessionMatchesStorage
<1>1. PICK s \in SessionRecords : s = sessions[current]
  BY DEF ClientInv, TypeOK
<1>2. s.pending = None /\ s.change = None
  BY <1>1 DEF ClientInv, TypeOK, PendingIsTask, Running
<1>3. /\ VersionStored(s) /\ ContentStored(s) /\ PointerStored(s) /\ MetadataStored(s)
      /\ s.vault.slot \in Slots
  <2>1. s.vault \in OpenVaults
    BY <1>1 DEF SessionRecords, Unlocked
  <2> QED BY <1>1, <1>2, <2>1 DEF ClientInv, CurrentInv, OpenVaults
<1>4. PICK slot \in Slots : slot = s.vault.slot
  BY <1>3
<1>5. /\ slot \in Keys /\ Other(slot) \in Keys /\ "meta" \in Keys /\ "pointer" \in Keys
  BY KeyFacts, OtherSlot
<1>6. /\ media[slot] \in Might(slot) /\ media["meta"] \in Might("meta")
      /\ media["pointer"] \in Might("pointer")
  BY <1>5 DEF Might
<1>7. /\ media[slot] # None /\ media[slot].key = s.vault.key
      /\ media[slot].generation = s.vault.generation
  BY <1>3, <1>4, <1>6 DEF VersionStored
<1>8. /\ media[slot].content = s.vault.content /\ Might(slot) = {media[slot]}
      /\ \A b \in Might(Other(slot)) :
           b # None /\ b.key = media[slot].key => b.generation < media[slot].generation
  BY <1>3, <1>4, <1>6, <1>7 DEF ContentStored
<1>9. Might("meta") = {s.metadata}
  BY <1>3, <1>6 DEF MetadataStored
<1>10. Might("pointer") = {PointerTo(slot, media[slot])}
  BY <1>3, <1>4, <1>6, <1>7 DEF PointerStored, PointerTo
<1> QED BY <1>1, <1>2, <1>4, <1>7, <1>8, <1>9, <1>10 DEF SessionMatchesStorage

LEMMA InvLockedMeansLocked == ClientInv => LockedMeansLocked
BY DEF ClientInv, SessionsApart, OnScreen, LockedMeansLocked

LEMMA InvDestroyedMeansEmpty == ClientInv => DestroyedMeansEmpty
<1>1. \A k \in Keys : media[k] \in Might(k)
  BY DEF Might
<1> QED BY <1>1 DEF ClientInv, ReportedInv, DestroyedMeansEmpty

-----------------------------------------------------------------------------
(* The properties of the run *)
(* The variables keep their types, and a session that is not unlocked holds
   nothing of a vault. *)
THEOREM ClientTypes == ASSUME Patient PROVE Spec => []TypeOK
<1>1. ClientInv => TypeOK
  BY DEF ClientInv
<1> QED BY <1>1, ClientKeepsInv, PTL

(* Until its end is asked for, metadata is never there without a slot it opens:
   createSession's "already exists" and the locked screen are no dead end,
   wherever creation stopped and whatever the host still makes of its calls. *)
THEOREM ClientMetadataOpens == ASSUME Patient PROVE Spec => []MetadataOpens
BY InvMetadataOpens, ClientKeepsInv, PTL

(* The promise of saveSession, createSession and changeMasterPassword, made when
   the host's answers said so, outlives every failure, timeout, lock and reload:
   the next unlock opens every edit that was shown as saved. *)
THEOREM ClientAckedSurvives == ASSUME Patient PROVE Spec => []AckedSurvives
BY InvAckedSurvives, ClientKeepsInv, PTL

(* Between operations the session that saveSession will save from is what is
   stored, and no call of an earlier operation can change that any more. *)
THEOREM ClientSessionMatchesStorage == ASSUME Patient PROVE Spec => []SessionMatchesStorage
BY InvSessionMatchesStorage, ClientKeepsInv, PTL

(* A session that the controller has let go of, and that is not being opened, is
   locked: no failure or overtaking operation leaves a key in memory. *)
THEOREM ClientLockedMeansLocked == ASSUME Patient PROVE Spec => []LockedMeansLocked
BY InvLockedMeansLocked, ClientKeepsInv, PTL

(* Once destroy has reported the end of the vault, nothing of it is stored, also
   after the calls that other operations left behind. *)
THEOREM ClientDestroyedMeansEmpty == ASSUME Patient PROVE Spec => []DestroyedMeansEmpty
BY InvDestroyedMeansEmpty, ClientKeepsInv, PTL

=============================================================================
