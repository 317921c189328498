------------------------ MODULE TwoSlotRepository_proofs ------------------------
(***************************************************************************)
(* Theorems about TwoSlotRepository, for every set of vaults, passwords and *)
(* contents, every last generation and every choice of faults.              *)
(***************************************************************************)
EXTENDS TwoSlotRepository, TLAPS

(* A vault's next generation belongs to the other slot: saves alternate. *)
LEMMA SlotsAlternate ==
  \A g \in Nat : SlotOf(g) \in SlotIds /\ SlotOf(g + 1) = Other(SlotOf(g)) /\ SlotOf(0) = "A"
BY DEF SlotOf, SlotIds, Other

(* What a running writer puts under a key has the type of that key. *)
LEMMA EncodedType ==
  ASSUME TypeOK, ~Idle, op.kind # "clear"
  PROVE  /\ op \in Creators \cup Writers
         /\ op.cand \in SlotRecords
         /\ op.key \in Keys
         /\ op.key \in SlotIds => Encoded \in SlotRecords /\ Encoded = op.cand
         /\ op.key = "meta" => Encoded \in MetaRecords
         /\ op.key = "active" => Encoded \in PointerRecords
<1>1. op \in Creators \cup Writers
  BY DEF TypeOK, Idle, Clearers
<1>2. op.cand \in SlotRecords /\ op.key \in Keys
  BY <1>1 DEF Creators, Writers, Keys, SlotIds
<1>3. op.key \in SlotIds => Encoded \in SlotRecords /\ Encoded = op.cand
  BY <1>2 DEF Encoded, SlotIds
<1>4. op.key = "active" => Encoded \in PointerRecords
  BY <1>2 DEF Encoded, SlotRecords, PointerRecords, PointerTo
<1>5. ASSUME op.key = "meta" PROVE Encoded \in MetaRecords
  <2>1. op \in Creators
    BY <1>1, <1>5 DEF Writers
  <2> QED BY <2>1, <1>2, <1>5 DEF Creators, SlotRecords, MetaRecords, Encoded
<1> QED BY <1>1, <1>2, <1>3, <1>4, <1>5

(* Storing well-typed values keeps the storage well-typed. *)
LEMMA StoreType ==
  ASSUME TypeOK, NEW k \in Keys, NEW x,
         x \in {None, Garbage} \/ (k \in SlotIds /\ x \in SlotRecords)
           \/ (k = "meta" /\ x \in MetaRecords) \/ (k = "active" /\ x \in PointerRecords),
         store' = [store EXCEPT ![k] = x]
  PROVE  /\ store' \in [Keys -> SlotRecords \cup MetaRecords \cup PointerRecords \cup {None, Garbage}]
         /\ \A s \in SlotIds : store'[s] \in SlotRecords \cup {None, Garbage}
         /\ store'["meta"] \in MetaRecords \cup {None, Garbage}
         /\ store'["active"] \in PointerRecords \cup {None, Garbage}
         /\ store'[k] = x
         /\ \A j \in Keys \ {k} : store'[j] = store[j]
BY DEF TypeOK, Keys, SlotIds

LEMMA InitTyped == Init => TypeOK
BY DEF Init, TypeOK, Results, Keys, SlotIds

-----------------------------------------------------------------------------
(* Candidates of open *)

LEMMA CandidateIntro ==
  ASSUME NEW seen, NEW m, NEW c \in SlotRecords,
         seen[c.slot] = c, c.content \notin Oversized, c.vault = m.vault
  PROVE  c \in Candidates(seen, m)
<1>1. c.slot \in SlotIds
  BY DEF SlotRecords
<1> QED BY <1>1 DEF Candidates, Authenticates

LEMMA CandidateElim ==
  ASSUME NEW seen, NEW m, NEW c \in Candidates(seen, m)
  PROVE  /\ c \in SlotRecords /\ c.slot \in SlotIds /\ seen[c.slot] = c
         /\ c.content \notin Oversized /\ c.vault = m.vault
BY DEF Candidates, Authenticates

-----------------------------------------------------------------------------
(* The initial state *)

LEMMA InitInductive == Init => InductiveInv
<1> SUFFICES ASSUME Init PROVE InductiveInv
  OBVIOUS
<1>1. TypeOK
  BY InitTyped
<1>2. \A k \in Keys : store[k] = None
  BY DEF Init
<1>3. None \notin SlotRecords /\ None \notin MetaRecords
  BY NoneAssumption
<1>4. NeighbouringGenerations /\ SlotsInv /\ MetadataHasASlot
  BY <1>2, <1>3 DEF NeighbouringGenerations, SlotsInv, MetadataHasASlot, Keys, SlotIds
<1>5. DamagedInv /\ SessionInv /\ ObservedInv /\ InitializeInv /\ OpenInv /\ SaveInv /\ ClearInv
  BY DEF Init, DamagedInv, SessionInv, ObservedInv, InitializeInv, OpenInv, SaveInv, ClearInv
<1> QED BY <1>1, <1>4, <1>5 DEF InductiveInv

-----------------------------------------------------------------------------
(* Steps that end an operation or change nothing but the result *)

LEMMA Stopped ==
  ASSUME InductiveInv, UNCHANGED <<store, session, observed, damaged>>,
         op' = None, result' \in Results
  PROVE  InductiveInv'
<1>1. TypeOK'
  BY DEF InductiveInv, TypeOK
<1>2. DamagedInv' /\ SlotsInv' /\ NeighbouringGenerations' /\ MetadataHasASlot'
  BY DEF InductiveInv, DamagedInv, SlotsInv, NeighbouringGenerations, MetadataHasASlot
<1>3. SessionInv' /\ ObservedInv'
  BY DEF InductiveInv, SessionInv, ObservedInv, MetaOf, Holds
<1>4. InitializeInv' /\ OpenInv' /\ SaveInv' /\ ClearInv'
  BY DEF InitializeInv, OpenInv, SaveInv, ClearInv
<1> QED BY <1>1, <1>2, <1>3, <1>4 DEF InductiveInv

LEMMA FailureSteps ==
  ASSUME InductiveInv, WriteTooLarge \/ WriteNotVerified \/ RemoveNotVerified
  PROVE  InductiveInv'
BY Stopped DEF WriteTooLarge, WriteNotVerified, RemoveNotVerified, Return, Results

LEMMA InitializeStep ==
  ASSUME InductiveInv, NEW v \in Vaults, NEW p \in Passwords, Initialize(v, p)
  PROVE  InductiveInv'
<1>1. CASE op' = None /\ UNCHANGED observed
  BY <1>1, Stopped DEF Initialize, Return, Begin, Results
<1>2. CASE ~(op' = None /\ UNCHANGED observed)
  <2> DEFINE c == [vault |-> v, slot |-> "A", gen |-> 0, content |-> EmptyContent]
  <2> DEFINE o == [kind |-> "initialize", key |-> "A", verify |-> FALSE, password |-> p, cand |-> c]
  <2>1. /\ store["meta"] = None /\ op' = o /\ observed' = None /\ result' = "none"
        /\ session = None /\ Fresh(v) /\ UNCHANGED <<store, session, damaged>>
    BY <1>2 DEF Initialize, Created, Return, Begin
  <2>a. c \in SlotRecords
    BY MaxGenAssumption, ContentAssumption DEF SlotRecords, SlotIds
  <2>b. o \in Creators
    BY <2>a DEF Creators
  <2>2. c \in SlotRecords /\ o \in Creators /\ o # None
    BY <2>a, <2>b, NoneAssumption
  <2>3. TypeOK'
    BY <2>1, <2>2 DEF InductiveInv, TypeOK, Results
  <2>4. DamagedInv' /\ SlotsInv' /\ NeighbouringGenerations' /\ SessionInv' /\ ObservedInv'
    BY <2>1 DEF InductiveInv, DamagedInv, SlotsInv, NeighbouringGenerations, SessionInv, ObservedInv
  <2>5. MetadataHasASlot'
    BY <2>1, NoneAssumption DEF MetadataHasASlot
  <2>6. InitializeInv'
    <3>1. InSlot(c)
      BY SlotsAlternate, ContentAssumption DEF InSlot
    <3>2. store["B"] \in SlotRecords => store["B"].vault # v
      BY <2>1, NoneAssumption DEF Fresh, SlotIds
    <3> QED BY <2>1, <3>1, <3>2, NoneAssumption DEF InitializeInv, InSlot
  <2>7. OpenInv' /\ SaveInv' /\ ClearInv'
    BY <2>1 DEF OpenInv, SaveInv, ClearInv
  <2> QED BY <2>3, <2>4, <2>5, <2>6, <2>7 DEF InductiveInv
<1> QED BY <1>1, <1>2

LEMMA SaveStep ==
  ASSUME InductiveInv, Save
  PROVE  InductiveInv'
<1>1. CASE session.gen = MaxGen
  BY <1>1, Stopped DEF Save, Return, Results
<1>2. CASE session.gen # MaxGen
  <2> DEFINE o == [kind |-> "save", key |-> Other(session.slot), verify |-> FALSE,
                   cand |-> NextSlot(session)]
  <2>1. op' = o /\ result' = "none" /\ session # None /\ UNCHANGED <<store, session, observed, damaged>>
    BY <1>2 DEF Save, Begin
  <2>2. session \in SlotRecords /\ session.gen \in 0..MaxGen /\ session.slot \in SlotIds
    BY <2>1 DEF InductiveInv, TypeOK, Sessions, SlotRecords
  <2>3. session.gen < MaxGen /\ session.gen + 1 \in 0..MaxGen /\ Other(session.slot) \in SlotIds
    BY <1>2, <2>2, MaxGenAssumption DEF Other, SlotIds
  <2>4. NextSlot(session) \in SlotRecords /\ NextSlot(session).slot = Other(session.slot)
    BY <2>2, <2>3 DEF NextSlot, SlotRecords
  <2>a. o \in Writers
    BY <2>3, <2>4 DEF Writers, SlotIds
  <2>5. o \in Writers /\ o # None
    BY <2>a, NoneAssumption
  <2>6. TypeOK'
    BY <2>1, <2>5 DEF InductiveInv, TypeOK, Results
  <2>7. DamagedInv' /\ SlotsInv' /\ NeighbouringGenerations' /\ MetadataHasASlot'
    BY <2>1 DEF InductiveInv, DamagedInv, SlotsInv, NeighbouringGenerations, MetadataHasASlot
  <2>8. SessionInv' /\ ObservedInv'
    BY <2>1 DEF InductiveInv, SessionInv, ObservedInv, MetaOf, Holds
  <2>9. SaveInv'
    <3>1. Other(session.slot) # "active"
      BY <2>3 DEF SlotIds
    <3>2. op'.kind = "save" /\ op'.cand = NextSlot(session) /\ op'.key = Other(session.slot)
      BY <2>1
    <3>3. NextSlot(session)' = NextSlot(session) /\ session' = session
      BY <2>1 DEF NextSlot
    <3> QED BY <2>1, <2>3, <2>4, <3>1, <3>2, <3>3 DEF SaveInv
  <2>10. InitializeInv' /\ OpenInv' /\ ClearInv'
    BY <2>1 DEF InitializeInv, OpenInv, ClearInv
  <2> QED BY <2>6, <2>7, <2>8, <2>9, <2>10 DEF InductiveInv
<1> QED BY <1>1, <1>2

(* A slot that open considers is stored as it is, in its own place. *)
LEMMA CandidateStored ==
  ASSUME InductiveInv, NEW unread, store["meta"] \in MetaRecords,
         NEW c \in Candidates([k \in Keys |-> IF k \in unread THEN Garbage ELSE store[k]], store["meta"])
  PROVE  /\ c \in SlotRecords /\ InSlot(c)
         /\ store[c.slot] = c
         /\ store["meta"].vault = c.vault
<1> DEFINE seen == [k \in Keys |-> IF k \in unread THEN Garbage ELSE store[k]]
<1>1. /\ c \in SlotRecords /\ c.slot \in SlotIds /\ seen[c.slot] = c
      /\ c.content \notin Oversized /\ c.vault = store["meta"].vault
  BY CandidateElim
<1>2. seen[c.slot] = IF c.slot \in unread THEN Garbage ELSE store[c.slot]
  BY <1>1 DEF Keys
<1>3. store[c.slot] = c
  BY <1>1, <1>2, NoneAssumption
<1> QED BY <1>1, <1>3 DEF InductiveInv, SlotsInv

LEMMA OpenStep ==
  ASSUME InductiveInv, NEW p \in Passwords, NEW unread \in SUBSET FaultyReads, Open(p, unread)
  PROVE  InductiveInv'
<1> DEFINE seen == [k \in Keys |-> IF k \in unread THEN Garbage ELSE store[k]]
<1>1. CASE op' = None /\ UNCHANGED <<session, observed>>
  <2>1. result' \in Results
    BY <1>1 DEF Open, Return, Begin, Results
  <2> QED BY <1>1, <2>1, Stopped DEF Open
<1>2. CASE ~(op' = None /\ UNCHANGED <<session, observed>>)
  <2>1. PICK c \in Candidates(seen, store["meta"]) :
          /\ store["meta"] \in MetaRecords /\ session = None
          /\ UNCHANGED <<store, damaged>>
          /\ \/ /\ op' = None /\ result' = "ok"
                /\ session' = c /\ observed' = c
             \/ /\ op' = [kind |-> "open", key |-> "active", verify |-> FALSE, cand |-> c]
                /\ result' = "none"
                /\ UNCHANGED <<session, observed>>
    BY <1>2 DEF Open, Return, Begin
  <2>2. /\ c \in SlotRecords /\ InSlot(c) /\ store[c.slot] = c /\ store["meta"].vault = c.vault
    BY <2>1, CandidateStored
  <2>3. DamagedInv' /\ SlotsInv' /\ NeighbouringGenerations' /\ MetadataHasASlot'
    BY <2>1 DEF InductiveInv, DamagedInv, SlotsInv, NeighbouringGenerations, MetadataHasASlot
  <2>4. Holds(c.slot, c)' /\ MetaOf(c.vault)' /\ c # None
    BY <2>1, <2>2, NoneAssumption DEF Holds, MetaOf
  <2>5. CASE op' = None /\ result' = "ok" /\ session' = c /\ observed' = c
    <3>1. TypeOK'
      BY <2>1, <2>2, <2>5 DEF InductiveInv, TypeOK, Sessions, Results
    <3>2. SessionInv' /\ ObservedInv'
      BY <2>2, <2>4, <2>5 DEF SessionInv, ObservedInv, Holds, MetaOf, InSlot
    <3>3. InitializeInv' /\ OpenInv' /\ SaveInv' /\ ClearInv'
      BY <2>5 DEF InitializeInv, OpenInv, SaveInv, ClearInv
    <3> QED BY <2>3, <3>1, <3>2, <3>3 DEF InductiveInv
  <2>6. CASE /\ op' = [kind |-> "open", key |-> "active", verify |-> FALSE, cand |-> c]
             /\ result' = "none" /\ UNCHANGED <<session, observed>>
    <3>1. op' \in Writers
      BY <2>2, <2>6 DEF Writers
    <3>2. TypeOK'
      BY <2>1, <2>6, <3>1 DEF InductiveInv, TypeOK, Results
    <3>3. SessionInv' /\ ObservedInv'
      BY <2>1, <2>6 DEF InductiveInv, SessionInv, ObservedInv, MetaOf, Holds
    <3>4. OpenInv'
      BY <2>1, <2>2, <2>4, <2>6 DEF OpenInv, Holds, MetaOf, InSlot
    <3>5. InitializeInv' /\ SaveInv' /\ ClearInv'
      BY <2>6 DEF InitializeInv, SaveInv, ClearInv
    <3> QED BY <2>3, <3>2, <3>3, <3>4, <3>5 DEF InductiveInv
  <2> QED BY <2>1, <2>5, <2>6
<1> QED BY <1>1, <1>2

-----------------------------------------------------------------------------
(* Steps in memory: the session opens, changes or goes *)

LEMMA EndSteps ==
  ASSUME InductiveInv, Lock \/ Crash
  PROVE  InductiveInv'
<1>1. /\ UNCHANGED <<store, observed, damaged>> /\ session' = None /\ op' = None
      /\ result' \in Results
  BY DEF InductiveInv, TypeOK, Lock, Crash, Idle, Results
<1>2. TypeOK'
  BY <1>1 DEF InductiveInv, TypeOK
<1>3. DamagedInv' /\ SlotsInv' /\ NeighbouringGenerations' /\ MetadataHasASlot'
  BY <1>1 DEF InductiveInv, DamagedInv, SlotsInv, NeighbouringGenerations, MetadataHasASlot
<1>4. SessionInv' /\ ObservedInv'
  BY <1>1 DEF InductiveInv, SessionInv, ObservedInv, MetaOf, Holds
<1>5. InitializeInv' /\ OpenInv' /\ SaveInv' /\ ClearInv'
  BY <1>1 DEF InitializeInv, OpenInv, SaveInv, ClearInv
<1> QED BY <1>2, <1>3, <1>4, <1>5 DEF InductiveInv

LEMMA EditStep ==
  ASSUME InductiveInv, NEW c \in Contents, Edit(c)
  PROVE  InductiveInv'
<1>1. /\ UNCHANGED <<store, op, result, observed, damaged>> /\ op = None /\ session # None
      /\ session' = [session EXCEPT !.content = c]
  BY DEF Edit, Idle
<1>2. session \in SlotRecords
  BY <1>1 DEF InductiveInv, TypeOK, Sessions
<1>3. /\ session' \in SlotRecords /\ session'.vault = session.vault
      /\ session'.slot = session.slot /\ session'.gen = session.gen
  BY <1>1, <1>2 DEF SlotRecords
<1>4. TypeOK'
  BY <1>1, <1>3 DEF InductiveInv, TypeOK, Sessions
<1>5. DamagedInv' /\ SlotsInv' /\ NeighbouringGenerations' /\ MetadataHasASlot' /\ ObservedInv'
  BY <1>1 DEF InductiveInv, DamagedInv, SlotsInv, NeighbouringGenerations, MetadataHasASlot,
              ObservedInv, MetaOf, Holds
<1>6. SessionInv'
  BY <1>1, <1>3 DEF InductiveInv, SessionInv
<1>7. InitializeInv' /\ OpenInv' /\ SaveInv' /\ ClearInv'
  BY <1>1 DEF InitializeInv, OpenInv, SaveInv, ClearInv
<1> QED BY <1>4, <1>5, <1>6, <1>7 DEF InductiveInv

LEMMA ClearStep ==
  ASSUME InductiveInv, Clear
  PROVE  InductiveInv'
<1> DEFINE o == [kind |-> "clear", key |-> "meta", verify |-> FALSE]
<1>1. op' = o /\ result' = "none" /\ session' = None /\ UNCHANGED <<store, observed, damaged>>
  BY DEF Clear, Begin
<1>2. o \in Clearers
  BY DEF Clearers, Keys
<1>3. TypeOK'
  BY <1>1, <1>2 DEF InductiveInv, TypeOK, Results
<1>4. DamagedInv' /\ SlotsInv' /\ NeighbouringGenerations' /\ MetadataHasASlot'
  BY <1>1 DEF InductiveInv, DamagedInv, SlotsInv, NeighbouringGenerations, MetadataHasASlot
<1>5. SessionInv' /\ ObservedInv'
  BY <1>1 DEF InductiveInv, SessionInv, ObservedInv, MetaOf, Holds
<1>6. InitializeInv' /\ OpenInv' /\ SaveInv' /\ ClearInv'
  BY <1>1 DEF InitializeInv, OpenInv, SaveInv, ClearInv
<1> QED BY <1>3, <1>4, <1>5, <1>6 DEF InductiveInv

-----------------------------------------------------------------------------
(* Steps that move on after a verified write or removal *)

LEMMA WriteVerifiedStep ==
  ASSUME InductiveInv, WriteVerified
  PROVE  InductiveInv'
<1>1. /\ ~Idle /\ op.kind # "clear" /\ store[op.key] = Encoded /\ Following # None
      /\ op' = [op EXCEPT !.key = Following, !.verify = FALSE]
      /\ UNCHANGED <<store, session, result, observed, damaged>>
  BY DEF WriteVerified
<1>2. /\ op \in Creators \cup Writers
      /\ op.key \in SlotIds => Encoded = op.cand
  BY <1>1, EncodedType DEF InductiveInv
<1>3. \/ op.kind = "initialize" /\ op.key = "A" /\ Following = "meta"
      \/ op.kind = "initialize" /\ op.key = "meta" /\ Following = "active"
      \/ op.kind = "save" /\ op.key \in SlotIds /\ Following = "active"
  <2>1. CASE op \in Creators
    BY <1>1, <2>1 DEF Creators, Following
  <2>2. CASE op.kind = "open"
    BY <1>1, <2>2 DEF InductiveInv, OpenInv, Idle, Following
  <2>3. CASE op.kind = "save"
    <3>1. op \in Writers
      BY <1>2, <2>3 DEF Creators
    <3> QED BY <1>1, <2>3, <3>1 DEF Writers, Following, SlotIds
  <2> QED BY <1>2, <2>1, <2>2, <2>3 DEF Writers
<1>4. op' \in Creators \cup Writers /\ op'.kind = op.kind /\ op'.cand = op.cand /\ op'.key = Following
  <2>1. CASE op.kind = "initialize"
    BY <1>1, <1>2, <1>3, <2>1 DEF Creators, Writers
  <2>2. CASE op.kind = "save"
    BY <1>1, <1>2, <1>3, <2>2 DEF Creators, Writers
  <2> QED BY <1>3, <2>1, <2>2
<1>5. TypeOK'
  BY <1>1, <1>4 DEF InductiveInv, TypeOK
<1>6. DamagedInv' /\ SlotsInv' /\ NeighbouringGenerations' /\ MetadataHasASlot'
  BY <1>1 DEF InductiveInv, DamagedInv, SlotsInv, NeighbouringGenerations, MetadataHasASlot
<1>7. SessionInv' /\ ObservedInv'
  BY <1>1 DEF InductiveInv, SessionInv, ObservedInv, MetaOf, Holds
<1>8. InitializeInv'
  <2>1. SUFFICES ASSUME op.kind = "initialize" PROVE InitializeInv'
    BY <1>4 DEF InitializeInv
  <2>2. op.key = "A" => store["A"] = op.cand
    BY <1>1, <1>2 DEF SlotIds
  <2>3. op.key = "meta" => store["meta"] \in MetaRecords /\ store["meta"].vault = op.cand.vault
    BY <1>1, EncodedType DEF InductiveInv, Encoded
  <2>4. op # None /\ op.kind = "initialize"
    BY <1>1, <2>1 DEF Idle
  <2>5. InitializeInv
    BY DEF InductiveInv
  <2> QED BY <1>1, <1>3, <1>4, <2>2, <2>3, <2>4, <2>5 DEF InitializeInv, Holds, MetaOf
<1>9. SaveInv'
  <2>1. SUFFICES ASSUME op.kind = "save" PROVE SaveInv'
    BY <1>4 DEF SaveInv
  <2>2. /\ session # None /\ session.gen < MaxGen /\ op.cand = NextSlot(session)
        /\ op.key = op.cand.slot
    BY <1>1, <1>3, <2>1 DEF InductiveInv, SaveInv, Idle, SlotIds
  <2>3. store[op.cand.slot] = op.cand /\ op.cand \in SlotRecords
    BY <1>1, <1>2, <1>3, <2>1, <2>2, EncodedType DEF InductiveInv
  <2>4. InSlot(op.cand)
    BY <1>3, <2>1, <2>2, <2>3 DEF InductiveInv, SlotsInv
  <2> QED BY <1>1, <1>3, <1>4, <2>1, <2>2, <2>3, <2>4 DEF SaveInv, Holds, NextSlot
<1>10. OpenInv' /\ ClearInv'
  BY <1>3, <1>4 DEF OpenInv, ClearInv
<1> QED BY <1>5, <1>6, <1>7, <1>8, <1>9, <1>10 DEF InductiveInv

LEMMA CommitStep ==
  ASSUME InductiveInv, Commit
  PROVE  InductiveInv'
<1>1. /\ ~Idle /\ op.kind # "clear" /\ Following = None
      /\ session' = op.cand /\ observed' = op.cand /\ op' = None /\ result' = "ok"
      /\ UNCHANGED <<store, damaged>>
  BY DEF Commit, Return
<1>2. op \in Creators \cup Writers /\ op.cand \in SlotRecords
  BY <1>1, EncodedType DEF InductiveInv
<1>3. op.key = "active"
  <2>1. "meta" # None /\ "active" # None
    BY NoneAssumption DEF Keys
  <2>2. CASE op \in Creators
    BY <1>1, <2>1, <2>2 DEF Creators, Following
  <2>3. CASE op \in Writers
    <3>1. op.kind = "open" => op.key = "active"
      BY <1>1 DEF InductiveInv, OpenInv, Idle
    <3> QED BY <1>1, <2>1, <2>3, <3>1 DEF Writers, Following
  <2> QED BY <1>2, <2>2, <2>3
<1>4. Holds(op.cand.slot, op.cand) /\ MetaOf(op.cand.vault) /\ InSlot(op.cand)
  <2>1. CASE op.kind = "initialize"
    BY <1>1, <1>3, <2>1 DEF InductiveInv, InitializeInv, Idle
  <2>2. CASE op.kind = "open"
    BY <1>1, <2>2 DEF InductiveInv, OpenInv, Idle
  <2>3. CASE op.kind = "save"
    <3>1. /\ session # None /\ op.cand = NextSlot(session)
          /\ InSlot(op.cand) /\ Holds(op.cand.slot, op.cand)
      BY <1>1, <1>3, <2>3 DEF InductiveInv, SaveInv, Idle
    <3>2. op.cand.vault = session.vault
      BY <3>1 DEF NextSlot, InductiveInv, TypeOK, Sessions, SlotRecords
    <3> QED BY <3>1, <3>2 DEF InductiveInv, SessionInv, ObservedInv
  <2> QED BY <1>2, <2>1, <2>2, <2>3 DEF Creators, Writers
<1>5. TypeOK'
  BY <1>1, <1>2 DEF InductiveInv, TypeOK, Sessions, Results
<1>6. DamagedInv' /\ SlotsInv' /\ NeighbouringGenerations' /\ MetadataHasASlot'
  BY <1>1 DEF InductiveInv, DamagedInv, SlotsInv, NeighbouringGenerations, MetadataHasASlot
<1>7. SessionInv' /\ ObservedInv'
  BY <1>1, <1>2, <1>4, NoneAssumption DEF SessionInv, ObservedInv, Holds, MetaOf, InSlot
<1>8. InitializeInv' /\ OpenInv' /\ SaveInv' /\ ClearInv'
  BY <1>1 DEF InitializeInv, OpenInv, SaveInv, ClearInv
<1> QED BY <1>5, <1>6, <1>7, <1>8 DEF InductiveInv

LEMMA RemoveVerifiedStep ==
  ASSUME InductiveInv, RemoveVerified
  PROVE  InductiveInv'
<1>1. CASE Following = None
  BY <1>1, Stopped DEF RemoveVerified, Return, Results
<1>2. CASE Following # None
  <2>1. /\ ~Idle /\ op.kind = "clear" /\ store[op.key] = None
        /\ op' = [op EXCEPT !.key = Following, !.verify = FALSE]
        /\ UNCHANGED <<store, session, result, observed, damaged>>
    BY <1>2 DEF RemoveVerified
  <2>2. op \in Clearers
    BY <2>1 DEF InductiveInv, TypeOK, Idle, Creators, Writers
  <2>3. Following \in {"A", "B", "active"}
    BY <1>2, <2>1, <2>2 DEF Clearers, Keys, SlotIds, Following
  <2>4. op' \in Clearers /\ op'.kind = "clear" /\ op'.key # "meta"
    BY <2>1, <2>2, <2>3 DEF Clearers, Keys, SlotIds
  <2>5. TypeOK'
    BY <2>1, <2>4 DEF InductiveInv, TypeOK
  <2>6. DamagedInv' /\ SlotsInv' /\ NeighbouringGenerations' /\ MetadataHasASlot'
    BY <2>1 DEF InductiveInv, DamagedInv, SlotsInv, NeighbouringGenerations, MetadataHasASlot
  <2>7. SessionInv' /\ ObservedInv'
    BY <2>1 DEF InductiveInv, SessionInv, ObservedInv, MetaOf, Holds
  <2>8. ClearInv'
    BY <2>1 DEF InductiveInv, ClearInv, Idle
  <2>9. InitializeInv' /\ OpenInv' /\ SaveInv'
    BY <2>4 DEF InitializeInv, OpenInv, SaveInv
  <2> QED BY <2>5, <2>6, <2>7, <2>8, <2>9 DEF InductiveInv
<1> QED BY <1>1, <1>2

-----------------------------------------------------------------------------
(* Steps that change the storage *)

LEMMA RemoveStep ==
  ASSUME InductiveInv, NEW accepted \in BOOLEAN, NEW landed \in BOOLEAN, Remove(accepted, landed)
  PROVE  InductiveInv'
<1>1. /\ ~Idle /\ op.kind = "clear" /\ op \in Clearers /\ op.key \in Keys /\ session = None
      /\ op.key # "meta" => store["meta"] = None
      /\ UNCHANGED <<session, damaged>>
  BY DEF Remove, InductiveInv, TypeOK, Idle, Creators, Writers, Clearers, ClearInv
<1>2. /\ op' = None \/ (op' \in Clearers /\ op'.kind = "clear" /\ op'.key = op.key)
      /\ result' \in Results
  <2>1. [op EXCEPT !.verify = TRUE] \in Clearers
    BY <1>1 DEF Clearers
  <2>2. /\ [op EXCEPT !.verify = TRUE].kind = op.kind
        /\ [op EXCEPT !.verify = TRUE].key = op.key
    BY <1>1 DEF Clearers
  <2>3. CASE accepted
    BY <1>1, <2>1, <2>2, <2>3 DEF Remove, InductiveInv, TypeOK
  <2>4. CASE ~accepted
    BY <2>4 DEF Remove, Return, Results
  <2> QED BY <2>3, <2>4
<1>3. CASE ~landed
  <2>1. store' = store /\ observed' = observed
    BY <1>3 DEF Remove
  <2>2. TypeOK'
    BY <1>1, <1>2, <2>1 DEF InductiveInv, TypeOK
  <2>3. DamagedInv' /\ SlotsInv' /\ NeighbouringGenerations' /\ MetadataHasASlot'
    BY <1>1, <2>1 DEF InductiveInv, DamagedInv, SlotsInv, NeighbouringGenerations, MetadataHasASlot
  <2>4. SessionInv' /\ ObservedInv'
    BY <1>1, <2>1 DEF InductiveInv, SessionInv, ObservedInv, MetaOf, Holds
  <2>5. InitializeInv' /\ OpenInv' /\ SaveInv' /\ ClearInv'
    BY <1>1, <1>2, <2>1 DEF InitializeInv, OpenInv, SaveInv, ClearInv
  <2> QED BY <2>2, <2>3, <2>4, <2>5 DEF InductiveInv
<1>4. CASE landed
  <2>1. store' = [store EXCEPT ![op.key] = None] /\ observed' = None
    BY <1>4 DEF Remove
  <2>2. /\ store' \in [Keys -> SlotRecords \cup MetaRecords \cup PointerRecords \cup {None, Garbage}]
        /\ \A s \in SlotIds : store'[s] \in SlotRecords \cup {None, Garbage}
        /\ store'["meta"] \in MetaRecords \cup {None, Garbage}
        /\ store'["active"] \in PointerRecords \cup {None, Garbage}
        /\ store'[op.key] = None
        /\ \A j \in Keys \ {op.key} : store'[j] = store[j]
    BY <1>1, <2>1, StoreType DEF InductiveInv
  <2>3. TypeOK'
    BY <1>1, <1>2, <2>1, <2>2 DEF InductiveInv, TypeOK
  <2>4. store'["meta"] = None
    BY <1>1, <2>2 DEF Keys
  <2>5. DamagedInv'
    BY <1>1, <2>2 DEF InductiveInv, TypeOK, DamagedInv
  <2>6. SlotsInv' /\ NeighbouringGenerations' /\ MetadataHasASlot'
    BY <2>2, <2>4, NoneAssumption DEF InductiveInv, SlotsInv, NeighbouringGenerations,
       MetadataHasASlot, Keys, SlotIds
  <2>7. SessionInv' /\ ObservedInv'
    BY <1>1, <2>1 DEF SessionInv, ObservedInv
  <2>8. InitializeInv' /\ OpenInv' /\ SaveInv' /\ ClearInv'
    BY <1>1, <1>2, <2>4 DEF InitializeInv, OpenInv, SaveInv, ClearInv
  <2> QED BY <2>3, <2>5, <2>6, <2>7, <2>8 DEF InductiveInv
<1> QED BY <1>3, <1>4

LEMMA DamageStep ==
  ASSUME InductiveInv, NEW k \in Keys, NEW spoilt \in {None, Garbage}, Damage(k, spoilt)
  PROVE  InductiveInv'
<1>1. /\ store[k] # None /\ store' = [store EXCEPT ![k] = spoilt] /\ damaged' = damaged \cup {k}
      /\ UNCHANGED <<session, op, result, observed>>
  BY DEF Damage
<1>2. /\ store' \in [Keys -> SlotRecords \cup MetaRecords \cup PointerRecords \cup {None, Garbage}]
      /\ \A s \in SlotIds : store'[s] \in SlotRecords \cup {None, Garbage}
      /\ store'["meta"] \in MetaRecords \cup {None, Garbage}
      /\ store'["active"] \in PointerRecords \cup {None, Garbage}
      /\ store'[k] = spoilt
      /\ \A j \in Keys \ {k} : store'[j] = store[j]
  BY <1>1, StoreType DEF InductiveInv
<1>3. store'[k] \notin SlotRecords \cup MetaRecords
  BY <1>2, NoneAssumption
<1>4. TypeOK'
  BY <1>1, <1>2 DEF InductiveInv, TypeOK
<1>5. DamagedInv'
  BY <1>1, <1>2 DEF InductiveInv, TypeOK, DamagedInv
<1>6. SlotsInv' /\ NeighbouringGenerations'
  BY <1>2, <1>3 DEF InductiveInv, SlotsInv, NeighbouringGenerations, Keys, SlotIds
<1>7. MetadataHasASlot'
  BY <1>1 DEF MetadataHasASlot
<1>8. \A j \in Keys : \A x : Holds(j, x) => Holds(j, x)'
  BY <1>1, <1>2 DEF Holds
<1>9. \A v : MetaOf(v) => MetaOf(v)'
  BY <1>1, <1>2 DEF MetaOf, Keys
<1>10. store["meta"] = None => store'["meta"] = None
  BY <1>1, <1>2 DEF Keys
<1>11. store'["meta"] \in MetaRecords => store'["meta"] = store["meta"]
  BY <1>2, <1>3 DEF Keys
<1>12. store'["B"] \in SlotRecords => store'["B"] = store["B"]
  BY <1>2, <1>3 DEF Keys, SlotIds
<1>13. SessionInv' /\ ObservedInv'
  <2>1. observed # None => observed.slot \in Keys
    BY DEF InductiveInv, TypeOK, SlotRecords, Keys
  <2> QED BY <1>1, <1>8, <1>9, <2>1 DEF InductiveInv, SessionInv, ObservedInv, InSlot
<1>14. op # None /\ op.kind \in {"initialize", "open", "save"} => op.cand.slot \in Keys
  BY DEF InductiveInv, TypeOK, Creators, Writers, Clearers, SlotRecords, Keys
<1>15. InitializeInv'
  BY <1>1, <1>8, <1>9, <1>10, <1>11, <1>12 DEF InductiveInv, InitializeInv, InSlot, Keys, SlotIds
<1>16. OpenInv' /\ SaveInv' /\ ClearInv'
  BY <1>1, <1>8, <1>9, <1>10, <1>14 DEF InductiveInv, OpenInv, SaveInv, ClearInv, InSlot, NextSlot
<1> QED BY <1>4, <1>5, <1>6, <1>7, <1>13, <1>15, <1>16 DEF InductiveInv

(* Where the running writer may write: a creation while nothing is observed, a
   save into the slot that does not hold what is observed, an open only into
   the pointer. *)
LEMMA WriteTarget ==
  ASSUME InductiveInv, ~Idle, op.kind # "clear"
  PROVE  /\ op.kind \in {"initialize", "open", "save"}
         /\ observed # None => op.key # "meta" /\ op.key # observed.slot
         /\ op.kind = "open" => op.key = "active"
         /\ op.kind = "initialize" => op.key \in {"A", "meta", "active"}
         /\ op.key = "meta" => op.kind = "initialize"
         /\ op.key \in SlotIds /\ op.cand.content \notin Oversized =>
              op.cand.slot = op.key /\ InSlot(op.cand)
         /\ op.key \in SlotIds /\ op.kind = "save" =>
              /\ observed # None /\ op.key = Other(observed.slot)
              /\ op.cand.vault = observed.vault /\ op.cand.gen = observed.gen + 1
<1>1. op \in Creators \cup Writers /\ op.cand \in SlotRecords
  BY EncodedType DEF InductiveInv
<1>2. "meta" \notin SlotIds /\ "active" \notin SlotIds
  BY DEF SlotIds
<1>3. observed # None => observed.slot \in SlotIds /\ observed.gen \in Nat /\ observed.slot = SlotOf(observed.gen)
  BY MaxGenAssumption DEF InductiveInv, TypeOK, SlotRecords, ObservedInv, InSlot
<1>4. CASE op.kind = "initialize"
  <2>1. op \in Creators
    BY <1>1, <1>4 DEF Writers
  <2> QED BY <1>2, <1>4, <2>1 DEF InductiveInv, InitializeInv, Idle, Creators, SlotIds, InSlot
<1>5. CASE op.kind = "open"
  BY <1>2, <1>3, <1>5 DEF InductiveInv, OpenInv, Idle
<1>6. CASE op.kind = "save"
  <2>1. /\ session # None /\ op.cand = NextSlot(session) /\ op.key \in {op.cand.slot, "active"}
    BY <1>6 DEF InductiveInv, SaveInv, Idle
  <2>2. /\ observed # None /\ session.vault = observed.vault
        /\ session.slot = observed.slot /\ session.gen = observed.gen
    BY <2>1 DEF InductiveInv, SessionInv
  <2>3. /\ op.cand.slot = Other(observed.slot) /\ op.cand.gen = observed.gen + 1
        /\ op.cand.vault = observed.vault
    BY <2>1, <2>2 DEF NextSlot, InductiveInv, TypeOK, Sessions, SlotRecords
  <2>4. op.cand.slot = SlotOf(op.cand.gen)
    BY <1>3, <2>2, <2>3, SlotsAlternate
  <2>5. Other(observed.slot) # observed.slot /\ Other(observed.slot) \in SlotIds
    BY <1>3, <2>2 DEF Other, SlotIds
  <2> QED BY <1>2, <1>3, <1>6, <2>1, <2>2, <2>3, <2>4, <2>5 DEF InSlot
<1> QED BY <1>1, <1>4, <1>5, <1>6 DEF Creators, Writers

LEMMA WriteStep ==
  ASSUME InductiveInv, NEW accepted \in BOOLEAN, NEW landed \in {"all", "nothing", "part"},
         Write(accepted, landed)
  PROVE  InductiveInv'
<1> DEFINE x == CASE landed = "all" -> Encoded
                  [] landed = "nothing" -> store[op.key]
                  [] landed = "part" -> Garbage
<1>1. /\ ~Idle /\ op.kind # "clear" /\ UNCHANGED <<session, observed>>
      /\ op.key \in SlotIds => op.cand.content \notin Oversized
      /\ store' = [store EXCEPT ![op.key] = x]
      /\ damaged' = IF landed = "all" THEN damaged \ {op.key} ELSE damaged
  BY DEF Write
<1>2. /\ op \in Creators \cup Writers /\ op.cand \in SlotRecords /\ op.key \in Keys
      /\ op.key \in SlotIds => Encoded \in SlotRecords /\ Encoded = op.cand
      /\ op.key = "meta" => Encoded \in MetaRecords
      /\ op.key = "active" => Encoded \in PointerRecords
  BY <1>1, EncodedType DEF InductiveInv
<1>3. /\ op.kind \in {"initialize", "open", "save"}
      /\ observed # None => op.key # "meta" /\ op.key # observed.slot
      /\ op.kind = "open" => op.key = "active"
      /\ op.kind = "initialize" => op.key \in {"A", "meta", "active"}
      /\ op.key = "meta" => op.kind = "initialize"
      /\ op.key \in SlotIds => op.cand.slot = op.key /\ InSlot(op.cand)
      /\ op.key \in SlotIds /\ op.kind = "save" =>
           /\ observed # None /\ op.key = Other(observed.slot)
           /\ op.cand.vault = observed.vault /\ op.cand.gen = observed.gen + 1
  BY <1>1, WriteTarget
<1>4. \/ landed = "all" /\ x = Encoded
      \/ landed = "nothing" /\ x = store[op.key]
      \/ landed = "part" /\ x = Garbage
  OBVIOUS
<1>5. /\ store' \in [Keys -> SlotRecords \cup MetaRecords \cup PointerRecords \cup {None, Garbage}]
      /\ \A s \in SlotIds : store'[s] \in SlotRecords \cup {None, Garbage}
      /\ store'["meta"] \in MetaRecords \cup {None, Garbage}
      /\ store'["active"] \in PointerRecords \cup {None, Garbage}
      /\ store'[op.key] = x
      /\ \A j \in Keys \ {op.key} : store'[j] = store[j]
  <2>1. x \in {None, Garbage} \/ (op.key \in SlotIds /\ x \in SlotRecords)
          \/ (op.key = "meta" /\ x \in MetaRecords) \/ (op.key = "active" /\ x \in PointerRecords)
    <3>1. op.key \in SlotIds \/ op.key = "meta" \/ op.key = "active"
      BY <1>2 DEF Keys
    <3>2. CASE x = Encoded
      BY <1>2, <3>1, <3>2
    <3>3. CASE x = store[op.key]
      BY <1>2, <3>1, <3>3 DEF InductiveInv, TypeOK
    <3> QED BY <1>4, <3>2, <3>3
  <2> HIDE DEF x
  <2> QED BY <1>1, <1>2, <2>1, StoreType DEF InductiveInv
<1> HIDE DEF x
<1>6. /\ op' = None \/ op' = [op EXCEPT !.verify = TRUE]
      /\ result' \in Results
  BY DEF Write, Return, Results, InductiveInv, TypeOK
<1>7. op' = None \/ (/\ op' \in Creators \cup Writers /\ op'.kind = op.kind
                     /\ op'.key = op.key /\ op'.cand = op.cand)
  <2>1. CASE op \in Creators
    BY <1>6, <2>1 DEF Creators
  <2>2. CASE op \in Writers
    BY <1>6, <2>2 DEF Writers
  <2> QED BY <1>2, <2>1, <2>2
<1>8. TypeOK'
  BY <1>1, <1>5, <1>6, <1>7 DEF InductiveInv, TypeOK
<1>9. damaged' \subseteq damaged /\ \A j \in Keys \ {op.key} : j \in damaged => j \in damaged'
  BY <1>1
<1>10. DamagedInv'
  BY <1>1, <1>4, <1>5, <1>9 DEF InductiveInv, TypeOK, DamagedInv
<1>11. SlotsInv'
  <2> SUFFICES ASSUME NEW s \in SlotIds, store'[s] \in SlotRecords
               PROVE  store'[s].slot = s /\ InSlot(store'[s])
    BY DEF SlotsInv, InSlot
  <2>1. CASE s # op.key \/ x = store[op.key]
    BY <1>5, <2>1 DEF InductiveInv, SlotsInv, Keys
  <2>2. CASE s = op.key /\ x # store[op.key]
    BY <1>2, <1>3, <1>4, <1>5, <2>2, NoneAssumption
  <2> QED BY <2>1, <2>2
<1>12. \A j \in Keys \ {op.key} : \A y : Holds(j, y) => Holds(j, y)'
  BY <1>5, <1>9 DEF Holds
<1>13. \A v : op.key # "meta" /\ MetaOf(v) => MetaOf(v)'
  BY <1>5, <1>9 DEF MetaOf, Keys
<1>14. observed # None => observed.slot \in SlotIds /\ observed \in SlotRecords
  BY DEF InductiveInv, TypeOK, SlotRecords
<1>15. SessionInv' /\ ObservedInv'
  BY <1>1, <1>3, <1>12, <1>13, <1>14 DEF InductiveInv, SessionInv, ObservedInv, InSlot, Keys
<1>16. NeighbouringGenerations'
  <2> SUFFICES ASSUME store'["A"] \in SlotRecords, store'["B"] \in SlotRecords,
                      store'["A"].vault = store'["B"].vault
               PROVE  \/ store'["A"].gen = store'["B"].gen + 1
                      \/ store'["B"].gen = store'["A"].gen + 1
    BY DEF NeighbouringGenerations
  <2>1. CASE op.key \notin SlotIds \/ x = store[op.key]
    BY <1>5, <2>1 DEF InductiveInv, NeighbouringGenerations, Keys, SlotIds
  <2>2. CASE op.key \in SlotIds /\ x # store[op.key]
    <3>1. store'[op.key] = op.cand
      BY <1>2, <1>4, <1>5, <2>2, NoneAssumption DEF SlotIds
    <3>2. CASE op.kind = "initialize"
      <4>1. op.key = "A" /\ store'["B"] = store["B"]
        BY <1>3, <1>5, <2>2, <3>2 DEF Keys, SlotIds
      <4> QED BY <1>1, <3>1, <3>2, <4>1 DEF InductiveInv, InitializeInv, Idle
    <3>3. CASE op.kind = "save"
      <4>1. /\ observed # None /\ op.key = Other(observed.slot) /\ observed.slot \in SlotIds
            /\ op.cand.gen = observed.gen + 1
        BY <1>3, <1>14, <2>2, <3>3
      <4>2. store'[observed.slot] = store[observed.slot] /\ store[observed.slot] \in SlotRecords
        BY <1>5, <4>1 DEF Other, Keys, SlotIds
      <4>3. store[observed.slot] = observed
        BY <4>1, <4>2, NoneAssumption DEF InductiveInv, ObservedInv, Holds, DamagedInv
      <4> QED BY <3>1, <4>1, <4>2, <4>3 DEF Other, SlotIds
    <3> QED BY <1>3, <2>2, <3>2, <3>3 DEF SlotIds
  <2> QED BY <2>1, <2>2
<1>17. MetadataHasASlot'
  <2> SUFFICES ASSUME store'["meta"] \in MetaRecords, damaged' = {}
               PROVE  Candidates(store', store'["meta"]) # {}
    BY DEF MetadataHasASlot
  <2>1. \A j \in Keys \ {op.key} : \A y : Holds(j, y) => store'[j] = y
    BY <1>12 DEF Holds
  <2>2. CASE op.kind = "initialize"
    <3>1. op # None
      BY <1>1 DEF Idle
    <3>2. op.key # "A"
      BY <1>5, <2>2, <3>1, NoneAssumption DEF InductiveInv, InitializeInv, Keys
    <3>3. store'["A"] = op.cand /\ op.cand.slot = "A" /\ op.cand.content \notin Oversized
      BY <2>1, <2>2, <3>1, <3>2 DEF InductiveInv, InitializeInv, InSlot, Keys, SlotIds
    <3>4. store'["meta"].vault = op.cand.vault
      <4>1. CASE store'["meta"] = store["meta"]
        BY <2>2, <3>1, <4>1 DEF InductiveInv, InitializeInv
      <4>2. CASE store'["meta"] # store["meta"]
        BY <1>4, <1>5, <4>2, NoneAssumption DEF Encoded, Keys
      <4> QED BY <4>1, <4>2
    <3> QED BY <1>2, <3>3, <3>4, CandidateIntro
  <2>3. CASE op.kind = "open"
    <3>1. /\ op.key = "active" /\ InSlot(op.cand) /\ Holds(op.cand.slot, op.cand)
          /\ MetaOf(op.cand.vault) /\ op.cand.slot \in SlotIds
      BY <1>1, <1>2, <2>3 DEF InductiveInv, OpenInv, Idle, SlotRecords
    <3>2. store'[op.cand.slot] = op.cand
      BY <2>1, <3>1 DEF Keys, SlotIds
    <3>3. store'["meta"].vault = op.cand.vault
      BY <1>13, <3>1 DEF MetaOf
    <3> QED BY <1>2, <3>1, <3>2, <3>3, CandidateIntro DEF InSlot
  <2>4. CASE op.kind = "save"
    <3>1. observed # None
      BY <1>1, <2>4 DEF InductiveInv, SaveInv, SessionInv, Idle
    <3>2. store'[observed.slot] = observed
      BY <1>3, <1>14, <2>1, <3>1 DEF InductiveInv, ObservedInv, Keys
    <3>3. store'["meta"].vault = observed.vault /\ observed.content \notin Oversized
      BY <1>3, <1>13, <3>1 DEF InductiveInv, ObservedInv, InSlot, MetaOf
    <3> QED BY <1>14, <3>1, <3>2, <3>3, CandidateIntro
  <2> QED BY <1>3, <2>2, <2>3, <2>4
<1>18. InitializeInv'
  <2> SUFFICES ASSUME op' # None, op.kind = "initialize" PROVE InitializeInv'
    BY <1>7 DEF InitializeInv
  <2>1. op'.kind = "initialize" /\ op'.key = op.key /\ op'.cand = op.cand /\ op # None
    BY <1>1, <1>7 DEF Idle
  <2>2. /\ session = None /\ observed = None
        /\ op.cand.gen = 0 /\ op.cand.slot = "A" /\ InSlot(op.cand)
        /\ store["B"] \in SlotRecords => store["B"].vault # op.cand.vault
        /\ op.key = "A" => store["meta"] = None
        /\ op.key # "A" => Holds("A", op.cand)
        /\ store["meta"] \in MetaRecords => store["meta"].vault = op.cand.vault
        /\ op.key = "active" => MetaOf(op.cand.vault)
    BY <2>1 DEF InductiveInv, InitializeInv
  <2>3. store'["B"] = store["B"]
    BY <1>3, <1>5 DEF Keys, SlotIds
  <2>4. op.key = "A" => store'["meta"] = None
    BY <1>5, <2>2 DEF Keys
  <2>5. op.key # "A" => Holds("A", op.cand)'
    BY <1>7, <1>12, <2>1, <2>2 DEF Keys, SlotIds, Holds
  <2>6. store'["meta"] \in MetaRecords => store'["meta"].vault = op.cand.vault
    <3>1. CASE store'["meta"] = store["meta"]
      BY <2>2, <3>1
    <3>2. CASE store'["meta"] # store["meta"]
      BY <1>4, <1>5, <3>2, NoneAssumption DEF Encoded, Keys
    <3> QED BY <3>1, <3>2
  <2>7. op.key = "active" => MetaOf(op.cand.vault)'
    BY <1>13, <2>1, <2>2 DEF MetaOf
  <2> QED BY <1>1, <2>1, <2>2, <2>3, <2>4, <2>5, <2>6, <2>7 DEF InitializeInv, InSlot, Holds, MetaOf
<1>19. OpenInv'
  <2> SUFFICES ASSUME op' # None, op.kind = "open" PROVE OpenInv'
    BY <1>7 DEF OpenInv
  <2>1. op'.kind = "open" /\ op'.key = op.key /\ op'.cand = op.cand /\ op # None
    BY <1>1, <1>7 DEF Idle
  <2>2. /\ session = None /\ op.key = "active" /\ InSlot(op.cand)
        /\ Holds(op.cand.slot, op.cand) /\ MetaOf(op.cand.vault) /\ op.cand.slot \in SlotIds
    BY <1>2, <2>1 DEF InductiveInv, OpenInv, SlotRecords
  <2>3. Holds(op.cand.slot, op.cand)' /\ MetaOf(op.cand.vault)'
    BY <1>12, <1>13, <2>1, <2>2 DEF Keys, SlotIds, Holds, MetaOf
  <2> QED BY <1>1, <2>1, <2>2, <2>3 DEF OpenInv, InSlot, Holds, MetaOf
<1>20. SaveInv'
  <2> SUFFICES ASSUME op' # None, op.kind = "save" PROVE SaveInv'
    BY <1>7 DEF SaveInv
  <2>1. op'.kind = "save" /\ op'.key = op.key /\ op'.cand = op.cand /\ op # None
    BY <1>1, <1>7 DEF Idle
  <2>2. /\ session # None /\ session.gen < MaxGen /\ op.cand = NextSlot(session)
        /\ op.key \in {op.cand.slot, "active"} /\ op.cand.slot \in SlotIds
        /\ op.key = "active" => InSlot(op.cand) /\ Holds(op.cand.slot, op.cand)
    BY <1>2, <2>1 DEF InductiveInv, SaveInv, SlotRecords
  <2>3. op.key = "active" => Holds(op.cand.slot, op.cand)'
    BY <1>12, <2>1, <2>2 DEF Keys, SlotIds, Holds
  <2> QED BY <1>1, <2>1, <2>2, <2>3 DEF SaveInv, InSlot, Holds, NextSlot
<1>21. ClearInv'
  BY <1>1, <1>7 DEF ClearInv
<1> QED BY <1>8, <1>10, <1>11, <1>15, <1>16, <1>17, <1>18, <1>19, <1>20, <1>21 DEF InductiveInv

-----------------------------------------------------------------------------
(* Every step *)

LEMMA StutterStep ==
  ASSUME InductiveInv, UNCHANGED vars
  PROVE  InductiveInv'
<1>1. /\ store' = store /\ session' = session /\ op' = op
      /\ result' = result /\ observed' = observed /\ damaged' = damaged
  BY DEF vars
<1>2. TypeOK' /\ DamagedInv' /\ SlotsInv' /\ NeighbouringGenerations' /\ MetadataHasASlot'
  BY <1>1 DEF InductiveInv, TypeOK, DamagedInv, SlotsInv, NeighbouringGenerations, MetadataHasASlot
<1>3. SessionInv' /\ ObservedInv'
  BY <1>1 DEF InductiveInv, SessionInv, ObservedInv, MetaOf, Holds
<1>4. InitializeInv' /\ OpenInv'
  BY <1>1 DEF InductiveInv, InitializeInv, OpenInv, MetaOf, Holds
<1>5. SaveInv' /\ ClearInv'
  BY <1>1 DEF InductiveInv, SaveInv, ClearInv, NextSlot, Holds
<1> QED BY <1>2, <1>3, <1>4, <1>5 DEF InductiveInv

LEMMA FinishStep ==
  ASSUME InductiveInv, Finish
  PROVE  InductiveInv'
BY FailureSteps, WriteStep, WriteVerifiedStep, CommitStep, RemoveStep, RemoveVerifiedStep DEF Finish

LEMMA NextInductive == InductiveInv /\ [Next]_vars => InductiveInv'
<1> SUFFICES ASSUME InductiveInv, [Next]_vars PROVE InductiveInv'
  OBVIOUS
<1>1. CASE \E v \in Vaults, p \in Passwords : Initialize(v, p)
  BY <1>1, InitializeStep
<1>2. CASE \E p \in Passwords, unread \in SUBSET FaultyReads : Open(p, unread)
  BY <1>2, OpenStep
<1>3. CASE Save
  BY <1>3, SaveStep
<1>4. CASE Finish
  BY <1>4, FinishStep
<1>5. CASE Clear
  BY <1>5, ClearStep
<1>6. CASE \E c \in Contents : Edit(c)
  BY <1>6, EditStep
<1>7. CASE Lock \/ Crash
  BY <1>7, EndSteps
<1>8. CASE \E k \in Keys, spoilt \in {None, Garbage} : Damage(k, spoilt)
  BY <1>8, DamageStep
<1>9. CASE UNCHANGED vars
  BY <1>9, StutterStep
<1> QED BY <1>1, <1>2, <1>3, <1>4, <1>5, <1>6, <1>7, <1>8, <1>9 DEF Next

-----------------------------------------------------------------------------
(* The theorems *)

(* The repository's state keeps its type, whatever the storage does. *)
THEOREM TypeCorrect == Spec => []TypeOK
<1>1. InductiveInv => TypeOK
  BY DEF InductiveInv
<1> QED BY <1>1, InitInductive, NextInductive, PTL DEF Spec

(* The strengthening that carries all the invariants below through initialize,
   open, save, clear, crashes and damage. *)
THEOREM Inductive == Spec => []InductiveInv
BY InitInductive, NextInductive, PTL DEF Spec

(* Even generations live in slot A and odd ones in slot B: two slots of one
   vault never tie in the sort of open. *)
THEOREM SlotsDisciplined == Spec => []SlotDiscipline
<1>1. InductiveInv => SlotDiscipline
  BY DEF InductiveInv, SlotsInv, InSlot, SlotDiscipline
<1> QED BY <1>1, Inductive, PTL

(* The two slots of one vault are one generation apart: damage to the newest
   slot costs at most one generation. *)
THEOREM GenerationsNeighbour == Spec => []NeighbouringGenerations
<1>1. InductiveInv => NeighbouringGenerations
  BY DEF InductiveInv
<1> QED BY <1>1, Inductive, PTL

(* Only the medium can spoil what the client last observed: no save, retry,
   recovery or crash of the program overwrites it. *)
THEOREM ObservedStaysIntact == Spec => []ObservedIntact
<1>1. InductiveInv => ObservedIntact
  BY DEF InductiveInv, ObservedInv, Holds, ObservedIntact
<1> QED BY <1>1, Inductive, PTL

(* initialize publishes metadata after the slot and clear removes it first, so
   that metadata on a sound medium always comes with a slot to open. *)
THEOREM MetadataAlwaysHasASlot == Spec => []MetadataHasASlot
<1>1. InductiveInv => MetadataHasASlot
  BY DEF InductiveInv
<1> QED BY <1>1, Inductive, PTL

(* Among the candidates of a state that satisfies the invariant, the one open
   selects is what the client observed or exactly one generation newer. *)
LEMMA SelectionFollowsObserved ==
  ASSUME InductiveInv, observed # None, damaged \cap {"meta", observed.slot} = {}
  PROVE  \E c \in SlotRecords :
           /\ Current(c)
           /\ c.vault = observed.vault
           /\ c = observed \/ c.gen = observed.gen + 1
<1> DEFINE m == store["meta"]
<1> DEFINE cands == Candidates(store, m)
<1>1. /\ observed \in SlotRecords /\ observed.slot \in SlotIds /\ observed.gen \in Nat
      /\ InSlot(observed) /\ m \in MetaRecords /\ m.vault = observed.vault
      /\ store[observed.slot] = observed
  BY MaxGenAssumption DEF InductiveInv, TypeOK, SlotRecords, ObservedInv, MetaOf, Holds
<1>2. observed \in cands
  BY <1>1, CandidateIntro DEF InSlot
<1>3. \A c \in cands : /\ c \in SlotRecords /\ c.slot \in SlotIds /\ store[c.slot] = c
                       /\ c.vault = observed.vault /\ c.gen \in Nat
  <2> SUFFICES ASSUME NEW c \in cands
               PROVE  /\ c \in SlotRecords /\ c.slot \in SlotIds /\ store[c.slot] = c
                      /\ c.vault = observed.vault /\ c.gen \in Nat
    OBVIOUS
  <2>1. c \in SlotRecords /\ c.slot \in SlotIds /\ store[c.slot] = c /\ c.vault = m.vault
    BY CandidateElim
  <2> QED BY <1>1, <2>1, MaxGenAssumption DEF SlotRecords
<1>4. \A c \in cands : c = observed \/ c.gen = observed.gen + 1 \/ observed.gen = c.gen + 1
  <2> SUFFICES ASSUME NEW c \in cands, c # observed
               PROVE  c.gen = observed.gen + 1 \/ observed.gen = c.gen + 1
    OBVIOUS
  <2>1. c.slot # observed.slot
    BY <1>1, <1>3
  <2> QED BY <1>1, <1>3, <2>1 DEF InductiveInv, NeighbouringGenerations, SlotIds
<1>5. CASE \E c \in cands : c.gen = observed.gen + 1
  <2>1. PICK c \in cands : c.gen = observed.gen + 1
    BY <1>5
  <2>2. c.slot # observed.slot
    BY <1>1, <1>3, <2>1
  <2>3. \A d \in cands \ {c} : d = observed
    BY <1>1, <1>3, <2>1, <2>2 DEF SlotIds
  <2>4. Selected(c, cands, store["active"])
    BY <1>1, <2>1, <2>3 DEF Selected, Before
  <2> QED BY <1>1, <1>3, <2>1, <2>4 DEF Current
<1>6. CASE ~ \E c \in cands : c.gen = observed.gen + 1
  <2>1. \A d \in cands \ {observed} : observed.gen > d.gen
    BY <1>1, <1>3, <1>4, <1>6
  <2>2. Selected(observed, cands, store["active"])
    BY <1>2, <2>1 DEF Selected, Before
  <2> QED BY <1>1, <2>2 DEF Current
<1> QED BY <1>5, <1>6

(* At any moment, also in the middle of any operation, an open with working
   reads returns what the client last observed or the one save tried since. *)
THEOREM ObservedAlwaysRecoverable == Spec => []ObservedIsRecoverable
<1>1. InductiveInv => ObservedIsRecoverable
  BY SelectionFollowsObserved DEF ObservedIsRecoverable
<1> QED BY <1>1, Inductive, PTL
=============================================================================
