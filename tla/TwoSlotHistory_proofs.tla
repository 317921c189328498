-------------------------- MODULE TwoSlotHistory_proofs --------------------------
(***************************************************************************)
(* Theorems about the steps of TwoSlotRepository: what a clear leaves       *)
(* behind and, on a medium that keeps its values and whose slots can be     *)
(* read, how what the client observes evolves.                              *)
(***************************************************************************)
EXTENDS TwoSlotRepository_proofs, RepositoryRefinement

(* A running clear has already emptied the keys before its current one. *)
ClearProgress == op # None /\ op.kind = "clear" =>
  /\ op.key \in {"A", "B", "active"} => store["meta"] = None
  /\ op.key \in {"B", "active"} => store["A"] = None
  /\ op.key = "active" => store["B"] = None

LEMMA ClearProgressStep ==
  ASSUME InductiveInv, ClearProgress, [Next]_vars
  PROVE  ClearProgress'
<1> SUFFICES ASSUME op' # None, op'.kind = "clear" PROVE ClearProgress'
  BY DEF ClearProgress
<1>1. CASE Clear
  BY <1>1 DEF Clear, Begin, ClearProgress
<1>2. CASE \E accepted, landed \in BOOLEAN : Remove(accepted, landed)
  <2>1. PICK accepted \in BOOLEAN, landed \in BOOLEAN : Remove(accepted, landed)
    BY <1>2
  <2>2. /\ op # None /\ op.kind = "clear" /\ op \in Clearers /\ op.key \in Keys
    BY <2>1 DEF Remove, InductiveInv, TypeOK, Idle, Creators, Writers, Clearers
  <2>3. op' = [op EXCEPT !.verify = TRUE]
    BY <2>1 DEF Remove, Return
  <2>4. op'.key = op.key
    BY <2>2, <2>3 DEF Clearers
  <2>5. \A k \in Keys : store[k] = None => store'[k] = None
    BY <2>1, <2>2 DEF Remove, InductiveInv, TypeOK
  <2> QED BY <2>2, <2>4, <2>5 DEF ClearProgress, Keys, SlotIds
<1>3. CASE RemoveVerified
  <2>1. /\ op # None /\ op.kind = "clear" /\ op \in Clearers /\ store[op.key] = None
        /\ op' = [op EXCEPT !.key = Following, !.verify = FALSE] /\ store' = store
    BY <1>3 DEF RemoveVerified, Return, InductiveInv, TypeOK, Idle, Creators, Writers
  <2>2. op'.key = Following /\ op.key \in Keys
    BY <2>1 DEF Clearers
  <2>3. \/ op.key = "meta" /\ Following = "A"
        \/ op.key = "A" /\ Following = "B"
        \/ op.key = "B" /\ Following = "active"
        \/ op.key = "active" /\ Following = None
    <3>1. op.key = "meta" => Following = "A"
      BY <2>1 DEF Following
    <3>2. op.key = "A" => Following = "B"
      BY <2>1 DEF Following
    <3>3. op.key = "B" => Following = "active"
      BY <2>1 DEF Following
    <3>4. op.key = "active" => Following = None
      BY <2>1 DEF Following
    <3> QED BY <2>2, <3>1, <3>2, <3>3, <3>4 DEF Keys, SlotIds
  <2>4. Following # None
    BY <1>3, <2>3 DEF RemoveVerified, Return
  <2>5. store'[op.key] = None
    BY <2>1
  <2> QED BY <2>1, <2>2, <2>3, <2>4, <2>5 DEF ClearProgress
<1>4. CASE \E k \in Keys, spoilt \in {None, Garbage} : Damage(k, spoilt)
  <2>1. op' = op /\ \A j \in Keys : store[j] = None => store'[j] = None
    BY <1>4 DEF Damage, InductiveInv, TypeOK
  <2> QED BY <2>1 DEF ClearProgress, Keys, SlotIds
<1>5. CASE \E v \in Vaults, p \in Passwords : Initialize(v, p)
  BY <1>5 DEF Initialize, Created, Return, Begin
<1>6. CASE \E p \in Passwords, unread \in SUBSET FaultyReads : Open(p, unread)
  <2>1. PICK p \in Passwords, unread \in SUBSET FaultyReads : Open(p, unread)
    BY <1>6
  <2>2. \E c : op' = [kind |-> "open", key |-> "active", verify |-> FALSE, cand |-> c]
    BY <2>1 DEF Open, Return, Begin
  <2> QED BY <2>2
<1>7. CASE Save \/ Lock \/ Crash \/ \E c \in Contents : Edit(c)
  BY <1>7 DEF Save, Return, Begin, Lock, Crash, Edit, Idle
<1>8. CASE WriteTooLarge \/ WriteNotVerified \/ RemoveNotVerified \/ Commit
  BY <1>8 DEF WriteTooLarge, WriteNotVerified, RemoveNotVerified, Commit, Return
<1>9. CASE WriteVerified \/ \E accepted \in BOOLEAN, landed \in {"all", "nothing", "part"} : Write(accepted, landed)
  <2>1. /\ op \in Creators \cup Writers /\ op.kind # "clear"
        /\ op' = [op EXCEPT !.key = Following, !.verify = FALSE] \/ op' = [op EXCEPT !.verify = TRUE]
    BY <1>9, EncodedType DEF InductiveInv, WriteVerified, Write, Return
  <2>2. op'.kind = op.kind
    BY <2>1 DEF Creators, Writers
  <2> QED BY <2>1, <2>2
<1>10. CASE UNCHANGED vars
  BY <1>10 DEF vars, ClearProgress
<1> QED BY <1>1, <1>2, <1>3, <1>4, <1>5, <1>6, <1>7, <1>8, <1>9, <1>10 DEF Next, Finish

(* A clear that reports success has left nothing under any key, even if the
   storage accepted removals that it did not carry out. *)
THEOREM ClearLeavesNothing == Spec => ClearedMeansEmpty
<1>1. Init => ClearProgress
  BY DEF Init, ClearProgress
<1>2. InductiveInv /\ ClearProgress /\ [Next]_vars =>
        (op # None /\ op.kind = "clear" /\ op' = None /\ result' = "ok" =>
           \A k \in Keys : store'[k] = None)
  <2> SUFFICES ASSUME InductiveInv, ClearProgress, [Next]_vars,
                      op # None, op.kind = "clear", op' = None, result' = "ok"
               PROVE  \A k \in Keys : store'[k] = None
    OBVIOUS
  <2>1. op \in Clearers /\ op.key \in Keys
    BY DEF InductiveInv, TypeOK, Creators, Writers, Clearers
  <2>2. RemoveVerified
    <3>2. \A k \in Keys, spoilt \in {None, Garbage} : ~Damage(k, spoilt)
      BY DEF Damage
    <3>3. \A accepted, landed \in BOOLEAN : ~Remove(accepted, landed)
      <4> SUFFICES ASSUME NEW accepted \in BOOLEAN, NEW landed \in BOOLEAN, Remove(accepted, landed)
                   PROVE  FALSE
        OBVIOUS
      <4>1. op' = [op EXCEPT !.verify = TRUE]
        BY DEF Remove, Return
      <4>2. op' \in Clearers
        BY <2>1, <4>1 DEF Clearers
      <4> QED BY <4>2, NoneAssumption
    <3> QED BY <3>2, <3>3 DEF Next, Finish, Initialize, Open, Save, WriteTooLarge, Write, WriteNotVerified,
               WriteVerified, Commit, Clear, RemoveNotVerified, Edit, Lock, Crash, Idle, Return, vars
  <2>3. store[op.key] = None /\ store' = store /\ Following = None
    <3>1. CASE Following # None
      <4>1. op' = [op EXCEPT !.key = Following, !.verify = FALSE] /\ Following \in Keys
        BY <2>1, <2>2, <3>1 DEF RemoveVerified, Following, Keys, SlotIds
      <4>2. op' \in Clearers
        BY <2>1, <4>1 DEF Clearers
      <4> QED BY <4>2, NoneAssumption
    <3> QED BY <2>2, <3>1 DEF RemoveVerified
  <2>4. op.key = "active"
    BY <2>1, <2>3, NoneAssumption DEF Following, Keys, SlotIds
  <2> QED BY <2>3, <2>4 DEF ClearProgress, Keys, SlotIds
<1> QED BY <1>1, <1>2, InitInductive, NextInductive, ClearProgressStep, PTL DEF Spec, ClearedMeansEmpty

-----------------------------------------------------------------------------
(* The medium keeps what it stores and the slots can be read; writes may still
   fail in every way, and so may reads of the metadata and the pointer. *)
SoundMedium == Damageable = {} /\ FaultyReads \cap SlotIds = {}

NewestCandidate(c) == \A d \in Candidates(store, store["meta"]) : d.gen <= c.gen

\* An open that is repairing the pointer has selected the newest slot.
HistoryInv == /\ damaged = {}
              /\ op # None /\ op.kind = "open" => NewestCandidate(op.cand)

LEMMA CandidatesEqual ==
  ASSUME NEW a, NEW b, NEW m, \A s \in SlotIds : a[s] = b[s]
  PROVE  Candidates(a, m) = Candidates(b, m)
BY DEF Candidates, Authenticates

(* The slots that open sees are the stored ones when their reads work. *)
LEMMA SeenIsStored ==
  ASSUME SoundMedium, NEW unread \in SUBSET FaultyReads, NEW m
  PROVE  Candidates([k \in Keys |-> IF k \in unread THEN Garbage ELSE store[k]], m)
           = Candidates(store, m)
<1> DEFINE seen == [k \in Keys |-> IF k \in unread THEN Garbage ELSE store[k]]
<1>1. \A s \in SlotIds : seen[s] = store[s]
  BY DEF SoundMedium, Keys
<1> QED BY <1>1, CandidatesEqual

LEMMA SelectedIsNewest ==
  ASSUME NEW c \in SlotRecords, NEW cands \in SUBSET SlotRecords, NEW pointer,
         Selected(c, cands, pointer)
  PROVE  \A d \in cands : d.gen <= c.gen
BY MaxGenAssumption DEF Selected, Before, SlotRecords

(* A newest candidate continues what the client observed. *)
LEMMA NewestFollows ==
  ASSUME InductiveInv, damaged = {}, observed # None,
         NEW c \in SlotRecords, store[c.slot] = c, InSlot(c), c.vault = observed.vault, NewestCandidate(c)
  PROVE  c = observed \/ c.gen = observed.gen + 1
<1>1. /\ observed \in SlotRecords /\ observed.slot \in SlotIds /\ observed.gen \in Nat
      /\ InSlot(observed) /\ store["meta"].vault = observed.vault
      /\ store[observed.slot] = observed
  BY MaxGenAssumption DEF InductiveInv, TypeOK, SlotRecords, ObservedInv, MetaOf, Holds
<1>2. observed \in Candidates(store, store["meta"])
  BY <1>1, CandidateIntro DEF InSlot
<1>3. observed.gen <= c.gen /\ c.slot \in SlotIds /\ c.gen \in Nat
  BY <1>2, MaxGenAssumption DEF NewestCandidate, SlotRecords
<1>4. CASE c.slot = observed.slot
  BY <1>1, <1>4
<1>5. CASE c.slot # observed.slot
  BY <1>1, <1>3, <1>5 DEF InductiveInv, NeighbouringGenerations, SlotIds
<1> QED BY <1>4, <1>5

(* The step in which an open has selected c. *)
LEMMA OpenSelects ==
  ASSUME SoundMedium, InductiveInv, NEW p \in Passwords, NEW unread \in SUBSET FaultyReads,
         Open(p, unread), ~(op' = None /\ UNCHANGED <<session, observed>>)
  PROVE  \E c \in SlotRecords :
           /\ InSlot(c) /\ store[c.slot] = c /\ store["meta"] \in MetaRecords
           /\ store["meta"].vault = c.vault
           /\ NewestCandidate(c)
           /\ UNCHANGED store /\ UNCHANGED damaged
           /\ \/ op' = None /\ session' = c /\ observed' = c
              \/ /\ op' = [kind |-> "open", key |-> "active", verify |-> FALSE, cand |-> c]
                 /\ UNCHANGED <<session, observed>>
<1> DEFINE seen == [k \in Keys |-> IF k \in unread THEN Garbage ELSE store[k]]
<1>1. PICK c \in Candidates(seen, store["meta"]) :
        /\ store["meta"] \in MetaRecords
        /\ Selected(c, Candidates(seen, store["meta"]), seen["active"])
        /\ UNCHANGED <<store, damaged>>
        /\ \/ op' = None /\ session' = c /\ observed' = c
           \/ /\ op' = [kind |-> "open", key |-> "active", verify |-> FALSE, cand |-> c]
              /\ UNCHANGED <<session, observed>>
  BY DEF Open, Return, Begin
<1>2. c \in SlotRecords /\ InSlot(c) /\ store[c.slot] = c /\ store["meta"].vault = c.vault
  BY <1>1, CandidateStored
<1>3. Candidates(seen, store["meta"]) = Candidates(store, store["meta"])
  BY SeenIsStored
<1>4. Candidates(store, store["meta"]) \in SUBSET SlotRecords
  BY CandidateElim
<1>5. NewestCandidate(c)
  <2> HIDE DEF seen
  <2> QED BY <1>1, <1>2, <1>3, <1>4, SelectedIsNewest DEF NewestCandidate
<1> QED BY <1>1, <1>2, <1>5

LEMMA HistoryInit == Init => HistoryInv
BY DEF Init, HistoryInv

LEMMA HistoryStep ==
  ASSUME SoundMedium, InductiveInv, HistoryInv, [Next]_vars
  PROVE  HistoryInv'
<1>1. CASE \E p \in Passwords, unread \in SUBSET FaultyReads : Open(p, unread)
  <2>1. PICK p \in Passwords, unread \in SUBSET FaultyReads : Open(p, unread)
    BY <1>1
  <2>2. CASE op' = None
    BY <2>1, <2>2 DEF Open, HistoryInv
  <2>3. CASE op' # None
    <3>1. PICK c \in SlotRecords :
            /\ NewestCandidate(c) /\ UNCHANGED store /\ UNCHANGED damaged
            /\ op' = [kind |-> "open", key |-> "active", verify |-> FALSE, cand |-> c]
      BY <2>1, <2>3, OpenSelects
    <3> QED BY <3>1 DEF HistoryInv, NewestCandidate
  <2> QED BY <2>2, <2>3
<1>2. CASE \E accepted \in BOOLEAN, landed \in {"all", "nothing", "part"} : Write(accepted, landed)
  <2>1. PICK accepted \in BOOLEAN, landed \in {"all", "nothing", "part"} : Write(accepted, landed)
    BY <1>2
  <2>2. ~Idle /\ op.kind # "clear" /\ damaged' = {}
    BY <2>1 DEF Write, HistoryInv
  <2> SUFFICES ASSUME op' # None, op'.kind = "open"
               PROVE  \A d \in Candidates(store', store'["meta"]) : d.gen <= op'.cand.gen
    BY <2>2 DEF HistoryInv, NewestCandidate
  <2>3. op \in Creators \cup Writers /\ op' = [op EXCEPT !.verify = TRUE]
    BY <2>1, <2>2, EncodedType DEF InductiveInv, Write, Return
  <2>4. op'.kind = op.kind /\ op'.cand = op.cand
    BY <2>3 DEF Creators, Writers
  <2>5. op.key = "active" /\ NewestCandidate(op.cand)
    BY <2>2, <2>4, WriteTarget DEF HistoryInv, Idle
  <2>6. store'["meta"] = store["meta"] /\ \A s \in SlotIds : store'[s] = store[s]
    BY <2>1, <2>5 DEF Write, InductiveInv, TypeOK, Keys, SlotIds
  <2>7. Candidates(store', store'["meta"]) = Candidates(store, store["meta"])
    BY <2>6, CandidatesEqual
  <2> QED BY <2>4, <2>5, <2>7 DEF NewestCandidate
<1>3. CASE WriteVerified
  <2>1. ~Idle /\ op.kind # "clear" /\ UNCHANGED <<store, damaged>>
        /\ op' = [op EXCEPT !.key = Following, !.verify = FALSE]
    BY <1>3 DEF WriteVerified
  <2>2. op \in Creators \cup Writers
    BY <2>1, EncodedType DEF InductiveInv
  <2>3. op'.kind = op.kind /\ op'.cand = op.cand
    BY <2>1, <2>2 DEF Creators, Writers
  <2> QED BY <2>1, <2>3 DEF HistoryInv, NewestCandidate, Idle
<1>4. CASE (\E accepted, landed \in BOOLEAN : Remove(accepted, landed)) \/ RemoveVerified
  <2>1. op # None /\ op.kind = "clear" /\ op \in Clearers /\ damaged' = damaged
    BY <1>4 DEF Remove, RemoveVerified, Idle, InductiveInv, TypeOK, Creators, Writers
  <2>2. op' = None \/ op' = [op EXCEPT !.verify = TRUE] \/ op' = [op EXCEPT !.key = Following, !.verify = FALSE]
    BY <1>4 DEF Remove, RemoveVerified, Return
  <2>3. op' = None \/ op'.kind = "clear"
    BY <2>1, <2>2 DEF Clearers
  <2> QED BY <2>1, <2>3 DEF HistoryInv
<1>5. CASE \E v \in Vaults, p \in Passwords : Initialize(v, p)
  BY <1>5 DEF Initialize, Created, Return, Begin, HistoryInv
<1>6. CASE Save \/ Clear
  BY <1>6 DEF Save, Clear, Return, Begin, HistoryInv
<1>7. CASE Lock \/ Crash \/ (\E c \in Contents : Edit(c)) \/ UNCHANGED vars
  BY <1>7 DEF Lock, Crash, Edit, vars, HistoryInv, NewestCandidate
<1>8. CASE WriteTooLarge \/ WriteNotVerified \/ RemoveNotVerified \/ Commit
  BY <1>8 DEF WriteTooLarge, WriteNotVerified, RemoveNotVerified, Commit, Return, HistoryInv
<1>9. CASE \E k \in Keys, spoilt \in {None, Garbage} : Damage(k, spoilt)
  BY <1>9 DEF Damage, SoundMedium
<1> QED BY <1>1, <1>2, <1>3, <1>4, <1>5, <1>6, <1>7, <1>8, <1>9 DEF Next, Finish

(* What a verified last write hands out. *)
LEMMA CommitHandsOut ==
  ASSUME SoundMedium, InductiveInv, HistoryInv, Commit
  PROVE  /\ session' = op.cand /\ observed' = op.cand /\ store' = store
         /\ op.cand \in SlotRecords /\ InSlot(op.cand) /\ store[op.cand.slot] = op.cand
         /\ store["meta"] \in MetaRecords /\ store["meta"].vault = op.cand.vault
         /\ \/ op.kind = "initialize" /\ observed = None /\ op.cand.gen = 0
               /\ (store["B"] \in SlotRecords => store["B"].vault # op.cand.vault)
            \/ op.kind = "open" /\ NewestCandidate(op.cand)
            \/ /\ op.kind = "save" /\ session # None /\ observed # None
               /\ op.cand.vault = observed.vault /\ op.cand.gen = observed.gen + 1
<1>1. /\ ~Idle /\ op.kind # "clear" /\ Following = None
      /\ session' = op.cand /\ observed' = op.cand /\ store' = store /\ damaged = {}
  BY DEF Commit, HistoryInv
<1>2. /\ op \in Creators \cup Writers /\ op.cand \in SlotRecords /\ op # None
  BY <1>1, EncodedType DEF InductiveInv, Idle
<1>3. op.key = "active"
  <2>1. "meta" # None /\ "active" # None
    BY NoneAssumption DEF Keys
  <2>2. CASE op \in Creators
    BY <1>1, <2>1, <2>2 DEF Creators, Following
  <2>3. CASE op \in Writers
    <3>1. op.kind = "open" => op.key = "active"
      BY <1>1, WriteTarget
    <3> QED BY <1>1, <2>1, <2>3, <3>1 DEF Writers, Following
  <2> QED BY <1>2, <2>2, <2>3
<1>4. CASE op.kind = "initialize"
  BY <1>1, <1>2, <1>3, <1>4 DEF InductiveInv, InitializeInv, Holds, MetaOf
<1>5. CASE op.kind = "open"
  BY <1>1, <1>2, <1>5 DEF InductiveInv, OpenInv, Holds, MetaOf, HistoryInv
<1>6. CASE op.kind = "save"
  <2>1. /\ session # None /\ op.cand = NextSlot(session)
        /\ InSlot(op.cand) /\ store[op.cand.slot] = op.cand
    BY <1>1, <1>2, <1>3, <1>6 DEF InductiveInv, SaveInv, Holds
  <2>2. /\ observed # None /\ session.vault = observed.vault /\ session.gen = observed.gen
    BY <2>1 DEF InductiveInv, SessionInv
  <2>3. op.cand.vault = observed.vault /\ op.cand.gen = observed.gen + 1
    BY <2>1, <2>2 DEF NextSlot, InductiveInv, TypeOK, Sessions, SlotRecords
  <2>4. store["meta"] \in MetaRecords /\ store["meta"].vault = observed.vault
    BY <1>1, <2>2 DEF InductiveInv, ObservedInv, MetaOf
  <2> QED BY <1>1, <1>2, <1>6, <2>1, <2>2, <2>3, <2>4
<1> QED BY <1>1, <1>2, <1>4, <1>5, <1>6, WriteTarget

(* The steps in which a client comes to observe something. *)
LEMMA ObservationSteps ==
  ASSUME [Next]_vars, observed' # None, observed' # observed \/ (session = None /\ session' # None)
  PROVE  Commit \/ \E p \in Passwords, unread \in SUBSET FaultyReads : Open(p, unread)
BY DEF Next, Finish, Initialize, Save, WriteTooLarge, Write, WriteNotVerified, WriteVerified, Clear,
       Remove, RemoveNotVerified, RemoveVerified, Edit, Lock, Crash, Damage, vars

(* What the client observes advances by one generation of one vault or is
   destroyed; it never goes back and never changes content within a
   generation, through every failed, torn, lost or interrupted write. *)
THEOREM HistoryAdvances == SoundMedium => (Spec => ObservedAdvances)
<1> SUFFICES ASSUME SoundMedium PROVE Spec => ObservedAdvances
  OBVIOUS
<1>1. InductiveInv /\ HistoryInv /\ [Next]_vars =>
        (observed # None /\ observed' # None /\ observed' # observed =>
           observed'.vault = observed.vault /\ observed'.gen = observed.gen + 1)
  <2> SUFFICES ASSUME InductiveInv, HistoryInv, [Next]_vars,
                      observed # None, observed' # None, observed' # observed
               PROVE  observed'.vault = observed.vault /\ observed'.gen = observed.gen + 1
    OBVIOUS
  <2>1. store["meta"] \in MetaRecords => store["meta"].vault = observed.vault
    BY DEF InductiveInv, ObservedInv, MetaOf, HistoryInv
  <2>2. CASE Commit
    <3>1. CASE op.kind = "open"
      BY <2>1, <2>2, <3>1, CommitHandsOut, NewestFollows DEF HistoryInv
    <3> QED BY <2>2, <3>1, CommitHandsOut
  <2>3. CASE \E p \in Passwords, unread \in SUBSET FaultyReads : Open(p, unread)
    <3>1. PICK p \in Passwords, unread \in SUBSET FaultyReads : Open(p, unread)
      BY <2>3
    <3>2. PICK c \in SlotRecords :
            /\ InSlot(c) /\ store[c.slot] = c /\ store["meta"] \in MetaRecords
            /\ store["meta"].vault = c.vault /\ NewestCandidate(c) /\ observed' = c
      BY <3>1, OpenSelects
    <3> QED BY <2>1, <3>2, NewestFollows DEF HistoryInv
  <2> QED BY <2>2, <2>3, ObservationSteps
<1> QED BY <1>1, InitInductive, NextInductive, HistoryInit, HistoryStep, PTL DEF Spec, ObservedAdvances

(* open hands out the newest authenticated slot whenever the slots can be
   read, whatever the pointer says. *)
THEOREM OpenUnlocksNewest == SoundMedium => (Spec => OpensNewest)
<1> SUFFICES ASSUME SoundMedium PROVE Spec => OpensNewest
  OBVIOUS
<1>1. InductiveInv /\ HistoryInv /\ [Next]_vars =>
        (session = None /\ session' # None =>
           \A c \in Candidates(store', store'["meta"]) : c.gen <= session'.gen)
  <2> SUFFICES ASSUME InductiveInv, HistoryInv, [Next]_vars, session = None, session' # None
               PROVE  \A c \in Candidates(store', store'["meta"]) : c.gen <= session'.gen
    OBVIOUS
  <2>1. observed' # None
    BY NextInductive DEF InductiveInv, SessionInv
  <2>2. CASE Commit
    <3>1. CASE op.kind = "initialize"
      <4>1. /\ op.cand \in SlotRecords /\ store[op.cand.slot] = op.cand /\ op.cand.gen = 0
            /\ InSlot(op.cand) /\ store["meta"].vault = op.cand.vault
            /\ (store["B"] \in SlotRecords => store["B"].vault # op.cand.vault)
            /\ session' = op.cand /\ store' = store
        BY <2>2, <3>1, CommitHandsOut
      <4>2. op.cand.slot = "A"
        BY <4>1, SlotsAlternate DEF InSlot
      <4>3. \A c \in Candidates(store, store["meta"]) : c = op.cand
        BY <4>1, <4>2, CandidateElim DEF SlotIds
      <4> QED BY <4>1, <4>3
    <3>2. CASE op.kind = "open"
      BY <2>2, <3>2, CommitHandsOut DEF NewestCandidate
    <3> QED BY <2>2, <3>1, <3>2, CommitHandsOut
  <2>3. CASE \E p \in Passwords, unread \in SUBSET FaultyReads : Open(p, unread)
    <3>1. PICK p \in Passwords, unread \in SUBSET FaultyReads : Open(p, unread)
      BY <2>3
    <3>2. PICK c \in SlotRecords : NewestCandidate(c) /\ session' = c /\ UNCHANGED store
      BY <3>1, OpenSelects
    <3> QED BY <3>2 DEF NewestCandidate
  <2> QED BY <2>1, <2>2, <2>3, ObservationSteps
<1> QED BY <1>1, InitInductive, NextInductive, HistoryInit, HistoryStep, PTL DEF Spec, OpensNewest

-----------------------------------------------------------------------------
(* Until its metadata is written a creation finds none, and what it creates is
   empty. *)
CreationInv == op # None /\ op.kind = "initialize" =>
  /\ op.cand.content = EmptyContent
  /\ op.key = "meta" /\ ~op.verify => store["meta"] = None

LEMMA CreationStep ==
  ASSUME SoundMedium, InductiveInv, CreationInv, [Next]_vars
  PROVE  CreationInv'
<1> SUFFICES ASSUME op' # None, op'.kind = "initialize" PROVE CreationInv'
  BY DEF CreationInv
<1>1. CASE \E v \in Vaults, p \in Passwords : Initialize(v, p)
  <2>1. PICK v \in Vaults, p \in Passwords : Initialize(v, p)
    BY <1>1
  <2>2. op' = Created(v, p)
    BY <2>1 DEF Initialize, Return, Begin
  <2> QED BY <2>2 DEF Created, CreationInv
<1>2. CASE \E p \in Passwords, unread \in SUBSET FaultyReads : Open(p, unread)
  <2>1. PICK p \in Passwords, unread \in SUBSET FaultyReads : Open(p, unread)
    BY <1>2
  <2>2. \E c : op' = [kind |-> "open", key |-> "active", verify |-> FALSE, cand |-> c]
    BY <2>1 DEF Open, Return, Begin
  <2> QED BY <2>2
<1>3. CASE Save \/ Clear
  BY <1>3 DEF Save, Clear, Return, Begin
<1>4. CASE Lock \/ Crash \/ (\E c \in Contents : Edit(c)) \/ UNCHANGED vars
  BY <1>4 DEF Lock, Crash, Edit, vars, Idle, CreationInv
<1>5. CASE WriteTooLarge \/ WriteNotVerified \/ RemoveNotVerified \/ Commit
  BY <1>5 DEF WriteTooLarge, WriteNotVerified, RemoveNotVerified, Commit, Return
<1>6. CASE (\E accepted, landed \in BOOLEAN : Remove(accepted, landed)) \/ RemoveVerified
  <2>1. op # None /\ op.kind = "clear" /\ op \in Clearers
    BY <1>6 DEF Remove, RemoveVerified, Idle, InductiveInv, TypeOK, Creators, Writers
  <2>2. op' = [op EXCEPT !.verify = TRUE] \/ op' = [op EXCEPT !.key = Following, !.verify = FALSE]
    BY <1>6 DEF Remove, RemoveVerified, Return
  <2> QED BY <2>1, <2>2 DEF Clearers
<1>7. CASE \E accepted \in BOOLEAN, landed \in {"all", "nothing", "part"} : Write(accepted, landed)
  <2>1. ~Idle /\ op.kind # "clear" /\ op' = [op EXCEPT !.verify = TRUE]
    BY <1>7 DEF Write, Return
  <2>2. op \in Creators \cup Writers
    BY <2>1, EncodedType DEF InductiveInv
  <2>3. op'.kind = op.kind /\ op'.cand = op.cand /\ op'.verify
    BY <2>1, <2>2 DEF Creators, Writers
  <2> QED BY <2>1, <2>3 DEF CreationInv, Idle
<1>8. CASE WriteVerified
  <2>1. /\ ~Idle /\ op.kind # "clear" /\ store' = store
        /\ op' = [op EXCEPT !.key = Following, !.verify = FALSE]
    BY <1>8 DEF WriteVerified
  <2>2. op \in Creators \cup Writers
    BY <2>1, EncodedType DEF InductiveInv
  <2>3. op'.kind = op.kind /\ op'.cand = op.cand /\ op'.key = Following
    BY <2>1, <2>2 DEF Creators, Writers
  <2>4. ASSUME Following = "meta"
        PROVE  op.key = "A"
    BY <2>1, <2>2, <2>4, NoneAssumption DEF Following, Creators, Writers, Keys, SlotIds
  <2>5. op.key = "A" => store["meta"] = None
    BY <2>1, <2>3 DEF InductiveInv, InitializeInv, Idle
  <2> QED BY <2>1, <2>3, <2>4, <2>5 DEF CreationInv, Idle
<1>9. CASE \E k \in Keys, spoilt \in {None, Garbage} : Damage(k, spoilt)
  BY <1>9 DEF Damage, SoundMedium
<1> QED BY <1>1, <1>2, <1>3, <1>4, <1>5, <1>6, <1>7, <1>8, <1>9 DEF Next, Finish

-----------------------------------------------------------------------------
(* What open would accept *)
LEMMA OpenableParts == InductiveInv => \A c \in Openable :
  /\ store["meta"] \in MetaRecords /\ c.vault = store["meta"].vault
  /\ c \in SlotRecords /\ c.slot \in SlotIds /\ c.gen \in Nat /\ store[c.slot] = c
  /\ c.content \notin Oversized
<1> SUFFICES ASSUME InductiveInv, NEW c \in Openable
             PROVE  /\ store["meta"] \in MetaRecords /\ c.vault = store["meta"].vault
                    /\ c \in SlotRecords /\ c.slot \in SlotIds /\ c.gen \in Nat /\ store[c.slot] = c
                    /\ c.content \notin Oversized
  OBVIOUS
<1>1. store["meta"] \in MetaRecords /\ c \in Candidates(store, store["meta"])
  BY DEF Openable
<1> QED BY <1>1, CandidateElim, MaxGenAssumption DEF SlotRecords

(* Two slots that open would accept differ in their generation. *)
LEMMA OpenableDiffer ==
  ASSUME InductiveInv, NEW c \in Openable, NEW d \in Openable, c # d
  PROVE  c.gen # d.gen
<1>1. c.slot # d.slot
  BY OpenableParts
<1> QED BY <1>1, OpenableParts DEF InductiveInv, NeighbouringGenerations, SlotIds

(* Hence the pointer decides nothing: the slot selected is the newest. *)
LEMMA CurrentIsNewest == InductiveInv => \A c : c \in Openable =>
  (Current(c) <=> NewestCandidate(c))
<1> SUFFICES ASSUME InductiveInv, NEW c \in Openable
             PROVE  Current(c) <=> NewestCandidate(c)
  OBVIOUS
<1>1. Openable = Candidates(store, store["meta"]) /\ store["meta"] \in MetaRecords
  BY OpenableParts DEF Openable
<1>2. \A d \in Openable : d.gen \in Nat /\ (d # c => d.gen # c.gen)
  BY OpenableParts, OpenableDiffer
<1>3. ASSUME Current(c) PROVE NewestCandidate(c)
  BY <1>1, <1>2, <1>3 DEF Current, Selected, Before, NewestCandidate
<1>4. ASSUME NewestCandidate(c) PROVE Current(c)
  BY <1>1, <1>2, <1>4 DEF Current, Selected, Before, NewestCandidate
<1> QED BY <1>3, <1>4

(* If any slot can be opened, one of them is the newest. *)
LEMMA OpenableHasNewest == InductiveInv => Openable = {} \/ \E c \in Openable : NewestCandidate(c)
<1> SUFFICES ASSUME InductiveInv, NEW a \in Openable
             PROVE  \E c \in Openable : NewestCandidate(c)
  OBVIOUS
<1>1. Openable = Candidates(store, store["meta"])
  BY OpenableParts DEF Openable
<1>2. CASE NewestCandidate(a)
  BY <1>2
<1>3. CASE ~NewestCandidate(a)
  <2>1. PICK b \in Openable : ~(b.gen <= a.gen)
    BY <1>1, <1>3 DEF NewestCandidate
  <2>2. a.slot # b.slot
    BY <2>1, OpenableParts
  <2>3. \A d \in Openable : d = a \/ d = b
    BY <2>2, OpenableParts DEF SlotIds
  <2> QED BY <1>1, <2>1, <2>3, OpenableParts DEF NewestCandidate
<1> QED BY <1>2, <1>3

(* The tentative version is the newest slot, unless the client observed it. *)
LEMMA TentativeIsNewest == InductiveInv =>
  /\ Openable = {} => TentativeVersion = None
  /\ \A x \in Openable : NewestCandidate(x) =>
       TentativeVersion = IF x = observed THEN None ELSE VersionOf(x)
<1> SUFFICES ASSUME InductiveInv, NEW c \in Openable, NewestCandidate(c)
             PROVE  TentativeVersion = IF c = observed THEN None ELSE VersionOf(c)
  BY DEF TentativeVersion
<1>1. Openable = Candidates(store, store["meta"])
  BY OpenableParts DEF Openable
<1>2. Current(c)
  BY CurrentIsNewest
<1>3. ASSUME NEW d \in Openable, Current(d)
      PROVE  d = c
  <2>1. NewestCandidate(d)
    BY <1>3, CurrentIsNewest
  <2>2. d.gen = c.gen
    BY <1>1, <2>1, OpenableParts DEF NewestCandidate
  <2> QED BY <2>2, OpenableDiffer
<1>4. (CHOOSE d \in Openable : Current(d)) = c
  BY <1>2, <1>3
<1> QED BY <1>2, <1>3, <1>4 DEF TentativeVersion

(* On a sound medium what the client observed can be opened. *)
LEMMA ObservedIsOpenable == InductiveInv /\ damaged = {} /\ observed # None =>
  /\ observed \in Openable /\ store["meta"].vault = observed.vault
  /\ observed.slot \in SlotIds /\ observed.gen \in Nat /\ store[observed.slot] = observed
<1> SUFFICES ASSUME InductiveInv, damaged = {}, observed # None
             PROVE  /\ observed \in Openable /\ store["meta"].vault = observed.vault
                    /\ observed.slot \in SlotIds /\ observed.gen \in Nat /\ store[observed.slot] = observed
  OBVIOUS
<1>1. /\ observed \in SlotRecords /\ observed.slot \in SlotIds /\ observed.gen \in Nat
      /\ InSlot(observed) /\ store["meta"] \in MetaRecords /\ store["meta"].vault = observed.vault
      /\ store[observed.slot] = observed
  BY MaxGenAssumption DEF InductiveInv, TypeOK, SlotRecords, ObservedInv, MetaOf, Holds
<1>2. observed \in Candidates(store, store["meta"])
  BY <1>1, CandidateIntro DEF InSlot
<1> QED BY <1>1, <1>2 DEF Openable


(* The same of the state after a step. *)
LEMMA TentativeIsNewestNext == InductiveInv' =>
  /\ Openable' = {} => TentativeVersion' = None
  /\ \A x \in Openable' : NewestCandidate(x)' =>
       TentativeVersion' = IF x = observed' THEN None ELSE VersionOf(x)
<1>1. (InductiveInv =>
        /\ Openable = {} => TentativeVersion = None
        /\ \A x \in Openable : NewestCandidate(x) =>
             TentativeVersion = IF x = observed THEN None ELSE VersionOf(x))'
  BY TentativeIsNewest, PTL
<1> QED BY <1>1

(* A step that leaves the slots, the metadata and what is observed alone is not
   seen in the versions, whatever it does to the pointer. *)
LEMMA VersionsUnchanged ==
  ASSUME InductiveInv, InductiveInv', observed' = observed,
         store'["meta"] = store["meta"], \A s \in SlotIds : store'[s] = store[s]
  PROVE  UNCHANGED <<StableVersion, TentativeVersion>>
<1>1. Candidates(store', store'["meta"]) = Candidates(store, store["meta"])
  BY CandidatesEqual
<1>2. Openable' = Openable
  BY <1>1 DEF Openable
<1>3. \A c : NewestCandidate(c)' <=> NewestCandidate(c)
  BY <1>1 DEF NewestCandidate
<1>4. /\ Openable' = {} => TentativeVersion' = None
      /\ \A x \in Openable' : NewestCandidate(x)' =>
           TentativeVersion' = IF x = observed' THEN None ELSE VersionOf(x)
  BY TentativeIsNewestNext
<1>5. CASE Openable = {}
  BY <1>2, <1>4, <1>5, TentativeIsNewest DEF StableVersion
<1>6. ASSUME NEW c \in Openable, NewestCandidate(c)
      PROVE  TentativeVersion' = TentativeVersion
  <2>1. TentativeVersion = IF c = observed THEN None ELSE VersionOf(c)
    BY <1>6, TentativeIsNewest
  <2>2. TentativeVersion' = IF c = observed' THEN None ELSE VersionOf(c)
    BY <1>2, <1>3, <1>4, <1>6
  <2> QED BY <2>1, <2>2
<1> QED BY <1>5, <1>6, OpenableHasNewest DEF StableVersion

(* Without metadata there is nothing to open and nothing observed. *)
LEMMA NoMetadataNoVersions == InductiveInv /\ damaged = {} /\ store["meta"] \notin MetaRecords =>
  observed = None /\ StableVersion = None /\ TentativeVersion = None
BY TentativeIsNewest, ObservedIsOpenable DEF Openable, StableVersion

LEMMA NoMetadataNoVersionsNext == InductiveInv' /\ damaged' = {} /\ store'["meta"] \notin MetaRecords =>
  observed' = None /\ StableVersion' = None /\ TentativeVersion' = None
<1>1. (InductiveInv /\ damaged = {} /\ store["meta"] \notin MetaRecords =>
        observed = None /\ StableVersion = None /\ TentativeVersion = None)'
  BY NoMetadataNoVersions, PTL
<1> QED BY <1>1

(* Handing out the newest slot is an open, whatever the client observed before. *)
LEMMA HandingOutIsOpen ==
  ASSUME InductiveInv, InductiveInv', damaged = {}, session = None,
         NEW c \in Openable, NewestCandidate(c),
         session' = c, observed' = c, store' = store
  PROVE  Durable!Open
<1>1. /\ c \in SlotRecords /\ c # None /\ VersionOf(c) \in Versions /\ VersionOf(c) # None
  BY OpenableParts, NoneAssumption, VersionAssumption DEF VersionOf, Versions, SlotRecords
<1>2. Durable!Newest = VersionOf(c)
  <2>1. TentativeVersion = IF c = observed THEN None ELSE VersionOf(c)
    BY TentativeIsNewest
  <2>2. c = observed => StableVersion = VersionOf(c)
    BY <1>1 DEF StableVersion
  <2> QED BY <1>1, <2>1, <2>2 DEF Durable!Newest
<1>3. Openable' = Openable /\ NewestCandidate(c)'
  BY DEF Openable, NewestCandidate
<1>4. TentativeVersion' = None
  <2> QED BY <1>3, TentativeIsNewestNext
<1>5. StableVersion' = VersionOf(c)
  BY <1>1 DEF StableVersion
<1>6. OpenVault = None /\ OpenVault' = [vault |-> VersionOf(c).vault, content |-> VersionOf(c).content]
  BY <1>1 DEF OpenVault, VersionOf
<1> QED BY <1>1, <1>2, <1>4, <1>5, <1>6 DEF Durable!Open

LEMMA ObservedIsOpenableNext == InductiveInv' /\ damaged' = {} /\ observed' # None =>
  observed' \in Openable'
<1>1. (InductiveInv /\ damaged = {} /\ observed # None =>
        /\ observed \in Openable /\ store["meta"].vault = observed.vault
        /\ observed.slot \in SlotIds /\ observed.gen \in Nat /\ store[observed.slot] = observed)'
  BY ObservedIsOpenable, PTL
<1> QED BY <1>1

(* The version a save prepares is the successor of the stable one. *)
LEMMA SavePrepares ==
  ASSUME InductiveInv, op # None, op.kind = "save"
  PROVE  /\ session # None /\ observed # None /\ OpenVault # None
         /\ VersionOf(op.cand) = Durable!Successor /\ VersionOf(op.cand) # None
         /\ op.cand \in SlotRecords /\ op.cand.gen = observed.gen + 1
<1>1. /\ session # None /\ session \in SlotRecords /\ op.cand = NextSlot(session)
      /\ op \in Writers /\ op.cand \in SlotRecords
  BY DEF InductiveInv, TypeOK, Sessions, SaveInv, Creators, Writers, Clearers
<1>2. /\ observed # None /\ observed \in SlotRecords /\ session.vault = observed.vault
      /\ session.gen = observed.gen
  BY <1>1 DEF InductiveInv, TypeOK, SessionInv
<1>3. op.cand.vault = session.vault /\ op.cand.gen = observed.gen + 1 /\ op.cand.content = session.content
  BY <1>1, <1>2 DEF NextSlot, SlotRecords
<1>4. OpenVault = [vault |-> session.vault, content |-> session.content] /\ StableVersion.gen = observed.gen
  BY <1>1, <1>2 DEF OpenVault, StableVersion, VersionOf
<1>5. OpenVault # None
  BY <1>1, <1>4, VersionAssumption DEF OpenVaults, SlotRecords
<1>6. VersionOf(op.cand) = Durable!Successor
  BY <1>3, <1>4 DEF Durable!Successor, Durable!Version, VersionOf
<1>7. VersionOf(op.cand) # None
  BY <1>1, VersionAssumption DEF VersionOf, Versions, SlotRecords
<1> QED BY <1>1, <1>2, <1>3, <1>5, <1>6, <1>7

(* A set on the way to the storage: a stutter, the creation of a vault when the
   metadata lands, or an attempt to save. *)
LEMMA WriteRefines ==
  ASSUME InductiveInv, InductiveInv', CreationInv, damaged = {}, damaged' = {},
         NEW accepted \in BOOLEAN, NEW landed \in {"all", "nothing", "part"}, Write(accepted, landed)
  PROVE  [Durable!Next]_Durable!vars
<1>1. /\ ~Idle /\ op # None /\ op.kind # "clear" /\ ~op.verify
      /\ op.key \in SlotIds => op.cand.content \notin Oversized
      /\ UNCHANGED <<session, observed>>
      /\ store' = [store EXCEPT ![op.key] = CASE landed = "all" -> Encoded
                                              [] landed = "nothing" -> @
                                              [] landed = "part" -> Garbage]
  BY DEF Write, Idle
<1>2. /\ op \in Creators \cup Writers /\ op.cand \in SlotRecords /\ op.key \in Keys
      /\ store \in [Keys -> SlotRecords \cup MetaRecords \cup PointerRecords \cup {None, Garbage}]
  BY <1>1, EncodedType DEF InductiveInv, TypeOK
<1>3. /\ \A k \in Keys : k # op.key => store'[k] = store[k]
      /\ \/ store'[op.key] = Encoded
         \/ store'[op.key] = store[op.key]
         \/ store'[op.key] = Garbage
      /\ landed = "nothing" => store' = store
  BY <1>1, <1>2
<1>4. OpenVault' = OpenVault
  BY <1>1 DEF OpenVault
<1>5. "meta" \in Keys /\ "active" \in Keys /\ SlotIds \subseteq Keys /\ "meta" \notin SlotIds
      /\ "active" \notin SlotIds
  BY DEF Keys, SlotIds
<1>6. CASE op.key = "active"
  <2>1. UNCHANGED <<StableVersion, TentativeVersion>>
    BY <1>1, <1>3, <1>5, <1>6, VersionsUnchanged
  <2> QED BY <1>4, <2>1 DEF Durable!vars
<1>7. CASE op.key = "meta"
  <2>1. /\ op.kind = "initialize" /\ observed = None /\ session = None /\ store["meta"] = None
        /\ op.cand.content = EmptyContent /\ op \in Creators
    BY <1>1, <1>2, <1>7, WriteTarget DEF CreationInv, InductiveInv, InitializeInv, Writers
  <2>2. /\ StableVersion = None /\ StableVersion' = None /\ TentativeVersion = None
        /\ OpenVault = None
    BY <1>1, <2>1, NoneAssumption, NoMetadataNoVersions DEF StableVersion, OpenVault
  <2>3. CASE store'["meta"] \in MetaRecords
    <3>1. PICK c \in SlotRecords :
            /\ c = op.cand /\ c.slot = "A" /\ InSlot(c) /\ store["A"] = c /\ c.gen = 0
            /\ c.content = EmptyContent
            /\ store["B"] \in SlotRecords => store["B"].vault # c.vault
      BY <1>1, <1>2, <1>7, <2>1 DEF InductiveInv, InitializeInv, Holds
    <3>2. store'["meta"].vault = c.vault
      <4>1. Encoded = [vault |-> c.vault, password |-> op.password]
        BY <1>7, <3>1 DEF Encoded
      <4>2. store'["meta"] = Encoded
        BY <1>3, <1>7, <2>1, <2>3, NoneAssumption
      <4> QED BY <4>1, <4>2
    <3>3. store'["A"] = c /\ store'["B"] = store["B"]
      BY <1>3, <1>5, <1>7, <3>1 DEF SlotIds
    <3>4. c \in Openable'
      <4>1. c \in Candidates(store', store'["meta"])
        BY <3>1, <3>2, <3>3, CandidateIntro DEF InSlot
      <4> QED BY <2>3, <4>1 DEF Openable
    <3>5. \A d \in Candidates(store', store'["meta"]) : d = c
      BY <3>1, <3>2, <3>3, CandidateElim DEF SlotIds
    <3>6. NewestCandidate(c)'
      BY <3>1, <3>5 DEF NewestCandidate
    <3>7. TentativeVersion' = VersionOf(c)
      BY <1>1, <2>1, <3>1, <3>4, <3>6, NoneAssumption, TentativeIsNewestNext
    <3>8. c.vault \in Vaults /\ VersionOf(c) = Durable!Version(c.vault, 0, EmptyContent)
      BY <3>1 DEF SlotRecords, VersionOf, Durable!Version
    <3>9. Durable!Create(c.vault)
      BY <1>4, <2>2, <3>7, <3>8 DEF Durable!Create
    <3> QED BY <3>8, <3>9 DEF Durable!Next
  <2>4. CASE store'["meta"] \notin MetaRecords
    <3>1. TentativeVersion' = None
      BY <2>4, NoMetadataNoVersionsNext
    <3> QED BY <1>4, <2>2, <3>1 DEF Durable!vars
  <2> QED BY <2>3, <2>4
<1>8. CASE op.key \in SlotIds /\ op.kind = "initialize"
  <2>1. op.key = "A"
    BY <1>1, <1>5, <1>8, WriteTarget
  <2>2. store["meta"] = None /\ store'["meta"] = None
    BY <1>1, <1>3, <1>5, <1>8, <2>1 DEF InductiveInv, InitializeInv
  <2> QED BY <1>4, <2>2, NoneAssumption, NoMetadataNoVersions, NoMetadataNoVersionsNext DEF Durable!vars
<1>9. CASE op.key \in SlotIds /\ op.kind = "save"
  <2>1. PICK c \in SlotRecords :
          /\ c = op.cand /\ c.slot = op.key /\ InSlot(c) /\ op.key = Other(observed.slot)
          /\ c.vault = observed.vault /\ c.gen = observed.gen + 1
          /\ OpenVault # None /\ VersionOf(c) = Durable!Successor /\ observed # None
    BY <1>1, <1>2, <1>9, WriteTarget, SavePrepares DEF Idle
  <2>2. /\ observed \in Openable /\ store["meta"].vault = observed.vault
        /\ observed.slot \in SlotIds /\ observed.gen \in Nat /\ store[observed.slot] = observed
        /\ store["meta"] \in MetaRecords
    BY <2>1, ObservedIsOpenable, OpenableParts
  <2>3. /\ op.key # observed.slot /\ \A s \in SlotIds : s = op.key \/ s = observed.slot
    BY <1>9, <2>1, <2>2 DEF Other, SlotIds
  <2>4. /\ store'["meta"] = store["meta"] /\ store'[observed.slot] = observed
        /\ observed' = observed /\ observed \in Openable'
    BY <1>1, <1>3, <1>5, <1>9, <2>1, <2>2, <2>3, ObservedIsOpenableNext
  <2>5. Openable' = Candidates(store', store'["meta"])
    BY <2>2, <2>4 DEF Openable
  <2>6. \A d \in Openable' : d = observed \/ d = store'[op.key]
    BY <2>3, <2>4, <2>5, CandidateElim
  <2>7. UNCHANGED <<StableVersion, OpenVault>>
    BY <1>4, <2>4 DEF StableVersion
  <2>8. CASE store'[op.key] = Encoded
    <3>1. store'[c.slot] = c
      BY <1>1, <1>2, <1>9, <2>1, <2>8, EncodedType DEF InductiveInv
    <3>2. c \in Openable'
      BY <2>1, <2>2, <2>4, <2>5, <3>1, CandidateIntro DEF InSlot
    <3>3. NewestCandidate(c)'
      BY <2>1, <2>2, <2>5, <2>6, <3>1 DEF NewestCandidate
    <3>4. TentativeVersion' = VersionOf(c)
      BY <2>1, <2>2, <2>4, <3>2, <3>3, TentativeIsNewestNext
    <3> QED BY <2>1, <2>7, <3>4 DEF Durable!Attempt, Durable!Next
  <2>9. CASE store'[op.key] = store[op.key]
    <3>1. \A s \in SlotIds : store'[s] = store[s]
      BY <2>2, <2>3, <2>4, <2>9
    <3>2. UNCHANGED <<StableVersion, TentativeVersion>>
      BY <2>4, <3>1, VersionsUnchanged
    <3> QED BY <1>4, <3>2 DEF Durable!vars
  <2>10. CASE store'[op.key] = Garbage
    <3>1. \A d \in Openable' : d = observed
      BY <2>5, <2>6, <2>10, CandidateElim, NoneAssumption
    <3>2. PICK o : o = observed
      OBVIOUS
    <3>3. NewestCandidate(o)'
      BY <2>2, <2>5, <3>1, <3>2 DEF NewestCandidate
    <3>4. TentativeVersion' = None
      BY <2>4, <3>2, <3>3, TentativeIsNewestNext
    <3> QED BY <2>1, <2>7, <3>4 DEF Durable!Attempt, Durable!Next
  <2> QED BY <1>3, <2>8, <2>9, <2>10
<1> QED BY <1>1, <1>2, <1>5, <1>6, <1>7, <1>8, <1>9, WriteTarget DEF Keys

(* A verified last write: the vault is handed out, or the save acknowledged. *)
LEMMA CommitRefines ==
  ASSUME SoundMedium, InductiveInv, InductiveInv', HistoryInv, Commit
  PROVE  Durable!Next
<1>1. PICK c \in SlotRecords :
        /\ c = op.cand /\ session' = c /\ observed' = c /\ store' = store
        /\ InSlot(c) /\ store[c.slot] = c
        /\ store["meta"] \in MetaRecords /\ store["meta"].vault = c.vault
        /\ \/ op.kind = "initialize" /\ observed = None /\ c.gen = 0
              /\ (store["B"] \in SlotRecords => store["B"].vault # c.vault)
           \/ op.kind = "open" /\ NewestCandidate(c)
           \/ /\ op.kind = "save" /\ session # None /\ observed # None
              /\ c.vault = observed.vault /\ c.gen = observed.gen + 1
  BY CommitHandsOut
<1>2. op # None /\ damaged = {}
  BY DEF Commit, Idle, HistoryInv
<1>3. Openable = Candidates(store, store["meta"]) /\ c \in Openable
  BY <1>1, CandidateIntro DEF Openable, InSlot
<1>4. CASE op.kind = "initialize"
  <2>1. c.slot = "A"
    BY <1>1, <1>4, SlotsAlternate DEF InSlot
  <2>2. \A d \in Openable : d = c
    BY <1>1, <1>3, <1>4, <2>1, CandidateElim DEF SlotIds
  <2>3. NewestCandidate(c)
    BY <1>1, <1>3, <1>4, <2>2 DEF NewestCandidate
  <2>4. session = None
    BY <1>2, <1>4 DEF InductiveInv, InitializeInv
  <2>5. Durable!Open
    BY <1>1, <1>2, <1>3, <2>3, <2>4, HandingOutIsOpen
  <2> QED BY <2>5 DEF Durable!Next
<1>5. CASE op.kind = "open"
  <2>1. session = None
    BY <1>2, <1>5 DEF InductiveInv, OpenInv
  <2>2. Durable!Open
    BY <1>1, <1>2, <1>3, <1>5, <2>1, HandingOutIsOpen
  <2> QED BY <2>2 DEF Durable!Next
<1>6. CASE op.kind = "save"
  <2>1. /\ session # None /\ OpenVault # None /\ VersionOf(c) = Durable!Successor
        /\ VersionOf(c) # None /\ op.cand = NextSlot(session) /\ session \in SlotRecords
    BY <1>1, <1>2, <1>6, SavePrepares DEF InductiveInv, SaveInv, TypeOK, Sessions
  <2>2. \A d \in Openable : d.gen <= c.gen
    <3>1. /\ observed \in Openable /\ observed.slot \in SlotIds /\ observed.gen \in Nat
          /\ store[observed.slot] = observed
      BY <1>1, <1>2, <1>6, ObservedIsOpenable
    <3>2. c.slot # observed.slot /\ c.slot \in SlotIds
      BY <1>1, <1>6, <3>1 DEF SlotRecords
    <3>3. \A d \in Openable : d = observed \/ d = c
      BY <1>1, <3>1, <3>2, OpenableParts DEF SlotIds
    <3> QED BY <1>1, <1>6, <3>1, <3>3
  <2>3. NewestCandidate(c) /\ NewestCandidate(c)' /\ c \in Openable' /\ c # observed /\ c # None
    <3>1. observed.gen \in Nat
      BY <1>1, <1>2, <1>6, ObservedIsOpenable
    <3> QED BY <1>1, <1>3, <1>6, <2>2, <3>1, NoneAssumption DEF NewestCandidate, Openable
  <2>4. TentativeVersion = VersionOf(c) /\ TentativeVersion' = None
    BY <1>1, <1>3, <2>3, TentativeIsNewest, TentativeIsNewestNext
  <2>5. StableVersion' = VersionOf(c)
    BY <1>1, <2>3 DEF StableVersion
  <2>6. OpenVault' = OpenVault
    <3>1. c.vault = session.vault /\ c.content = session.content
      BY <1>1, <2>1 DEF NextSlot, SlotRecords
    <3> QED BY <1>1, <2>1, <2>3, <3>1 DEF OpenVault
  <2>7. Durable!Acknowledge
    BY <2>1, <2>4, <2>5, <2>6 DEF Durable!Acknowledge
  <2> QED BY <2>7 DEF Durable!Next
<1> QED BY <1>1, <1>4, <1>5, <1>6

(* A removal: that of the metadata destroys the vault, the others find nothing
   left to destroy. *)
LEMMA RemoveRefines ==
  ASSUME InductiveInv, InductiveInv', damaged = {}, damaged' = {},
         NEW accepted \in BOOLEAN, NEW landed \in BOOLEAN, Remove(accepted, landed)
  PROVE  [Durable!Next]_Durable!vars
<1>1. /\ op # None /\ op.kind = "clear" /\ op \in Clearers /\ op.key \in Keys
      /\ session = None /\ session' = None
  BY DEF Remove, InductiveInv, ClearInv, TypeOK, Idle, Creators, Writers, Clearers
<1>2. OpenVault = None /\ OpenVault' = None
  BY <1>1 DEF OpenVault
<1>3. CASE ~landed
  <2>1. store' = store /\ observed' = observed
    BY <1>3 DEF Remove
  <2>2. UNCHANGED <<StableVersion, TentativeVersion>>
    BY <2>1, VersionsUnchanged
  <2> QED BY <1>2, <2>2 DEF Durable!vars
<1>4. CASE landed
  <2>1. store' = [store EXCEPT ![op.key] = None]
    BY <1>4 DEF Remove
  <2>2. store'["meta"] = None
    BY <1>1, <2>1 DEF InductiveInv, ClearInv, TypeOK, Keys
  <2>3. StableVersion' = None /\ TentativeVersion' = None
    BY <2>2, NoneAssumption, NoMetadataNoVersionsNext
  <2>4. Durable!Destroy
    BY <1>2, <2>3 DEF Durable!Destroy
  <2> QED BY <2>4 DEF Durable!Next
<1> QED BY <1>3, <1>4

(* Every step of the repository is a step of the abstract vault, or none. *)
LEMMA DurableStep ==
  ASSUME SoundMedium, InductiveInv, InductiveInv', HistoryInv, HistoryInv', CreationInv, [Next]_vars
  PROVE  [Durable!Next]_Durable!vars
<1>1. damaged = {} /\ damaged' = {}
  BY DEF HistoryInv
<1>2. ASSUME UNCHANGED <<store, observed>>
      PROVE  UNCHANGED <<StableVersion, TentativeVersion>>
  BY <1>2, VersionsUnchanged
<1>3. ASSUME UNCHANGED <<store, session, observed>>
      PROVE  [Durable!Next]_Durable!vars
  BY <1>2, <1>3 DEF OpenVault, Durable!vars
<1>4. session # None => OpenVault # None
  BY VersionAssumption DEF InductiveInv, TypeOK, Sessions, SlotRecords, OpenVault, OpenVaults
<1>5. ASSUME UNCHANGED <<store, observed>>, session' = None
      PROVE  [Durable!Next]_Durable!vars
  <2>1. CASE session = None
    BY <1>3, <1>5, <2>1
  <2>2. CASE session # None
    <3>1. Durable!Close
      BY <1>2, <1>4, <1>5, <2>2 DEF OpenVault, Durable!Close
    <3> QED BY <3>1 DEF Durable!Next
  <2> QED BY <2>1, <2>2
<1>6. CASE \E v \in Vaults, p \in Passwords : Initialize(v, p)
  <2>1. PICK v \in Vaults, p \in Passwords : Initialize(v, p)
    BY <1>6
  <2>2. store["meta"] = None => observed = None
    BY <1>1, NoneAssumption, NoMetadataNoVersions
  <2> QED BY <1>3, <2>1, <2>2 DEF Initialize
<1>7. CASE \E p \in Passwords, unread \in SUBSET FaultyReads : Open(p, unread)
  <2>1. PICK p \in Passwords, unread \in SUBSET FaultyReads : Open(p, unread)
    BY <1>7
  <2>2. session = None /\ UNCHANGED store
    BY <2>1 DEF Open
  <2>3. CASE UNCHANGED <<session, observed>>
    BY <1>3, <2>2, <2>3
  <2>4. CASE ~UNCHANGED <<session, observed>>
    <3>1. PICK c \in SlotRecords :
            /\ InSlot(c) /\ store[c.slot] = c /\ store["meta"] \in MetaRecords
            /\ store["meta"].vault = c.vault /\ NewestCandidate(c)
            /\ session' = c /\ observed' = c
      BY <2>1, <2>4, OpenSelects
    <3>2. c \in Openable
      BY <3>1, CandidateIntro DEF Openable, InSlot
    <3>3. Durable!Open
      BY <1>1, <2>2, <3>1, <3>2, HandingOutIsOpen
    <3> QED BY <3>3 DEF Durable!Next
  <2> QED BY <2>3, <2>4
<1>8. CASE Save \/ WriteTooLarge \/ WriteNotVerified \/ WriteVerified \/ RemoveNotVerified \/ RemoveVerified
  BY <1>3, <1>8 DEF Save, WriteTooLarge, WriteNotVerified, WriteVerified, RemoveNotVerified, RemoveVerified
<1>9. CASE Clear \/ Lock \/ Crash
  BY <1>5, <1>9 DEF Clear, Lock, Crash
<1>10. ASSUME NEW c \in Contents, Edit(c)
       PROVE  Durable!Edit(c)
  <2>1. /\ session \in SlotRecords /\ session # None /\ session' = [session EXCEPT !.content = c]
        /\ UNCHANGED <<store, observed>>
    BY <1>10 DEF Edit, InductiveInv, TypeOK, Sessions
  <2>2. session' \in SlotRecords /\ session'.vault = session.vault /\ session'.content = c
    BY <2>1 DEF SlotRecords
  <2>3. session' # None
    BY <2>2, NoneAssumption
  <2>4. /\ OpenVault = [vault |-> session.vault, content |-> session.content]
        /\ OpenVault' = [vault |-> session.vault, content |-> c]
    BY <2>1, <2>2, <2>3 DEF OpenVault
  <2> QED BY <1>2, <1>4, <2>1, <2>4 DEF Durable!Edit
<1>11. CASE \E k \in Keys, spoilt \in {None, Garbage} : Damage(k, spoilt)
  BY <1>11 DEF Damage, SoundMedium
<1>12. CASE Commit
  BY <1>12, CommitRefines
<1>13. CASE \E accepted \in BOOLEAN, landed \in {"all", "nothing", "part"} : Write(accepted, landed)
  BY <1>1, <1>13, WriteRefines
<1>14. CASE \E accepted, landed \in BOOLEAN : Remove(accepted, landed)
  BY <1>1, <1>14, RemoveRefines
<1>15. CASE UNCHANGED vars
  BY <1>3, <1>15 DEF vars
<1>16. CASE \E c \in Contents : Edit(c)
  BY <1>10, <1>16 DEF Durable!Next
<1> QED BY <1>6, <1>7, <1>8, <1>9, <1>11, <1>12, <1>13, <1>14, <1>15, <1>16 DEF Next, Finish

(* On a medium that keeps its values and whose slots can be read, the repository
   is a vault that switches atomically from one version to the next: no failed,
   torn or interrupted write and no crash can be told from a save that happened
   or one that did not. *)
THEOREM RepositoryIsDurable == SoundMedium => (Spec => ImplementsDurableVault)
<1> SUFFICES ASSUME SoundMedium PROVE Spec => ImplementsDurableVault
  OBVIOUS
<1>1. Init => CreationInv
  BY DEF Init, CreationInv
<1>2. Init => Durable!Init
  <2> SUFFICES ASSUME Init PROVE Durable!Init
    OBVIOUS
  <2>1. store["meta"] \notin MetaRecords
    BY NoneAssumption DEF Init, Keys
  <2> QED BY <2>1 DEF Init, Durable!Init, StableVersion, TentativeVersion, OpenVault, Openable
<1>3. InductiveInv /\ InductiveInv' /\ HistoryInv /\ HistoryInv' /\ CreationInv /\ [Next]_vars
      => [Durable!Next]_Durable!vars
  BY DurableStep
<1> QED BY <1>1, <1>2, <1>3, InitInductive, NextInductive, HistoryInit, HistoryStep, CreationStep,
           PTL DEF Spec, ImplementsDurableVault, Durable!Spec

=============================================================================
