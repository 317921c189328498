------------------------- MODULE VaultContainer_proofs -------------------------
(***************************************************************************)
(* Proofs about VaultContainer: every container passes the validation it    *)
(* meets on its way back from storage, and time never runs backwards from   *)
(* one stored container to the next.                                        *)
(***************************************************************************)
EXTENDS ContainerRefinement, FiniteSetTheorems, TLAPS

(* d can have come from c by edits: the relation that TimelineAdvances asks of
   two stored containers. *)
Follows(c, d) ==
  /\ d.createdAt = c.createdAt
  /\ d.updatedAt >= c.updatedAt
  /\ \A i \in DOMAIN c.entries, j \in DOMAIN d.entries :
       c.entries[i].id = d.entries[j].id =>
         /\ d.entries[j].createdAt >= c.entries[i].createdAt
         /\ d.entries[j].updatedAt >= c.entries[i].updatedAt

(* The session works on what is stored or on what came from it: what a lock
   discards and what a save stores are both ahead of the stored container. *)
SessionAhead == container # Absent => stored # Absent /\ Follows(stored, container)

ContainerInv == TypeOK /\ AlwaysAccepted /\ SessionAhead

-----------------------------------------------------------------------------
LEMMA TimesAreNaturals == Times \subseteq Nat
BY BoundsAssumption DEF Times

(* The types of a container's parts, as the arithmetic below needs them. *)
LEMMA ContainerParts ==
  ASSUME NEW c \in Containers
  PROVE  /\ c.createdAt \in Nat /\ c.updatedAt \in Nat /\ c.updatedAt \in Times
         /\ c.entries \in Seq(Entries)
         /\ Len(c.entries) \in Nat /\ DOMAIN c.entries = 1..Len(c.entries)
         /\ \A i \in DOMAIN c.entries : /\ c.entries[i] \in Entries
                                         /\ c.entries[i].createdAt \in Nat
                                         /\ c.entries[i].updatedAt \in Nat
<1>1. c.entries \in Seq(Entries) /\ c.createdAt \in Times /\ c.updatedAt \in Times
  BY DEF Containers
<1>2. \A i \in DOMAIN c.entries : c.entries[i] \in Entries
  BY <1>1
<1>3. \A e \in Entries : e.createdAt \in Nat /\ e.updatedAt \in Nat
  BY TimesAreNaturals DEF Entries
<1>4. Len(c.entries) \in Nat /\ DOMAIN c.entries = 1..Len(c.entries)
  BY <1>1
<1>5. c.createdAt \in Nat /\ c.updatedAt \in Nat
  BY <1>1, TimesAreNaturals
<1>6. \A i \in DOMAIN c.entries : /\ c.entries[i] \in Entries
                                  /\ c.entries[i].createdAt \in Nat
                                  /\ c.entries[i].updatedAt \in Nat
  BY <1>2, <1>3
<1> QED BY <1>1, <1>4, <1>5, <1>6

(* What an edit makes of a container, given its new entries. *)
LEMMA TouchedParts ==
  ASSUME NEW c \in Containers, NEW now \in Times, NEW es \in Seq(Entries)
  PROVE  /\ Touched(c, now, es) \in Containers
         /\ Touched(c, now, es).entries = es
         /\ Touched(c, now, es).createdAt = c.createdAt
         /\ Touched(c, now, es).updatedAt = Later(now, c.updatedAt)
<1>1. Later(now, c.updatedAt) \in Times
  BY BoundsAssumption DEF Later, Times, Containers
<1> QED BY <1>1 DEF Touched, Containers

LEMMA AppendElements ==
  ASSUME NEW S, NEW s \in Seq(S), NEW e \in S
  PROVE  /\ Append(s, e) \in Seq(S) /\ Len(Append(s, e)) = Len(s) + 1
         /\ DOMAIN Append(s, e) = 1..(Len(s) + 1)
         /\ \A i \in 1..Len(s) : Append(s, e)[i] = s[i]
         /\ Append(s, e)[Len(s) + 1] = e
OBVIOUS

(* Removing one position of a sequence keeps the others in their order. *)
LEMMA RemoveAtElements ==
  ASSUME NEW S, NEW s \in Seq(S), NEW at \in DOMAIN s
  PROVE  /\ RemoveAt(s, at) \in Seq(S)
         /\ Len(RemoveAt(s, at)) = Len(s) - 1
         /\ \A i \in DOMAIN RemoveAt(s, at) :
              /\ i < at => RemoveAt(s, at)[i] = s[i]
              /\ i >= at => RemoveAt(s, at)[i] = s[i + 1]
<1>1. at \in 1..Len(s) /\ Len(s) \in Nat
  OBVIOUS
<1>2. SubSeq(s, 1, at - 1) \in Seq(S) /\ Len(SubSeq(s, 1, at - 1)) = at - 1
  BY <1>1
<1>3. SubSeq(s, at + 1, Len(s)) \in Seq(S) /\ Len(SubSeq(s, at + 1, Len(s))) = Len(s) - at
  BY <1>1
<1> DEFINE l == SubSeq(s, 1, at - 1)
           r == SubSeq(s, at + 1, Len(s))
<1>4. \A i \in 1..(at - 1) : l[i] = s[i]
  BY <1>1, <1>2
<1>5. \A i \in 1..(Len(s) - at) : r[i] = s[i + at]
  BY <1>1, <1>3
<1>6. RemoveAt(s, at) = l \o r
  BY DEF RemoveAt
<1> HIDE DEF l, r
<1>7. /\ l \o r \in Seq(S) /\ Len(l \o r) = Len(s) - 1
      /\ DOMAIN (l \o r) = 1..(Len(s) - 1)
      /\ \A i \in 1..(Len(s) - 1) : /\ i <= at - 1 => (l \o r)[i] = l[i]
                                    /\ i > at - 1 => (l \o r)[i] = r[i - (at - 1)]
  <2>1. l \in Seq(S) /\ r \in Seq(S) /\ Len(l) = at - 1 /\ Len(r) = Len(s) - at
    BY <1>2, <1>3 DEF l, r
  <2>2. at - 1 \in Nat /\ Len(s) - at \in Nat /\ (at - 1) + (Len(s) - at) = Len(s) - 1
    BY <1>1
  <2>3. /\ l \o r \in Seq(S) /\ Len(l \o r) = (at - 1) + (Len(s) - at)
        /\ DOMAIN (l \o r) = 1..((at - 1) + (Len(s) - at))
        /\ \A i \in 1..((at - 1) + (Len(s) - at)) :
             /\ i <= at - 1 => (l \o r)[i] = l[i]
             /\ i > at - 1 => (l \o r)[i] = r[i - (at - 1)]
    <3> DEFINE m == at - 1
               n == Len(s) - at
    <3>1. m \in Nat /\ n \in Nat /\ Len(l) = m /\ Len(r) = n
      BY <2>1, <2>2
    <3> HIDE DEF m, n
    <3>2. /\ l \o r \in Seq(S) /\ Len(l \o r) = m + n
          /\ DOMAIN (l \o r) = 1..(m + n)
          /\ \A i \in 1..(m + n) : /\ i <= m => (l \o r)[i] = l[i]
                                   /\ i > m => (l \o r)[i] = r[i - m]
      BY <2>1, <3>1
    <3> QED BY <3>2 DEF m, n
  <2> QED BY <2>2, <2>3
<1>8. ASSUME NEW i \in 1..(Len(s) - 1)
      PROVE  /\ i < at => (l \o r)[i] = s[i]
             /\ i >= at => (l \o r)[i] = s[i + 1]
  <2>1. CASE i < at
    BY <1>1, <1>4, <1>7, <2>1
  <2>2. CASE i >= at
    <3>1. i - (at - 1) \in 1..(Len(s) - at) /\ (i - (at - 1)) + at = i + 1
      BY <1>1, <2>2
    <3>2. (l \o r)[i] = r[i - (at - 1)]
      <4>1. i > at - 1
        BY <1>1, <2>2
      <4> QED BY <1>7, <4>1
    <3>3. r[i - (at - 1)] = s[(i - (at - 1)) + at]
      BY <1>5, <3>1
    <3>4. ~(i < at)
      BY <1>1, <2>2
    <3> QED BY <3>1, <3>2, <3>3, <3>4
  <2> QED BY <1>1, <2>1, <2>2
<1> QED BY <1>6, <1>7, <1>8

(* Under distinct ids the position that find returns holds the id looked for. *)
LEMMA PositionFound ==
  ASSUME NEW c \in Containers, Accepted(c), NEW id \in IdsOf(c)
  PROVE  /\ PositionOf(c, id) \in DOMAIN c.entries
         /\ c.entries[PositionOf(c, id)].id = id
<1>1. PICK i \in DOMAIN c.entries : c.entries[i].id = id
  BY DEF IdsOf
<1>2. \A j \in DOMAIN c.entries : c.entries[j].id = id => i <= j
  BY <1>1 DEF Accepted, Containers
<1> QED BY <1>1, <1>2 DEF PositionOf

LEMMA LaterIsLater ==
  ASSUME NEW t \in Times, NEW u \in Times
  PROVE  Later(t, u) \in Times /\ Later(t, u) >= t /\ Later(t, u) >= u
BY BoundsAssumption DEF Later, Times

(* Every container follows itself. *)
LEMMA FollowsItself ==
  ASSUME NEW c \in Containers, Accepted(c)
  PROVE  Follows(c, c)
<1>1. \A i, j \in DOMAIN c.entries : c.entries[i].id = c.entries[j].id => i = j
  BY DEF Accepted
<1> QED BY <1>1, ContainerParts DEF Follows

-----------------------------------------------------------------------------
(* The three edits: from an accepted container that is ahead of the stored one
   to another such container. *)
LEMMA AddPreserves ==
  ASSUME ContainerInv, container # Absent,
         NEW id \in Ids \ IdsOf(container), NEW f \in ValidFields, NEW now \in Times,
         Len(container.entries) < MaxEntries,
         NEW t, t = Later(now, container.updatedAt),
         NEW d, d = Touched(container, now, Append(container.entries,
                      [id |-> id, fields |-> f, createdAt |-> t, updatedAt |-> t]))
  PROVE  d \in Containers /\ Accepted(d) /\ Follows(stored, d)
<1> DEFINE e == [id |-> id, fields |-> f, createdAt |-> t, updatedAt |-> t]
<1>1. container \in Containers /\ stored \in Containers /\ Accepted(container) /\ Accepted(stored)
      /\ Follows(stored, container)
  BY DEF ContainerInv, TypeOK, AlwaysAccepted, SessionAhead
<1>2. t \in Times /\ t \in Nat /\ t >= container.updatedAt
  <2>1. container.updatedAt \in Times
    BY <1>1, ContainerParts
  <2>2. t \in Times /\ t >= container.updatedAt
    BY <2>1, LaterIsLater
  <2> QED BY <2>2, TimesAreNaturals
<1>3. e \in Entries
  BY <1>2, FieldsAssumption DEF Entries
<1>4. d.entries = Append(container.entries, e) /\ d.createdAt = container.createdAt
      /\ d.updatedAt = t /\ d \in Containers
  <2>1. Append(container.entries, e) \in Seq(Entries)
    BY <1>1, <1>3, ContainerParts, AppendElements
  <2>2. d = Touched(container, now, Append(container.entries, e))
    OBVIOUS
  <2> HIDE DEF e
  <2>3. /\ d \in Containers /\ d.entries = Append(container.entries, e)
        /\ d.createdAt = container.createdAt /\ d.updatedAt = Later(now, container.updatedAt)
    <3> DEFINE es == Append(container.entries, e)
    <3>1. es \in Seq(Entries) /\ d = Touched(container, now, es)
      BY <2>1, <2>2
    <3> HIDE DEF es
    <3>2. /\ d \in Containers /\ d.entries = es
          /\ d.createdAt = container.createdAt /\ d.updatedAt = Later(now, container.updatedAt)
      BY ONLY <1>1, <3>1, now \in Times, TouchedParts
    <3> QED BY <3>2 DEF es
  <2> QED BY <2>3, Zenon
<1>5. /\ DOMAIN d.entries = 1..(Len(container.entries) + 1)
      /\ DOMAIN container.entries = 1..Len(container.entries)
      /\ Len(container.entries) \in Nat /\ Len(d.entries) = Len(container.entries) + 1
      /\ \A i \in DOMAIN container.entries : d.entries[i] = container.entries[i]
      /\ d.entries[Len(container.entries) + 1] = e
  <2>1. container.entries \in Seq(Entries) /\ Len(container.entries) \in Nat
        /\ DOMAIN container.entries = 1..Len(container.entries)
    BY <1>1, ContainerParts
  <2> HIDE DEF e
  <2> QED BY <1>3, <1>4, <2>1, AppendElements
<1>6. \A i \in DOMAIN d.entries : i \in DOMAIN container.entries \/ d.entries[i] = e
  BY <1>5
<1>7. container.createdAt \in Nat /\ container.updatedAt \in Nat
      /\ container.createdAt <= container.updatedAt
  BY <1>1, ContainerParts DEF Accepted
<1>8. Accepted(d)
  <2>1. d.createdAt <= d.updatedAt /\ Len(d.entries) <= MaxEntries
    BY <1>2, <1>4, <1>5, <1>7, BoundsAssumption
  <2>2. \A i \in DOMAIN d.entries : EntryAccepted(d, d.entries[i])
    <3>1. EntryAccepted(d, e)
      BY <1>2, <1>4, <1>7 DEF EntryAccepted
    <3>2. \A i \in DOMAIN container.entries : EntryAccepted(d, container.entries[i])
      BY <1>1, <1>2, <1>4, <1>7, ContainerParts DEF Accepted, EntryAccepted
    <3> QED BY <1>5, <1>6, <3>1, <3>2
  <2>3. \A i \in DOMAIN container.entries : container.entries[i].id # id
    BY DEF IdsOf
  <2>4. \A i, j \in DOMAIN d.entries : d.entries[i].id = d.entries[j].id => i = j
    <3>1. \A i, j \in DOMAIN container.entries :
            container.entries[i].id = container.entries[j].id => i = j
      BY <1>1 DEF Accepted
    <3>2. e.id = id
      OBVIOUS
    <3> HIDE DEF e
    <3>3. ASSUME NEW i \in DOMAIN d.entries, NEW j \in DOMAIN d.entries,
                 d.entries[i].id = d.entries[j].id
          PROVE  i = j
      <4>1. CASE i \in DOMAIN container.entries /\ j \in DOMAIN container.entries
        BY <1>5, <3>1, <3>3, <4>1
      <4>2. \A k \in DOMAIN d.entries :
              k \notin DOMAIN container.entries => k = Len(container.entries) + 1
        BY <1>5
      <4>3. \A k \in DOMAIN container.entries : d.entries[k].id # id
        BY <1>5, <2>3
      <4>4. d.entries[Len(container.entries) + 1].id = id
        BY <1>5, <3>2
      <4> QED BY <3>3, <4>1, <4>2, <4>3, <4>4
    <3> QED BY <3>3
  <2> QED BY <2>1, <2>2, <2>4 DEF Accepted
<1>9. Follows(stored, d)
  <2>1. \A i \in DOMAIN stored.entries :
          stored.entries[i].createdAt <= t /\ stored.entries[i].updatedAt <= t
    <3>1. stored.updatedAt <= t /\ stored.updatedAt \in Nat
      BY <1>1, <1>2, <1>7, ContainerParts DEF Follows
    <3> QED BY <1>1, <1>2, <3>1, ContainerParts DEF Accepted, EntryAccepted
  <2>2. d.createdAt = stored.createdAt /\ d.updatedAt >= stored.updatedAt
    BY <1>1, <1>2, <1>4, <1>7, ContainerParts DEF Follows
  <2>3. ASSUME NEW i \in DOMAIN stored.entries, NEW j \in DOMAIN d.entries,
               stored.entries[i].id = d.entries[j].id
        PROVE  /\ d.entries[j].createdAt >= stored.entries[i].createdAt
               /\ d.entries[j].updatedAt >= stored.entries[i].updatedAt
    <3>1. CASE j \in DOMAIN container.entries
      BY <1>1, <1>5, <2>3, <3>1 DEF Follows
    <3>2. CASE d.entries[j] = e
      BY <1>1, <1>2, <2>1, <3>2, ContainerParts
    <3> QED BY <1>6, <3>1, <3>2
  <2> QED BY <2>2, <2>3 DEF Follows
<1> QED BY <1>4, <1>8, <1>9

LEMMA UpdatePreserves ==
  ASSUME ContainerInv, container # Absent,
         NEW id \in IdsOf(container), NEW f \in ValidFields, NEW now \in Times,
         NEW at, at = PositionOf(container, id),
         NEW new, new = [container.entries[at] EXCEPT !.fields = f,
                           !.updatedAt = Later(Later(now, container.updatedAt), container.entries[at].createdAt)],
         NEW d, d = Touched(container, now, ReplaceAt(container.entries, at, new))
  PROVE  d \in Containers /\ Accepted(d) /\ Follows(stored, d)
<1> DEFINE t == Later(now, container.updatedAt)
           old == container.entries[at]
<1>1. container \in Containers /\ stored \in Containers /\ Accepted(container) /\ Accepted(stored)
      /\ Follows(stored, container)
  BY DEF ContainerInv, TypeOK, AlwaysAccepted, SessionAhead
<1>2. t \in Times /\ t \in Nat /\ t >= container.updatedAt
  <2>1. container.updatedAt \in Times
    BY <1>1, ContainerParts
  <2>2. t \in Times /\ t >= container.updatedAt
    BY <2>1, LaterIsLater
  <2> QED BY <2>2, TimesAreNaturals
<1>3. at \in DOMAIN container.entries
  BY <1>1, PositionFound
<1>4. /\ container.createdAt \in Nat /\ container.updatedAt \in Nat
      /\ \A i \in DOMAIN container.entries : /\ container.entries[i] \in Entries
                                             /\ container.entries[i].createdAt \in Nat
                                             /\ container.entries[i].updatedAt \in Nat
  BY <1>1, ContainerParts
<1>5. old \in Entries /\ old.createdAt <= old.updatedAt /\ old.updatedAt <= container.updatedAt
      /\ container.createdAt <= old.createdAt
  BY <1>1, <1>3, <1>4 DEF Accepted, EntryAccepted
<1>6. Later(t, old.createdAt) = t
  BY <1>2, <1>3, <1>4, <1>5 DEF Later
<1>7. new \in Entries /\ new.id = old.id /\ new.fields = f /\ new.createdAt = old.createdAt
      /\ new.updatedAt = t
  BY <1>2, <1>5, <1>6, FieldsAssumption DEF Entries
<1>8. d.entries = [container.entries EXCEPT ![at] = new] /\ d.createdAt = container.createdAt
      /\ d.updatedAt = t /\ d \in Containers
  <2>1. ReplaceAt(container.entries, at, new) = [container.entries EXCEPT ![at] = new]
    BY DEF ReplaceAt
  <2>2. [container.entries EXCEPT ![at] = new] \in Seq(Entries)
    BY <1>1, <1>3, <1>7, ContainerParts
  <2> QED BY <1>1, <2>1, <2>2, TouchedParts
<1>9. /\ DOMAIN d.entries = DOMAIN container.entries /\ Len(d.entries) = Len(container.entries)
      /\ d.entries[at] = new
      /\ \A i \in DOMAIN container.entries : i # at => d.entries[i] = container.entries[i]
  BY <1>1, <1>3, <1>8, ContainerParts
<1>10. Accepted(d)
  <2>1. d.createdAt <= d.updatedAt /\ Len(d.entries) <= MaxEntries
    BY <1>1, <1>2, <1>4, <1>8, <1>9 DEF Accepted
  <2>2. \A i \in DOMAIN d.entries : EntryAccepted(d, d.entries[i])
    <3>1. EntryAccepted(d, new)
      BY <1>2, <1>3, <1>4, <1>5, <1>7, <1>8 DEF EntryAccepted
    <3>2. \A i \in DOMAIN container.entries : EntryAccepted(d, container.entries[i])
      BY <1>1, <1>2, <1>4, <1>8 DEF Accepted, EntryAccepted
    <3> QED BY <1>9, <3>1, <3>2
  <2>3. \A i \in DOMAIN d.entries : d.entries[i].id = container.entries[i].id
    <3> TAKE i \in DOMAIN d.entries
    <3>1. CASE i = at
      BY <1>7, <1>9, <3>1
    <3>2. CASE i # at
      BY <1>9, <3>2
    <3> QED BY <3>1, <3>2
  <2>4. \A i, j \in DOMAIN d.entries : d.entries[i].id = d.entries[j].id => i = j
    BY <1>1, <1>9, <2>3 DEF Accepted
  <2> QED BY <2>1, <2>2, <2>4 DEF Accepted
<1>11. Follows(stored, d)
  <2>1. \A i \in DOMAIN d.entries : /\ d.entries[i].id = container.entries[i].id
                                    /\ d.entries[i].createdAt = container.entries[i].createdAt
                                    /\ d.entries[i].updatedAt >= container.entries[i].updatedAt
                                    /\ d.entries[i].updatedAt \in Nat
    <3> TAKE i \in DOMAIN d.entries
    <3>1. CASE i = at
      <4>1. d.entries[i] = new /\ container.entries[i] = old
        BY <1>9, <3>1
      <4>2. old.updatedAt \in Nat
        BY <1>3, <1>4
      <4>3. /\ new.id = old.id /\ new.createdAt = old.createdAt /\ new.updatedAt = t
            /\ old.updatedAt <= container.updatedAt
        BY <1>5, <1>7
      <4> HIDE DEF old, t
      <4>4. t >= old.updatedAt
        BY <1>2, <1>4, <4>2, <4>3
      <4> QED BY <1>2, <4>1, <4>3, <4>4
    <3>2. CASE i # at
      <4>1. d.entries[i] = container.entries[i] /\ i \in DOMAIN container.entries
        BY <1>9, <3>2
      <4> QED BY <1>4, <4>1
    <3> QED BY <3>1, <3>2
  <2>2. d.createdAt = stored.createdAt /\ d.updatedAt >= stored.updatedAt
    BY <1>1, <1>2, <1>4, <1>8, ContainerParts DEF Follows
  <2>3. ASSUME NEW i \in DOMAIN stored.entries, NEW j \in DOMAIN d.entries,
               stored.entries[i].id = d.entries[j].id
        PROVE  /\ d.entries[j].createdAt >= stored.entries[i].createdAt
               /\ d.entries[j].updatedAt >= stored.entries[i].updatedAt
    <3>1. j \in DOMAIN container.entries /\ stored.entries[i].id = container.entries[j].id
      BY <1>9, <2>1, <2>3
    <3>2. /\ container.entries[j].createdAt >= stored.entries[i].createdAt
          /\ container.entries[j].updatedAt >= stored.entries[i].updatedAt
      BY <1>1, <3>1 DEF Follows
    <3>3. stored.entries[i].createdAt \in Nat /\ stored.entries[i].updatedAt \in Nat
      BY <1>1, ContainerParts
    <3> QED BY <1>4, <2>1, <3>1, <3>2, <3>3
  <2> QED BY <2>2, <2>3 DEF Follows
<1> QED BY <1>8, <1>10, <1>11

LEMMA DeletePreserves ==
  ASSUME ContainerInv, container # Absent,
         NEW id \in IdsOf(container), NEW now \in Times,
         NEW d, d = Touched(container, now, RemoveAt(container.entries, PositionOf(container, id)))
  PROVE  d \in Containers /\ Accepted(d) /\ Follows(stored, d)
<1> DEFINE t == Later(now, container.updatedAt)
           at == PositionOf(container, id)
           from(i) == IF i < at THEN i ELSE i + 1
<1>1. container \in Containers /\ stored \in Containers /\ Accepted(container) /\ Accepted(stored)
      /\ Follows(stored, container)
  BY DEF ContainerInv, TypeOK, AlwaysAccepted, SessionAhead
<1>2. t \in Times /\ t \in Nat /\ t >= container.updatedAt
  <2>1. container.updatedAt \in Times
    BY <1>1, ContainerParts
  <2>2. t \in Times /\ t >= container.updatedAt
    BY <2>1, LaterIsLater
  <2> QED BY <2>2, TimesAreNaturals
<1>3. at \in DOMAIN container.entries /\ container.entries \in Seq(Entries)
  BY <1>1, PositionFound DEF Containers
<1>4. d.entries = RemoveAt(container.entries, at) /\ d.createdAt = container.createdAt
      /\ d.updatedAt = t /\ d \in Containers
  BY <1>1, <1>3, RemoveAtElements, TouchedParts
<1>5. /\ Len(d.entries) = Len(container.entries) - 1
      /\ \A i \in DOMAIN d.entries : /\ from(i) \in DOMAIN container.entries
                                     /\ d.entries[i] = container.entries[from(i)]
  <2>1. /\ Len(d.entries) = Len(container.entries) - 1
        /\ Len(container.entries) \in Nat /\ DOMAIN container.entries = 1..Len(container.entries)
        /\ Len(d.entries) \in Nat /\ DOMAIN d.entries = 1..Len(d.entries)
    BY <1>1, <1>3, <1>4, RemoveAtElements, ContainerParts
  <2>2. \A i \in DOMAIN d.entries : /\ i < at => d.entries[i] = container.entries[i]
                                    /\ i >= at => d.entries[i] = container.entries[i + 1]
    BY <1>3, <1>4, RemoveAtElements
  <2> QED BY <1>3, <2>1, <2>2
<1>6. /\ container.createdAt \in Nat /\ container.updatedAt \in Nat
      /\ \A i \in DOMAIN container.entries : /\ container.entries[i].createdAt \in Nat
                                             /\ container.entries[i].updatedAt \in Nat
      /\ Len(container.entries) \in Nat /\ DOMAIN container.entries = 1..Len(container.entries)
  BY <1>1, ContainerParts
<1>7. Accepted(d)
  <2>1. d.createdAt <= d.updatedAt /\ Len(d.entries) <= MaxEntries
    BY <1>1, <1>2, <1>4, <1>5, <1>6, BoundsAssumption DEF Accepted
  <2>2. \A i \in DOMAIN container.entries : EntryAccepted(d, container.entries[i])
    BY <1>1, <1>2, <1>4, <1>6 DEF Accepted, EntryAccepted
  <2>3. \A i, j \in DOMAIN d.entries : from(i) = from(j) => i = j
    BY <1>3, <1>4, <1>6, ContainerParts
  <2>4. \A i, j \in DOMAIN d.entries : d.entries[i].id = d.entries[j].id => i = j
    BY <1>1, <1>5, <2>3 DEF Accepted
  <2> QED BY <1>5, <2>1, <2>2, <2>4 DEF Accepted
<1>8. Follows(stored, d)
  <2>1. d.createdAt = stored.createdAt /\ d.updatedAt >= stored.updatedAt
    BY <1>1, <1>2, <1>4, <1>6, ContainerParts DEF Follows
  <2> QED BY <1>1, <1>5, <2>1 DEF Follows
<1> QED BY <1>4, <1>7, <1>8

-----------------------------------------------------------------------------
LEMMA EmptyIsAccepted ==
  ASSUME NEW now \in Times
  PROVE  EmptyAt(now) \in Containers /\ Accepted(EmptyAt(now)) /\ Follows(EmptyAt(now), EmptyAt(now))
BY BoundsAssumption DEF EmptyAt, Containers, Accepted, Follows, Times

LEMMA ContainerInit == Init => ContainerInv
BY DEF Init, ContainerInv, TypeOK, AlwaysAccepted, SessionAhead, Outcomes

LEMMA FailPreserves ==
  ASSUME ContainerInv, NEW code \in Outcomes, Fail(code)
  PROVE  ContainerInv' /\ UNCHANGED stored
BY DEF Fail, ContainerInv, TypeOK, AlwaysAccepted, SessionAhead

LEMMA EditPreserves ==
  ASSUME ContainerInv, container # Absent, NEW id \in Ids, Edited(id),
         container' \in Containers, Accepted(container'), Follows(stored, container')
  PROVE  ContainerInv'
BY AbsentAssumption DEF Edited, ContainerInv, TypeOK, AlwaysAccepted, SessionAhead, Outcomes

LEMMA ContainerStep == ContainerInv /\ [Next]_vars => ContainerInv'
<1> SUFFICES ASSUME ContainerInv, [Next]_vars
             PROVE  ContainerInv'
  OBVIOUS
<1>1. ASSUME NEW now \in Times, CreateVault(now)
      PROVE  ContainerInv'
  BY <1>1, EmptyIsAccepted DEF CreateVault, ContainerInv, TypeOK, AlwaysAccepted, SessionAhead, Outcomes
<1>2. ASSUME NEW id \in Ids, NEW f \in Fields, NEW now \in Times, AddEntry(id, f, now)
      PROVE  ContainerInv'
  <2>1. CASE AddRefused(f)
    BY <2>1, FailPreserves DEF AddRefused, Outcomes
  <2>2. CASE ~AddRefused(f)
    <3>1. /\ container # Absent /\ f \in ValidFields /\ Len(container.entries) < MaxEntries
          /\ id \in Ids \ IdsOf(container) /\ Edited(id)
          /\ container' = Touched(container, now, Append(container.entries,
                            [id |-> id, fields |-> f, createdAt |-> Later(now, container.updatedAt),
                             updatedAt |-> Later(now, container.updatedAt)]))
      BY <1>2, <2>2 DEF AddEntry
    <3>2. container' \in Containers /\ Accepted(container') /\ Follows(stored, container')
      BY <3>1, AddPreserves
    <3> QED BY <3>1, <3>2, EditPreserves
  <2> QED BY <2>1, <2>2
<1>3. ASSUME NEW id \in Ids, NEW f \in Fields, NEW now \in Times, UpdateEntry(id, f, now)
      PROVE  ContainerInv'
  <2>1. CASE f \notin ValidFields \/ id \notin IdsOf(container)
    BY <1>3, <2>1, FailPreserves DEF UpdateEntry, Outcomes
  <2>2. CASE f \in ValidFields /\ id \in IdsOf(container)
    <3>1. /\ container # Absent /\ Edited(id)
          /\ container' = Touched(container, now,
                ReplaceAt(container.entries, PositionOf(container, id),
                  [container.entries[PositionOf(container, id)] EXCEPT !.fields = f,
                     !.updatedAt = Later(Later(now, container.updatedAt),
                                         container.entries[PositionOf(container, id)].createdAt)]))
      BY <1>3, <2>2 DEF UpdateEntry
    <3>2. container' \in Containers /\ Accepted(container') /\ Follows(stored, container')
      BY <2>2, <3>1, UpdatePreserves
    <3> QED BY <3>1, <3>2, EditPreserves
  <2> QED BY <2>1, <2>2
<1>4. ASSUME NEW id \in Ids, NEW now \in Times, DeleteEntry(id, now)
      PROVE  ContainerInv'
  <2>1. CASE id \notin IdsOf(container)
    BY <1>4, <2>1, FailPreserves DEF DeleteEntry, Outcomes
  <2>2. CASE id \in IdsOf(container)
    <3>1. /\ container # Absent /\ Edited(id)
          /\ container' = Touched(container, now,
                            RemoveAt(container.entries, PositionOf(container, id)))
      BY <1>4, <2>2 DEF DeleteEntry
    <3>2. container' \in Containers /\ Accepted(container') /\ Follows(stored, container')
      BY <2>2, <3>1, DeletePreserves
    <3> QED BY <3>1, <3>2, EditPreserves
  <2> QED BY <2>1, <2>2
<1>5. CASE Save
  BY <1>5, FollowsItself DEF Save, Fail, ContainerInv, TypeOK, AlwaysAccepted, SessionAhead, Outcomes
<1>6. CASE Lock
  BY <1>6 DEF Lock, ContainerInv, TypeOK, AlwaysAccepted, SessionAhead, Outcomes
<1>7. CASE Open
  BY <1>7, FollowsItself DEF Open, Fail, ContainerInv, TypeOK, AlwaysAccepted, SessionAhead, Outcomes
<1>8. CASE UNCHANGED vars
  BY <1>8 DEF vars, ContainerInv, TypeOK, AlwaysAccepted, SessionAhead
<1> QED BY <1>1, <1>2, <1>3, <1>4, <1>5, <1>6, <1>7, <1>8 DEF Next

(* Every container, in the session or stored, passes VaultContainerV1::validate,
   for any number of entries and any clock: the session's container is typed,
   accepted, and ahead of the stored one. *)
THEOREM ContainerInductive == Spec => []ContainerInv
BY ContainerInit, ContainerStep, PTL DEF Spec

(* Every reachable state is well typed. *)
THEOREM ContainerTypeCorrect == Spec => []TypeOK
BY ContainerInductive, PTL DEF ContainerInv

(* What was saved can be opened again and what is edited can be saved. *)
THEOREM ContainersAccepted == Spec => []AlwaysAccepted
BY ContainerInductive, PTL DEF ContainerInv

(* From one stored container to the next, time moves forward. *)
THEOREM TimeMovesForward == Spec => TimelineAdvances
<1>1. ContainerInv /\ [Next]_vars =>
        [stored # Absent => Follows(stored, stored')]_stored
  <2> SUFFICES ASSUME ContainerInv, Next, stored' # stored, stored # Absent
               PROVE  Follows(stored, stored')
    BY DEF vars
  <2>1. Save
    BY DEF Next, CreateVault, AddEntry, AddRefused, UpdateEntry, DeleteEntry, Lock, Open, Fail, Edited
  <2> QED BY <2>1 DEF Save, Fail, ContainerInv, SessionAhead
<1>2. [stored # Absent => Follows(stored, stored')]_stored
      => [stored # Absent =>
            /\ stored'.createdAt = stored.createdAt
            /\ stored'.updatedAt >= stored.updatedAt
            /\ \A i \in DOMAIN stored.entries, j \in DOMAIN stored'.entries :
                 stored.entries[i].id = stored'.entries[j].id =>
                   /\ stored'.entries[j].createdAt >= stored.entries[i].createdAt
                   /\ stored'.entries[j].updatedAt >= stored.entries[i].updatedAt]_stored
  BY DEF Follows
<1> QED BY <1>1, <1>2, ContainerInductive, PTL DEF Spec, TimelineAdvances


-----------------------------------------------------------------------------
(* The entries of a container, wherever they stand. *)
EntriesOf(c) == {c.entries[i] : i \in DOMAIN c.entries}

(* In an accepted container an id has one entry at one position. *)
LEMMA EntryOfAnId ==
  ASSUME NEW c \in Containers, Accepted(c)
  PROVE  /\ EntriesOf(c) \subseteq Entries
         /\ \A i, j \in DOMAIN c.entries : c.entries[i] = c.entries[j] => i = j
         /\ \A d, e \in EntriesOf(c) : d.id = e.id => d = e
         /\ \A e \in EntriesOf(c) : /\ e.fields \in ValidFields
                                    /\ e.createdAt <= e.updatedAt
                                    /\ e.updatedAt <= c.updatedAt
BY ContainerParts DEF EntriesOf, Accepted, EntryAccepted

(* push, the assignment in place and remove, by the entries they leave. *)
LEMMA AddedEntries ==
  ASSUME NEW c \in Containers, NEW now \in Times, NEW e \in Entries,
         NEW d, d = Touched(c, now, Append(c.entries, e))
  PROVE  /\ d \in Containers /\ d.updatedAt = Later(now, c.updatedAt)
         /\ EntriesOf(d) = EntriesOf(c) \cup {e}
<1>1. c.entries \in Seq(Entries) /\ Len(c.entries) \in Nat /\ DOMAIN c.entries = 1..Len(c.entries)
  BY ContainerParts
<1>2. PICK es \in Seq(Entries) : es = Append(c.entries, e)
  BY <1>1, AppendElements
<1>3. /\ DOMAIN es = 1..(Len(c.entries) + 1) /\ es[Len(c.entries) + 1] = e
      /\ \A i \in 1..Len(c.entries) : es[i] = c.entries[i]
  BY <1>1, <1>2, AppendElements
<1>4. d \in Containers /\ d.entries = es /\ d.updatedAt = Later(now, c.updatedAt)
  BY <1>2, TouchedParts
<1>5. /\ Len(c.entries) + 1 \in DOMAIN es
      /\ \A i \in DOMAIN es : i = Len(c.entries) + 1 \/ i \in DOMAIN c.entries
      /\ \A i \in DOMAIN c.entries : i \in DOMAIN es
  BY <1>1, <1>3
<1> QED BY <1>1, <1>3, <1>4, <1>5 DEF EntriesOf

LEMMA ReplacedEntries ==
  ASSUME NEW c \in Containers, Accepted(c), NEW now \in Times, NEW e \in Entries,
         NEW at \in DOMAIN c.entries,
         NEW d, d = Touched(c, now, ReplaceAt(c.entries, at, e))
  PROVE  /\ d \in Containers /\ d.updatedAt = Later(now, c.updatedAt)
         /\ EntriesOf(d) = (EntriesOf(c) \ {c.entries[at]}) \cup {e}
<1>1. c.entries \in Seq(Entries)
  BY ContainerParts
<1>2. PICK es \in Seq(Entries) : es = [c.entries EXCEPT ![at] = e]
  <2>1. [c.entries EXCEPT ![at] = e] \in Seq(Entries)
    BY <1>1
  <2> QED BY <2>1
<1>3. /\ DOMAIN es = DOMAIN c.entries /\ es[at] = e
      /\ \A i \in DOMAIN c.entries : i # at => es[i] = c.entries[i]
  BY <1>1, <1>2
<1>4. d = Touched(c, now, es)
  BY <1>2 DEF ReplaceAt
<1>5. d \in Containers /\ d.entries = es /\ d.updatedAt = Later(now, c.updatedAt)
  BY <1>4, TouchedParts
<1>6. \A i \in DOMAIN c.entries : i # at <=> c.entries[i] # c.entries[at]
  BY EntryOfAnId
<1> QED BY <1>3, <1>5, <1>6 DEF EntriesOf

LEMMA RemovedEntries ==
  ASSUME NEW c \in Containers, Accepted(c), NEW now \in Times, NEW at \in DOMAIN c.entries,
         NEW d, d = Touched(c, now, RemoveAt(c.entries, at))
  PROVE  /\ d \in Containers /\ d.updatedAt = Later(now, c.updatedAt)
         /\ EntriesOf(d) = EntriesOf(c) \ {c.entries[at]}
<1>1. /\ c.entries \in Seq(Entries) /\ Len(c.entries) \in Nat
      /\ DOMAIN c.entries = 1..Len(c.entries) /\ at \in 1..Len(c.entries)
  BY ContainerParts
<1>2. PICK es \in Seq(Entries) :
        /\ es = RemoveAt(c.entries, at) /\ Len(es) = Len(c.entries) - 1
        /\ \A i \in DOMAIN es : /\ i < at => es[i] = c.entries[i]
                                /\ i >= at => es[i] = c.entries[i + 1]
  <2>1. PICK s \in Seq(Entries) : s = c.entries /\ at \in DOMAIN s
    BY <1>1
  <2>2. /\ RemoveAt(s, at) \in Seq(Entries) /\ Len(RemoveAt(s, at)) = Len(s) - 1
        /\ \A i \in DOMAIN RemoveAt(s, at) :
             /\ i < at => RemoveAt(s, at)[i] = s[i]
             /\ i >= at => RemoveAt(s, at)[i] = s[i + 1]
    BY <2>1, RemoveAtElements
  <2> QED BY <2>1, <2>2
<1>3. DOMAIN es = 1..(Len(c.entries) - 1)
  BY <1>2
<1>4. d \in Containers /\ d.entries = es /\ d.updatedAt = Later(now, c.updatedAt)
  BY <1>2, TouchedParts
<1>5. ASSUME NEW i \in DOMAIN es
      PROVE  \E j \in DOMAIN c.entries : j # at /\ es[i] = c.entries[j]
  <2>1. CASE i < at
    <3>1. i \in DOMAIN c.entries /\ i # at /\ es[i] = c.entries[i]
      BY <1>1, <1>2, <1>3, <2>1
    <3> QED BY <3>1
  <2>2. CASE i >= at
    <3>1. i + 1 \in DOMAIN c.entries /\ i + 1 # at /\ es[i] = c.entries[i + 1]
      BY <1>1, <1>2, <1>3, <2>2
    <3> QED BY <3>1
  <2> QED BY <1>1, <1>3, <2>1, <2>2
<1>6. ASSUME NEW j \in DOMAIN c.entries, j # at
      PROVE  \E i \in DOMAIN es : es[i] = c.entries[j]
  <2>1. CASE j < at
    <3>1. j \in DOMAIN es /\ es[j] = c.entries[j]
      BY <1>1, <1>2, <1>3, <2>1
    <3> QED BY <3>1
  <2>2. CASE j > at
    <3>1. j - 1 \in DOMAIN es /\ j - 1 >= at /\ (j - 1) + 1 = j
      BY <1>1, <1>3, <2>2
    <3>2. es[j - 1] = c.entries[(j - 1) + 1]
      BY <1>2, <3>1
    <3> QED BY <3>1, <3>2
  <2> QED BY <1>1, <1>6, <2>1, <2>2
<1>7. \A i \in DOMAIN c.entries : i # at <=> c.entries[i] # c.entries[at]
  BY EntryOfAnId
<1> QED BY <1>4, <1>5, <1>6, <1>7 DEF EntriesOf

(* What update_entry makes of the entry it finds: the same id, stamped with the
   time of the container. *)
Updated(c, at, f, now) ==
  [c.entries[at] EXCEPT !.fields = f,
     !.updatedAt = Later(Later(now, c.updatedAt), c.entries[at].createdAt)]

LEMMA UpdatedEntry ==
  ASSUME NEW c \in Containers, Accepted(c), NEW now \in Times, NEW f \in ValidFields,
         NEW at \in DOMAIN c.entries, NEW new, new = Updated(c, at, f, now)
  PROVE  /\ new \in Entries /\ new.id = c.entries[at].id /\ new.fields = f
         /\ new.updatedAt = Later(now, c.updatedAt)
<1>1. PICK old \in Entries : /\ old = c.entries[at] /\ old.createdAt \in Nat /\ old.updatedAt \in Nat
                             /\ old.createdAt <= old.updatedAt /\ old.updatedAt <= c.updatedAt
                             /\ c.updatedAt \in Nat
  BY ContainerParts DEF Accepted, EntryAccepted
<1>2. PICK t \in Times : t = Later(now, c.updatedAt) /\ t >= c.updatedAt /\ t \in Nat
  BY LaterIsLater, ContainerParts, TimesAreNaturals
<1>3. Later(t, old.createdAt) = t
  BY <1>1, <1>2 DEF Later
<1>4. new = [old EXCEPT !.fields = f, !.updatedAt = t]
  BY <1>1, <1>2, <1>3 DEF Updated
<1> QED BY <1>1, <1>2, <1>4, FieldsAssumption DEF Entries

-----------------------------------------------------------------------------
(* An edit by the entries before and after it: one entry of this id, stamped with
   the time of the container, in place of what the id had; or none. *)
Others(c, id) == {x \in EntriesOf(c) : x.id # id}

Puts(c, d, id, f) ==
  /\ d \in Containers
  /\ \E e \in Entries : /\ e.id = id /\ e.fields = f /\ e.updatedAt = d.updatedAt
                        /\ EntriesOf(d) = Others(c, id) \cup {e}

Strikes(c, d, id) == d \in Containers /\ id \in IdsOf(c) /\ EntriesOf(d) = Others(c, id)

LEMMA AddPuts ==
  ASSUME NEW c \in Containers, NEW now \in Times, NEW id \in Ids, NEW f \in ValidFields,
         id \notin IdsOf(c),
         NEW e, e = [id |-> id, fields |-> f, createdAt |-> Later(now, c.updatedAt),
                     updatedAt |-> Later(now, c.updatedAt)],
         NEW d, d = Touched(c, now, Append(c.entries, e))
  PROVE  Puts(c, d, id, f)
<1>1. e \in Entries /\ e.id = id /\ e.fields = f /\ e.updatedAt = Later(now, c.updatedAt)
  BY LaterIsLater, ContainerParts, FieldsAssumption DEF Entries
<1>2. /\ d \in Containers /\ d.updatedAt = Later(now, c.updatedAt)
      /\ EntriesOf(d) = EntriesOf(c) \cup {e}
  BY <1>1, AddedEntries
<1>3. EntriesOf(c) = Others(c, id)
  BY DEF Others, EntriesOf, IdsOf
<1> QED BY <1>1, <1>2, <1>3 DEF Puts

(* The others of the id at a position are the entries at the other positions. *)
LEMMA OthersOfPosition ==
  ASSUME NEW c \in Containers, Accepted(c), NEW at \in DOMAIN c.entries
  PROVE  EntriesOf(c) \ {c.entries[at]} = Others(c, c.entries[at].id)
<1>1. c.entries[at] \in EntriesOf(c)
  BY DEF EntriesOf
<1> QED BY <1>1, EntryOfAnId DEF Others

LEMMA UpdatePuts ==
  ASSUME NEW c \in Containers, Accepted(c), NEW now \in Times, NEW id \in IdsOf(c), NEW f \in ValidFields,
         NEW at, at = PositionOf(c, id), NEW new, new = Updated(c, at, f, now),
         NEW d, d = Touched(c, now, ReplaceAt(c.entries, at, new))
  PROVE  Puts(c, d, id, f)
<1>1. at \in DOMAIN c.entries /\ c.entries[at].id = id
  BY PositionFound
<1>2. new \in Entries /\ new.id = id /\ new.fields = f /\ new.updatedAt = Later(now, c.updatedAt)
  BY <1>1, UpdatedEntry
<1>3. /\ d \in Containers /\ d.updatedAt = Later(now, c.updatedAt)
      /\ EntriesOf(d) = (EntriesOf(c) \ {c.entries[at]}) \cup {new}
  BY <1>1, <1>2, ReplacedEntries
<1>4. EntriesOf(c) \ {c.entries[at]} = Others(c, id)
  BY <1>1, OthersOfPosition
<1> QED BY <1>2, <1>3, <1>4 DEF Puts

LEMMA DeleteStrikes ==
  ASSUME NEW c \in Containers, Accepted(c), NEW now \in Times, NEW id \in IdsOf(c),
         NEW at, at = PositionOf(c, id),
         NEW d, d = Touched(c, now, RemoveAt(c.entries, at))
  PROVE  Strikes(c, d, id)
<1>1. at \in DOMAIN c.entries /\ c.entries[at].id = id
  BY PositionFound
<1>2. d \in Containers /\ EntriesOf(d) = EntriesOf(c) \ {c.entries[at]}
  BY <1>1, RemovedEntries
<1> QED BY <1>1, <1>2, OthersOfPosition DEF Strikes

(* A step of an open container other than a lock is one of these edits, or it
   leaves the container as it is and can only have saved it. *)
LEMMA NextEdits ==
  ASSUME ContainerInv, Next, container # Absent, ~Lock
  PROVE  \/ \E id \in Ids : /\ Edited(id)
                            /\ \/ Strikes(container, container', id)
                               \/ \E f \in ValidFields : Puts(container, container', id, f)
         \/ UNCHANGED <<container, named>> /\ stored' \in {stored, container}
<1>1. container \in Containers /\ Accepted(container) /\ stored # Absent
  BY DEF ContainerInv, TypeOK, AlwaysAccepted, SessionAhead
<1>2. PICK c, d : c = container /\ d = container' /\ c \in Containers /\ Accepted(c)
  BY <1>1
<1> DEFINE Kept == UNCHANGED <<container, named>> /\ stored' \in {stored, container}
<1>3. ASSUME NEW id \in Ids, NEW f \in Fields, NEW now \in Times, AddEntry(id, f, now), ~Kept
      PROVE  Edited(id) /\ f \in ValidFields /\ Puts(c, d, id, f)
  <2>1. PICK e : /\ f \in ValidFields /\ id \notin IdsOf(c) /\ Edited(id)
                 /\ e = [id |-> id, fields |-> f, createdAt |-> Later(now, c.updatedAt),
                         updatedAt |-> Later(now, c.updatedAt)]
                 /\ d = Touched(c, now, Append(c.entries, e))
    BY <1>2, <1>3, Zenon DEF AddEntry, AddRefused, Fail
  <2> QED BY <1>2, <2>1, AddPuts
<1>4. ASSUME NEW id \in Ids, NEW f \in Fields, NEW now \in Times, UpdateEntry(id, f, now), ~Kept
      PROVE  Edited(id) /\ f \in ValidFields /\ Puts(c, d, id, f)
  <2>1. PICK at, new : /\ f \in ValidFields /\ id \in IdsOf(c) /\ Edited(id)
                       /\ at = PositionOf(c, id) /\ new = Updated(c, at, f, now)
                       /\ d = Touched(c, now, ReplaceAt(c.entries, at, new))
    BY <1>2, <1>4, Zenon DEF UpdateEntry, Fail, Updated
  <2> QED BY <1>2, <2>1, UpdatePuts
<1>5. ASSUME NEW id \in Ids, NEW now \in Times, DeleteEntry(id, now), ~Kept
      PROVE  Edited(id) /\ Strikes(c, d, id)
  <2>1. PICK at : /\ id \in IdsOf(c) /\ Edited(id) /\ at = PositionOf(c, id)
                  /\ d = Touched(c, now, RemoveAt(c.entries, at))
    BY <1>2, <1>5, Zenon DEF DeleteEntry, Fail
  <2> QED BY <1>2, <2>1, DeleteStrikes
<1>6. ASSUME NEW now \in Times PROVE ~CreateVault(now)
  BY <1>1 DEF CreateVault
<1>7. ~Open /\ (Save => Kept)
  BY DEF Save, Open, Fail
<1>8. \/ \E id \in Ids : Edited(id) /\ (Strikes(c, d, id) \/ \E f \in ValidFields : Puts(c, d, id, f))
      \/ Kept
  BY <1>3, <1>4, <1>5, <1>6, <1>7 DEF Next
<1> QED BY <1>2, <1>8, Zenon

(* The list is shown ordered by updatedAt: the entry just added or changed is its
   newest, however often the clock was set back, for any number of entries. *)
THEOREM TouchedStaysNewest == Spec => TouchedIsNewest
<1>1. ContainerInv /\ ContainerInv' /\ [Next]_vars =>
        [container # Absent /\ container' # Absent =>
           \A i, k \in DOMAIN container'.entries :
             (\A j \in DOMAIN container.entries : container.entries[j] # container'.entries[i])
             => container'.entries[k].updatedAt <= container'.entries[i].updatedAt]_container
  <2> SUFFICES ASSUME ContainerInv, ContainerInv', Next, container' # container,
                      container # Absent, container' # Absent,
                      NEW i \in DOMAIN container'.entries, NEW k \in DOMAIN container'.entries,
                      \A j \in DOMAIN container.entries : container.entries[j] # container'.entries[i]
               PROVE  container'.entries[k].updatedAt <= container'.entries[i].updatedAt
    BY DEF vars
  <2>1. PICK id \in Ids : \/ Strikes(container, container', id)
                          \/ \E f \in ValidFields : Puts(container, container', id, f)
    BY NextEdits DEF Lock
  <2>2. container'.entries[i] \in EntriesOf(container') \ EntriesOf(container)
    BY DEF EntriesOf
  <2>3. container'.entries[i].updatedAt = container'.updatedAt
    BY <2>1, <2>2 DEF Strikes, Puts, Others
  <2>4. container'.entries[k].updatedAt <= container'.updatedAt
    BY DEF ContainerInv, AlwaysAccepted, Accepted, EntryAccepted
  <2> QED BY <2>3, <2>4
<1> QED BY <1>1, ContainerInductive, PTL DEF Spec, TouchedIsNewest


-----------------------------------------------------------------------------
(* The book of an accepted container: the ids of its entries, each with the
   fields of the one entry that has it. *)
LEMMA BookParts ==
  ASSUME NEW c \in Containers, Accepted(c)
  PROVE  /\ BookOf(c) # Absent
         /\ BookOf(c) = [i \in IdsOf(c) |-> BookOf(c)[i]]
         /\ IdsOf(c) = {e.id : e \in EntriesOf(c)} /\ DOMAIN BookOf(c) = IdsOf(c)
         /\ \A e \in EntriesOf(c) : BookOf(c)[e.id] = e.fields
<1>1. c # Absent
  BY AbsentAssumption
<1>2. BookOf(c) = [i \in IdsOf(c) |-> c.entries[PositionOf(c, i)].fields]
  BY <1>1 DEF BookOf
<1>3. IdsOf(c) = {e.id : e \in EntriesOf(c)}
  BY DEF IdsOf, EntriesOf
<1>4. ASSUME NEW i \in IdsOf(c)
      PROVE  i \in Ids /\ c.entries[PositionOf(c, i)].fields \in ValidFields
  <2>1. PICK at \in DOMAIN c.entries : at = PositionOf(c, i) /\ c.entries[at].id = i
    BY PositionFound
  <2>2. c.entries[at] \in Entries /\ c.entries[at].fields \in ValidFields
    BY ContainerParts DEF Accepted, EntryAccepted
  <2> QED BY <2>1, <2>2 DEF Entries
<1>5. BookOf(c) \in [IdsOf(c) -> ValidFields] /\ IdsOf(c) \in SUBSET Ids
  BY <1>2, <1>4
<1>6. BookOf(c) \in Book!Books
  BY <1>5 DEF Book!Books
<1>7. ASSUME NEW e \in EntriesOf(c)
      PROVE  BookOf(c)[e.id] = e.fields
  <2>1. e.id \in IdsOf(c)
    BY <1>3
  <2>2. PICK at \in DOMAIN c.entries : at = PositionOf(c, e.id) /\ c.entries[at].id = e.id
    BY <2>1, PositionFound
  <2>3. c.entries[at] = e
    BY <2>2, EntryOfAnId DEF EntriesOf
  <2> QED BY <1>2, <2>1, <2>2, <2>3
<1> QED BY <1>2, <1>3, <1>6, <1>7, ClosedAssumption

(* An accepted container has no more ids than entries. *)
LEMMA IdsWithinCapacity ==
  ASSUME NEW c \in Containers, Accepted(c)
  PROVE  Cardinality(IdsOf(c)) <= MaxEntries
<1>1. PICK n \in Nat : n = Len(c.entries) /\ DOMAIN c.entries = 1..n /\ n <= MaxEntries
  BY ContainerParts DEF Accepted
<1>2. PICK g : g = [i \in 1..n |-> c.entries[i].id]
  OBVIOUS
<1>3. g \in Surjection(1..n, IdsOf(c))
  BY <1>1, <1>2 DEF Surjection, IdsOf
<1>4. IsFiniteSet(1..n) /\ Cardinality(1..n) = n
  BY FS_Interval
<1>5. IsFiniteSet(IdsOf(c)) /\ Cardinality(IdsOf(c)) <= n
  BY <1>3, <1>4, FS_Surjection, FS_CardinalityType DEF ExistsSurjection
<1> QED BY <1>1, <1>5, FS_CardinalityType, BoundsAssumption


BookWith(b, S, id, f) == [i \in S |-> IF i = id THEN f ELSE b[i]]

LEMMA PutChangesBook ==
  ASSUME NEW c \in Containers, Accepted(c), NEW d \in Containers, Accepted(d),
         NEW id \in Ids, NEW f \in ValidFields, Puts(c, d, id, f),
         NEW S, S = DOMAIN BookOf(c) \cup {id}
  PROVE  Cardinality(S) <= MaxEntries /\ BookOf(d) = BookWith(BookOf(c), S, id, f)
<1>1. PICK e \in Entries : e.id = id /\ e.fields = f /\ EntriesOf(d) = Others(c, id) \cup {e}
  BY DEF Puts
<1>2. IdsOf(d) = IdsOf(c) \cup {id}
  BY <1>1, BookParts DEF Others
<1>3. ASSUME NEW i \in IdsOf(d)
      PROVE  BookOf(d)[i] = IF i = id THEN f ELSE BookOf(c)[i]
  <2>1. PICK x \in EntriesOf(d) : x.id = i /\ BookOf(d)[i] = x.fields
    BY BookParts
  <2>2. CASE x = e
    BY <1>1, <2>1, <2>2
  <2>3. CASE x \in Others(c, id)
    <3>1. x \in EntriesOf(c) /\ i # id
      BY <2>1, <2>3 DEF Others
    <3> QED BY <2>1, <3>1, BookParts
  <2> QED BY <1>1, <2>1, <2>2, <2>3
<1>4. S = IdsOf(d)
  BY <1>2, BookParts
<1>5. BookOf(d) = [i \in IdsOf(d) |-> IF i = id THEN f ELSE BookOf(c)[i]]
  BY <1>3, BookParts
<1> QED BY <1>4, <1>5, IdsWithinCapacity DEF BookWith

LEMMA StrikeChangesBook ==
  ASSUME NEW c \in Containers, Accepted(c), NEW d \in Containers, Accepted(d),
         NEW id \in Ids, Strikes(c, d, id)
  PROVE  /\ id \in DOMAIN BookOf(c)
         /\ BookOf(d) = [i \in DOMAIN BookOf(c) \ {id} |-> BookOf(c)[i]]
<1>1. IdsOf(d) = IdsOf(c) \ {id} /\ id \in IdsOf(c) /\ EntriesOf(d) = Others(c, id)
  BY BookParts DEF Strikes, Others
<1>2. ASSUME NEW i \in IdsOf(d)
      PROVE  BookOf(d)[i] = BookOf(c)[i]
  <2>1. PICK x \in EntriesOf(d) : x.id = i /\ BookOf(d)[i] = x.fields
    BY BookParts
  <2>2. x \in EntriesOf(c)
    BY <1>1 DEF Others
  <2> QED BY <2>1, <2>2, BookParts
<1>3. DOMAIN BookOf(c) \ {id} = IdsOf(d) /\ id \in DOMAIN BookOf(c)
  BY <1>1, BookParts
<1>4. BookOf(d) = [i \in IdsOf(d) |-> BookOf(c)[i]]
  BY <1>2, BookParts
<1> QED BY <1>3, <1>4

LEMMA EmptyBook ==
  ASSUME NEW now \in Times
  PROVE  BookOf(EmptyAt(now)) = [i \in {} |-> CHOOSE f \in ValidFields : TRUE]
<1>1. PICK c \in Containers : c = EmptyAt(now) /\ Accepted(c)
  BY EmptyIsAccepted
<1>2. IdsOf(c) = {}
  BY <1>1 DEF EmptyAt, IdsOf
<1>3. BookOf(c) = [i \in {} |-> BookOf(c)[i]]
  BY <1>1, <1>2, BookParts
<1> QED BY <1>1, <1>3

(* The book counts as the container does. *)
LEMMA BookCounts == \A S : Book!Cardinality(S) = Cardinality(S)
BY Zenon DEF Book!Cardinality, Cardinality

(* Every step of the container is a step of the book, or none. *)
LEMMA BookStep ==
  ASSUME ContainerInv, ContainerInv', [Next]_vars
  PROVE  [Book!Next]_<<BookOf(container), BookOf(stored), named>>
<1>1. /\ container # Absent => container \in Containers /\ Accepted(container) /\ stored # Absent
      /\ container' # Absent => container' \in Containers /\ Accepted(container')
      /\ stored # Absent => stored \in Containers /\ Accepted(stored)
  BY DEF ContainerInv, TypeOK, AlwaysAccepted, SessionAhead
<1>2. /\ BookOf(Absent) = Absent
      /\ container # Absent => BookOf(container) # Absent
      /\ stored # Absent => BookOf(stored) # Absent
  BY <1>1, BookParts DEF BookOf
<1>3. CASE UNCHANGED vars
  BY <1>3 DEF vars
<1>4. CASE container # Absent /\ Next /\ ~Lock
  <2>1. ASSUME UNCHANGED <<container, named>>, stored' \in {stored, container}
        PROVE  [Book!Save]_<<BookOf(container), BookOf(stored), named>>
    BY <1>2, <1>4, <2>1 DEF Book!Save
  <2>2. PICK c : c = container /\ c \in Containers /\ Accepted(c) /\ BookOf(c) # Absent
    BY <1>1, <1>2, <1>4
  <2>3. PICK d : d = container'
    OBVIOUS
  <2>4. d \in Containers => d \in Containers /\ Accepted(d)
    BY <1>1, <2>3, AbsentAssumption
  <2>5. ASSUME NEW id \in Ids, Edited(id), Strikes(c, d, id)
        PROVE  Book!Strike(id)
    <3>1. d \in Containers /\ Accepted(d)
      BY <2>4, <2>5 DEF Strikes
    <3>2. id \in DOMAIN BookOf(c) /\ BookOf(d) = [i \in DOMAIN BookOf(c) \ {id} |-> BookOf(c)[i]]
      BY <2>2, <2>5, <3>1, StrikeChangesBook
    <3> QED BY <2>2, <2>3, <2>5, <3>2 DEF Book!Strike, Edited
  <2>6. ASSUME NEW id \in Ids, Edited(id), NEW f \in ValidFields, Puts(c, d, id, f)
        PROVE  Book!Put(id, f)
    <3>1. d \in Containers /\ Accepted(d)
      BY <2>4, <2>6 DEF Puts
    <3>2. PICK S : S = DOMAIN BookOf(c) \cup {id}
      OBVIOUS
    <3>3. Cardinality(S) <= MaxEntries /\ BookOf(d) = BookWith(BookOf(c), S, id, f)
      BY <2>2, <2>6, <3>1, <3>2, PutChangesBook
    <3>4. /\ BookOf(container) # Absent
          /\ Book!Cardinality(DOMAIN BookOf(container) \cup {id}) <= MaxEntries
      BY <2>2, <3>2, <3>3, BookCounts, Zenon
    <3>5. BookOf(container') = [i \in DOMAIN BookOf(container) \cup {id} |->
                                  IF i = id THEN f ELSE BookOf(container)[i]]
      BY <2>2, <2>3, <3>2, <3>3, Zenon DEF BookWith
    <3>6. named' = id /\ BookOf(stored)' = BookOf(stored)
      BY <2>6 DEF Edited
    <3> QED BY <3>4, <3>5, <3>6, Zenon DEF Book!Put
  <2>7. \/ \E id \in Ids : /\ Edited(id)
                          /\ (Strikes(c, d, id) \/ \E f \in ValidFields : Puts(c, d, id, f))
        \/ UNCHANGED <<container, named>> /\ stored' \in {stored, container}
    BY <1>4, <2>2, <2>3, NextEdits
  <2> QED BY <2>1, <2>5, <2>6, <2>7 DEF Book!Next
<1>5. CASE container = Absent /\ Next
  <2>1. ASSUME NEW now \in Times, CreateVault(now)
        PROVE  Book!Start
    BY <1>2, <2>1, EmptyBook DEF CreateVault, Book!Start
  <2>2. CASE Open
    BY <1>2, <2>2 DEF Open, Fail, Book!Reopen, Book!Next
  <2>3. /\ ~Save /\ ~Lock
        /\ \A id \in Ids, now \in Times : /\ ~DeleteEntry(id, now)
                                          /\ \A f \in Fields : /\ ~AddEntry(id, f, now)
                                                               /\ ~UpdateEntry(id, f, now)
    BY <1>5 DEF Save, Lock, DeleteEntry, AddEntry, UpdateEntry
  <2> QED BY <1>5, <2>1, <2>2, <2>3 DEF Next, Book!Next
<1>6. CASE Lock
  BY <1>2, <1>6 DEF Lock, Book!Close, Book!Next
<1> QED BY <1>3, <1>4, <1>5, <1>6

(* The list of entries behaves as a book keyed by id, whatever the number of
   entries, their order and the clock. *)
THEOREM ContainerIsABook == Spec => ImplementsEntryBook
<1>1. Init => Book!Init
  BY DEF Init, Book!Init, BookOf
<1> QED BY <1>1, BookStep, ContainerInductive, PTL DEF Spec, ImplementsEntryBook, Book!Spec

=============================================================================
