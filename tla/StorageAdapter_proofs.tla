------------------------- MODULE StorageAdapter_proofs -------------------------
(***************************************************************************)
(* Proofs about StorageAdapter: its types, and that an operation is over     *)
(* within two timeouts whatever the host does.                              *)
(***************************************************************************)
EXTENDS StorageAdapter, TLAPS

(* A read that is under way ends within the timeout it was begun with; the loop
   begins no read after its deadline. *)
InTime == /\ phase = "reading" => elapsed + timerLeft <= 2 * TimeoutTicks
          /\ phase # "idle" /\ deadlineLeft > 0 => elapsed + deadlineLeft <= TimeoutTicks
          /\ phase = "waiting" => elapsed + timerLeft <= TimeoutTicks

\* An operation that failed has a reason.
FailureKnown == failure # "none" => failure \in Errors

\* An operation under way has a number.
CallKnown == phase # "idle" => call > 0

AdapterInv == TypeOK /\ InTime /\ FailureKnown /\ CallKnown

-----------------------------------------------------------------------------
LEMMA TicksArePositive ==
  /\ TimeoutTicks \in Nat /\ TimeoutTicks > 0
  /\ IntervalTicks \in Nat /\ IntervalTicks > 0
  /\ MaxCalls \in Nat
BY TicksAssumption

LEMMA NativesTyped ==
  ASSUME NEW n \in Calls, NEW v \in Stored
  PROVE  Get(n) \in Natives /\ Restore(n) \in Natives /\ Mutation(n, v) \in Natives
BY DEF Get, Restore, Mutation, Natives, Kinds, Reads, Stored

LEMMA AdapterInit == Init => AdapterInv
BY TicksArePositive
DEF Init, AdapterInv, TypeOK, InTime, FailureKnown, CallKnown, Stored, Kinds, Reads

(* A call of the client begins with its whole time before it. *)
LEMMA CallPreserves ==
  ASSUME AdapterInv,
         CallGet \/ CallRestore \/ CallThrows \/ \E v \in Stored : CallMutate(v)
  PROVE  AdapterInv'
<1>1. CASE CallGet
  <2>1. call' \in Calls /\ call' \in 0..MaxCalls
    BY <1>1, TicksArePositive DEF CallGet, Calls, AdapterInv, TypeOK
  <2>2. natives' \in Seq(Natives)
    <3>1. Get(call') \in Natives
      BY <2>1, NativesTyped DEF Stored
    <3> QED BY <1>1, <3>1 DEF CallGet, AdapterInv, TypeOK
  <2>3. honest' \in BOOLEAN
    BY <1>1, Zenon DEF CallGet
  <2> QED BY <1>1, <2>1, <2>2, <2>3, TicksArePositive
          DEF CallGet, StartRead, AdapterInv, TypeOK, InTime, FailureKnown, CallKnown, Stored, client,
              Kinds, Reads
<1>2. ASSUME NEW v \in Stored, CallMutate(v) PROVE AdapterInv'
  <2>1. call' \in Calls /\ call' \in 0..MaxCalls
    BY <1>2, TicksArePositive DEF CallMutate, Calls, AdapterInv, TypeOK
  <2>2. natives' \in Seq(Natives)
    <3>1. Get(call') \in Natives /\ Mutation(call', v) \in Natives
      BY <2>1, NativesTyped
    <3>2. <<Mutation(call', v), Get(call')>> \in Seq(Natives)
      BY <3>1
    <3> QED BY <1>2, <3>2 DEF CallMutate, AdapterInv, TypeOK
  <2>3. honest' \in BOOLEAN
    BY <1>2, Zenon DEF CallMutate
  <2> QED BY <1>2, <2>1, <2>2, <2>3, TicksArePositive
          DEF CallMutate, StartRead, AdapterInv, TypeOK, InTime, FailureKnown, CallKnown, Stored,
              Kinds, Reads
<1>3. CASE CallThrows
  <2>1. call' \in Calls /\ call' \in 0..MaxCalls /\ call + 1 \in Calls
    BY <1>3, TicksArePositive DEF CallThrows, Calls, AdapterInv, TypeOK
  <2>2. PICK k \in Kinds, v \in Stored, thrower \in Kinds :
          /\ kind' = k /\ goal' = v
          /\ natives' = IF k # thrower THEN Append(natives, Mutation(call + 1, v)) ELSE natives
          /\ confirmed' = IF k = "mutate" THEN "unknown" ELSE confirmed
    BY <1>3 DEF CallThrows
  <2>3. natives' \in Seq(Natives)
    <3>1. Mutation(call + 1, v) \in Natives
      BY <2>1, NativesTyped
    <3> QED BY <2>2, <3>1 DEF AdapterInv, TypeOK
  <2>4. honest' \in BOOLEAN
    BY <1>3, Zenon DEF CallThrows
  <2>5. kind' \in Kinds /\ goal' \in Stored /\ confirmed' \in Stored \cup {"unknown"}
    BY <2>2 DEF AdapterInv, TypeOK
  <2>6. phase = "idle"
    BY <1>3 DEF CallThrows
  <2> QED BY <1>3, <2>1, <2>3, <2>4, <2>5, <2>6, TicksArePositive
          DEF CallThrows, AdapterInv, TypeOK, InTime, FailureKnown, CallKnown, clock, Errors
<1>4. CASE CallRestore
  <2>1. call' \in Calls /\ call' \in 0..MaxCalls
    BY <1>4, TicksArePositive DEF CallRestore, Calls, AdapterInv, TypeOK
  <2>2. natives' \in Seq(Natives)
    <3>1. Restore(call') \in Natives
      BY <2>1, NativesTyped DEF Stored
    <3> QED BY <1>4, <3>1 DEF CallRestore, AdapterInv, TypeOK
  <2>3. honest' \in BOOLEAN
    BY <1>4, Zenon DEF CallRestore
  <2> QED BY <1>4, <2>1, <2>2, <2>3, TicksArePositive
          DEF CallRestore, StartRead, AdapterInv, TypeOK, InTime, FailureKnown, CallKnown, Stored,
              Kinds, Reads
<1> QED BY <1>1, <1>2, <1>3, <1>4

(* What settling leaves. *)
LEMMA SettlePreserves ==
  ASSUME AdapterInv, NEW code \in Errors \cup {"ok"}, Settle(code),
         UNCHANGED <<client, timerLeft, deadlineLeft, elapsed>>,
         value' \in Stored, natives' \in Seq(Natives), honest' \in BOOLEAN,
         failure' = failure, phase # "idle" => timerLeft <= TimeoutTicks
  PROVE  AdapterInv'
<1>1. timerLeft \in 0..TimeoutTicks
  BY TicksArePositive DEF AdapterInv, TypeOK
<1> QED BY <1>1, TicksArePositive
        DEF Settle, client, AdapterInv, TypeOK, InTime, FailureKnown, CallKnown, Errors

LEMMA HostPreserves ==
  ASSUME AdapterInv, Host
  PROVE  AdapterInv'
<1>1. natives # <<>> /\ natives' \in Seq(Natives) /\ Head(natives) \in Natives
      /\ UNCHANGED <<call, kind, goal, deadlineLeft, elapsed>>
  <2>1. natives # <<>> /\ Served
    BY DEF Host, HostMutates, HostAnswers, HostForgets
  <2>2. natives \in Seq(Natives)
    BY DEF AdapterInv, TypeOK
  <2>3. Head(natives) \in Natives /\ Tail(natives) \in Seq(Natives)
    BY ONLY <2>1, <2>2
  <2> QED BY <2>1, <2>3 DEF Served, client
<1>2. CASE HostMutates
  <2>1. PICK done \in BOOLEAN, report \in {"none", "not_confirmed", "callback_error"} :
          /\ value' = IF done THEN Head(natives).value ELSE value
          /\ failure' = IF Own(Head(natives)) /\ report # "none" THEN report ELSE failure
          /\ honest' = (honest /\ (Head(natives).call = call => done /\ report = "none"))
    BY <1>2 DEF HostMutates
  <2>2. honest' \in BOOLEAN
    BY <2>1, Zenon
  <2>3. value' \in Stored /\ failure' \in {"none", "not_confirmed", "callback_error"}
    BY <1>1, <2>1 DEF AdapterInv, TypeOK, Natives
  <2> QED BY <1>1, <1>2, <2>2, <2>3
          DEF HostMutates, AdapterInv, TypeOK, InTime, FailureKnown, CallKnown, Errors
<1>3. CASE HostAnswers
  <2>1. value' \in Stored /\ failure' = failure
    BY <1>3 DEF HostAnswers, Restored, AdapterInv, TypeOK
  <2>2. honest' \in BOOLEAN
    <3>1. honest' = honest \/ honest' = (honest /\ Head(natives).call # call)
      BY <1>3, Zenon DEF HostAnswers
    <3>2. honest \in BOOLEAN
      BY DEF AdapterInv, TypeOK
    <3> QED BY <3>1, <3>2, Zenon
  <2>3. timerLeft \in 0..TimeoutTicks /\ deadlineLeft \in 0..TimeoutTicks
    BY TicksArePositive DEF AdapterInv, TypeOK
  <2>4. CASE \E code \in Errors \cup {"ok"} : Settle(code) /\ UNCHANGED timerLeft
    BY <1>1, <2>1, <2>2, <2>3, <2>4, SettlePreserves DEF client
  <2>5. CASE /\ phase = "reading" /\ deadlineLeft > 0
             /\ Wait(Min2(IntervalTicks, deadlineLeft))
    <3>1. Min2(IntervalTicks, deadlineLeft) \in 0..deadlineLeft
      BY <2>3, <2>5, TicksArePositive DEF Min2
    <3> QED BY <1>1, <2>1, <2>2, <2>3, <2>5, <3>1, TicksArePositive
            DEF Wait, AdapterInv, TypeOK, InTime, FailureKnown, CallKnown
  <2>6. CASE UNCHANGED <<phase, timerLeft, result, honest, confirmed>>
    BY <1>1, <2>1, <2>6 DEF AdapterInv, TypeOK, InTime, FailureKnown, CallKnown
  <2> QED
    <3>1. failure # "none" => failure \in Errors \cup {"ok"}
      BY DEF AdapterInv, FailureKnown
    <3>2. {"callback_error", "invalid_response", "timeout", "ok"} \subseteq Errors \cup {"ok"}
      BY DEF Errors
    <3> QED BY <1>3, <2>4, <2>5, <2>6, <3>1, <3>2 DEF HostAnswers, Answered
<1>4. CASE HostForgets
  <2>1. honest' \in BOOLEAN
    <3>1. honest \in BOOLEAN
      BY DEF AdapterInv, TypeOK
    <3>2. honest' = (honest /\ Head(natives).call # call)
      BY <1>4 DEF HostForgets
    <3> QED BY <3>1, <3>2, Zenon
  <2>2. value' \in Stored
    BY <1>4 DEF HostForgets, Restored, AdapterInv, TypeOK
  <2> QED BY <1>1, <1>4, <2>1, <2>2 DEF HostForgets, AdapterInv, TypeOK, InTime, FailureKnown, CallKnown
<1> QED BY <1>2, <1>3, <1>4 DEF Host

LEMMA ClockPreserves ==
  ASSUME AdapterInv, Timers \/ Tick
  PROVE  AdapterInv'
<1>1. CASE ReadTimesOut
  <2>1. honest' \in BOOLEAN /\ value' \in Stored /\ natives' \in Seq(Natives)
    BY <1>1 DEF ReadTimesOut, AdapterInv, TypeOK
  <2>2. "timeout" \in Errors \cup {"ok"}
    BY DEF Errors
  <2> QED BY <1>1, <2>1, <2>2, SettlePreserves, TicksArePositive DEF ReadTimesOut, clock
<1>2. CASE NextRead
  <2>1. timerLeft = 0 /\ elapsed \in Nat /\ elapsed <= TimeoutTicks /\ call \in 0..MaxCalls
    BY <1>2 DEF NextRead, AdapterInv, TypeOK, InTime
  <2>2. CASE natives' = Append(natives, Get(call)) /\ StartRead /\ UNCHANGED <<result, honest, confirmed>>
    <3>1. call \in Calls
      BY <2>1, <1>2, TicksArePositive DEF Calls, NextRead, AdapterInv, CallKnown
    <3>2. natives' \in Seq(Natives)
      BY <2>2, <3>1, NativesTyped DEF AdapterInv, TypeOK, Stored
    <3> QED BY <1>2, <2>1, <2>2, <3>2, TicksArePositive
            DEF NextRead, StartRead, client, AdapterInv, TypeOK, InTime, FailureKnown, CallKnown
  <2>3. CASE Settle("call_failed") /\ honest' = FALSE /\ UNCHANGED <<natives, timerLeft>>
    <3>1. honest' \in BOOLEAN /\ value' \in Stored /\ natives' \in Seq(Natives)
      BY <1>2, <2>3 DEF NextRead, AdapterInv, TypeOK
    <3>2. "call_failed" \in Errors \cup {"ok"}
      BY DEF Errors
    <3> QED BY <1>2, <2>1, <2>3, <3>1, <3>2, SettlePreserves, TicksArePositive DEF NextRead
  <2> QED BY <1>2, <2>2, <2>3 DEF NextRead
<1>3. CASE Tick
  <2>1. honest' \in BOOLEAN
    BY <1>3, Zenon DEF Tick
  <2> QED BY <1>3, <2>1, TicksArePositive
          DEF Tick, client, AdapterInv, TypeOK, InTime, FailureKnown, CallKnown
<1> QED BY <1>1, <1>2, <1>3 DEF Timers

LEMMA AdapterStep == AdapterInv /\ [Next]_vars => AdapterInv'
<1>1. ASSUME AdapterInv, UNCHANGED vars PROVE AdapterInv'
  BY <1>1 DEF vars, client, clock, AdapterInv, TypeOK, InTime, FailureKnown, CallKnown
<1> QED BY <1>1, CallPreserves, HostPreserves, ClockPreserves DEF Next

(* The inductive invariant holds in every reachable state, for every timeout and
   interval and whatever the host does. *)
THEOREM AdapterInductive == Spec => []AdapterInv
BY AdapterInit, AdapterStep, PTL DEF Spec

(* Every reachable state is well typed: no wait goes beyond the deadline. *)
THEOREM AdapterTypeCorrect == Spec => []TypeOK
BY AdapterInductive, PTL DEF AdapterInv

(* An operation of the adapter is over within two timeouts, for every timeout
   and interval, whatever the host drops, delays or reports. *)
THEOREM OperationsSettleInTime == Spec => []SettlesInTime
<1>1. AdapterInv => SettlesInTime
  BY TicksArePositive DEF AdapterInv, TypeOK, InTime, SettlesInTime
<1> QED BY <1>1, AdapterInductive, PTL

-----------------------------------------------------------------------------
(* The host performs the calls in their order: what a read of the current
   operation returns is not changed by any call before it any more. *)
Ordered(q, n) == \A i, j \in 1..Len(q) :
                   i < j /\ q[i].call = n /\ q[i].method # "mutate" => q[j].method = "get"

Numbered(q, n) == \A j \in 1..Len(q) : q[j].call <= n

OnlyGets(q) == \A j \in 1..Len(q) : q[j].method = "get"

OrderInv == /\ Ordered(natives, call) /\ Numbered(natives, call)
            /\ confirmed # "unknown" => value = confirmed /\ OnlyGets(natives)

LEMMA TailOrder ==
  ASSUME NEW q \in Seq(Natives), q # <<>>, NEW n \in Nat, Ordered(q, n), Numbered(q, n)
  PROVE  /\ Ordered(Tail(q), n) /\ Numbered(Tail(q), n)
         /\ OnlyGets(q) => OnlyGets(Tail(q))
         /\ Head(q).call = n /\ Head(q).method # "mutate" => OnlyGets(Tail(q))
<1>1. /\ Len(q) \in Nat /\ Len(q) >= 1 /\ Len(Tail(q)) = Len(q) - 1 /\ Head(q) = q[1]
      /\ \A j \in 1..Len(Tail(q)) : Tail(q)[j] = q[j + 1] /\ j + 1 \in 1..Len(q) /\ 1 < j + 1
  OBVIOUS
<1> QED BY <1>1 DEF Ordered, Numbered, OnlyGets

(* A call appended under the current number, or a new one *)
LEMMA AppendOrder ==
  ASSUME NEW q \in Seq(Natives), NEW n \in Nat, Ordered(q, n), Numbered(q, n),
         NEW e \in Natives, e.call \in {n, n + 1}, e.call = n => e.method = "get"
  PROVE  /\ Ordered(Append(q, e), e.call) /\ Numbered(Append(q, e), e.call)
         /\ OnlyGets(q) /\ e.method = "get" => OnlyGets(Append(q, e))
<1>1. /\ Len(q) \in Nat /\ Len(Append(q, e)) = Len(q) + 1 /\ Append(q, e)[Len(q) + 1] = e
      /\ \A j \in 1..Len(q) : Append(q, e)[j] = q[j]
  OBVIOUS
<1>2. \A j \in 1..Len(q) : q[j] \in Natives /\ q[j].call \in Nat /\ q[j].call <= n
  <2>1. \A j \in 1..Len(q) : q[j] \in Natives
    BY <1>1
  <2> QED BY <2>1, TicksArePositive DEF Natives, Calls, Numbered
<1>3. \A j \in 1..(Len(q) + 1) : j \in 1..Len(q) \/ j = Len(q) + 1
  BY <1>1
<1>4. Numbered(Append(q, e), e.call)
  BY <1>1, <1>2, <1>3 DEF Numbered
<1>5. Ordered(Append(q, e), e.call)
  <2>1. CASE e.call = n
    BY <1>1, <1>3, <2>1 DEF Ordered
  <2>2. CASE e.call = n + 1
    <3>1. \A i \in 1..Len(q) : q[i].call # e.call
      BY <1>2, <2>2
    <3> QED BY <1>1, <1>3, <3>1 DEF Ordered
  <2> QED BY <2>1, <2>2
<1> QED BY <1>1, <1>3, <1>4, <1>5 DEF OnlyGets

LEMMA OrderCalls ==
  ASSUME AdapterInv, OrderInv,
         CallGet \/ CallRestore \/ CallThrows \/ \E v \in Stored : CallMutate(v)
  PROVE  OrderInv'
<1>1. natives \in Seq(Natives) /\ call \in Nat
  BY TicksArePositive DEF AdapterInv, TypeOK
<1>2. CASE CallGet
  <2>1. call + 1 \in Calls /\ call' = call + 1
    BY <1>1, <1>2, TicksArePositive DEF CallGet, Calls
  <2>2. Get(call + 1) \in Natives /\ Get(call + 1).call = call + 1 /\ Get(call + 1).method = "get"
    BY <2>1, NativesTyped DEF Get, Stored
  <2> QED BY <1>1, <1>2, <2>1, <2>2, AppendOrder DEF CallGet, OrderInv
<1>3. CASE CallRestore
  <2>1. call + 1 \in Calls /\ call' = call + 1
    BY <1>1, <1>3, TicksArePositive DEF CallRestore, Calls
  <2>2. Restore(call + 1) \in Natives /\ Restore(call + 1).call = call + 1
    BY <2>1, NativesTyped DEF Restore, Stored
  <2>3. call + 1 # call
    BY <1>1
  <2> QED BY <1>1, <1>3, <2>1, <2>2, <2>3, AppendOrder DEF CallRestore, OrderInv
<1>4. CASE CallThrows
  <2>1. call + 1 \in Calls /\ call' = call + 1 /\ call + 1 # call
    BY <1>1, <1>4, TicksArePositive DEF CallThrows, Calls
  <2>2. PICK k \in Kinds, v \in Stored, thrower \in Kinds :
          /\ thrower # k => k = "mutate" /\ thrower = "get"
          /\ natives' = IF k # thrower THEN Append(natives, Mutation(call + 1, v)) ELSE natives
          /\ confirmed' = IF k = "mutate" THEN "unknown" ELSE confirmed
    BY <1>4 DEF CallThrows
  <2>3. Mutation(call + 1, v) \in Natives /\ Mutation(call + 1, v).call = call + 1
    BY <2>1, NativesTyped DEF Mutation
  <2>4. CASE k # thrower
    BY <1>1, <2>1, <2>2, <2>3, <2>4, AppendOrder DEF OrderInv
  <2>5. CASE k = thrower
    <3>1. \A j \in 1..Len(natives) : natives[j].call \in Nat /\ natives[j].call <= call
      <4>1. \A j \in 1..Len(natives) : natives[j] \in Natives
        BY <1>1
      <4> QED BY <4>1, TicksArePositive DEF OrderInv, Numbered, Natives, Calls
    <3>2. Ordered(natives, call + 1) /\ Numbered(natives, call + 1)
      BY <1>1, <3>1 DEF Ordered, Numbered
    <3> QED BY <1>4, <2>1, <2>2, <2>5, <3>2 DEF CallThrows, OrderInv
  <2> QED BY <2>4, <2>5
<1>5. ASSUME NEW v \in Stored, CallMutate(v) PROVE OrderInv'
  <2>1. call + 1 \in Calls /\ call' = call + 1 /\ call + 1 # call /\ call + 1 \in Nat
    BY <1>1, <1>5, TicksArePositive DEF CallMutate, Calls
  <2>2. /\ Mutation(call + 1, v) \in Natives /\ Mutation(call + 1, v).call = call + 1
        /\ Get(call + 1) \in Natives /\ Get(call + 1).call = call + 1
        /\ Get(call + 1).method = "get"
    BY <2>1, NativesTyped DEF Mutation, Get
  <2> DEFINE q == Append(natives, Mutation(call + 1, v))
  <2>3. q \in Seq(Natives) /\ natives' = Append(q, Get(call + 1))
    BY <1>1, <1>5, <2>1, <2>2 DEF CallMutate
  <2>4. Ordered(q, call + 1) /\ Numbered(q, call + 1)
    BY <1>1, <2>1, <2>2, AppendOrder DEF OrderInv
  <2>5. Ordered(natives', call + 1) /\ Numbered(natives', call + 1)
    <3> HIDE DEF q
    <3> QED BY <2>1, <2>2, <2>3, <2>4, AppendOrder
  <2> QED BY <1>5, <2>1, <2>5 DEF CallMutate, OrderInv
<1> QED BY <1>2, <1>3, <1>4, <1>5

LEMMA OrderHost ==
  ASSUME AdapterInv, OrderInv, Host
  PROVE  OrderInv'
<1>1. natives \in Seq(Natives) /\ call \in Nat /\ natives # <<>> /\ natives' = Tail(natives)
      /\ call' = call /\ kind' = kind /\ goal' = goal
  BY TicksArePositive
  DEF Host, HostMutates, HostAnswers, HostForgets, Served, client, AdapterInv, TypeOK
<1>2. /\ Ordered(natives', call') /\ Numbered(natives', call')
      /\ OnlyGets(natives) => OnlyGets(natives')
      /\ Head(natives).call = call /\ Head(natives).method # "mutate" => OnlyGets(natives')
  BY <1>1, TailOrder DEF OrderInv
<1>3. OnlyGets(natives) => Head(natives).method = "get"
  BY <1>1 DEF OnlyGets
<1>4. CASE HostMutates
  BY <1>2, <1>3, <1>4 DEF HostMutates, OrderInv
<1>5. CASE HostForgets
  BY <1>2, <1>3, <1>5 DEF HostForgets, Restored, OrderInv
<1>6. CASE HostAnswers
  <2>1. Head(natives).method = "get" => value' = value
    BY <1>6 DEF HostAnswers, Restored
  <2>2. confirmed' = confirmed \/ (confirmed' = goal /\ Head(natives).method # "mutate" /\ value' = goal
                                  /\ Head(natives).call = call)
    <3>1. failure # "ok"
      BY DEF AdapterInv, TypeOK
    <3>2. Head(natives).method # "mutate"
      BY <1>6 DEF HostAnswers, Reads
    <3>3. CASE UNCHANGED confirmed
      BY <3>3
    <3>4. CASE Head(natives).call = call /\ Answered(value')
      BY <3>1, <3>2, <3>4 DEF Answered, Settle, Wait
    <3>5. CASE \E code \in {"callback_error", "invalid_response"} : Settle(code)
      BY <3>5 DEF Settle
    <3> QED BY <1>6, <3>3, <3>4, <3>5 DEF HostAnswers, Own
  <2>3. CASE confirmed' = confirmed
    BY <1>2, <1>3, <2>1, <2>3 DEF OrderInv
  <2>4. CASE confirmed' = goal /\ Head(natives).method # "mutate" /\ value' = goal
             /\ Head(natives).call = call
    BY <1>2, <2>4 DEF OrderInv
  <2> QED BY <2>2, <2>3, <2>4
<1> QED BY <1>4, <1>5, <1>6 DEF Host

LEMMA OrderStep ==
  AdapterInv /\ OrderInv /\ [Next]_vars => OrderInv'
<1> SUFFICES ASSUME AdapterInv, OrderInv, [Next]_vars
             PROVE  OrderInv'
  OBVIOUS
<1>1. CASE UNCHANGED vars
  BY <1>1 DEF vars, client, OrderInv
<1>2. CASE Timers
  <2>1. natives \in Seq(Natives) /\ call \in Nat /\ failure # "ok"
    BY TicksArePositive DEF AdapterInv, TypeOK
  <2>2. UNCHANGED <<call, value, confirmed>>
    BY <1>2 DEF Timers, ReadTimesOut, NextRead, Settle, client
  <2>3. CASE natives' = natives
    BY <2>2, <2>3 DEF OrderInv
  <2>4. CASE NextRead /\ natives' = Append(natives, Get(call))
    <3>1. call \in Calls
      BY <2>1, <2>4, TicksArePositive DEF NextRead, AdapterInv, CallKnown, Calls, TypeOK
    <3>2. Get(call) \in Natives /\ Get(call).call = call /\ Get(call).method = "get"
      BY <3>1, NativesTyped DEF Get, Stored
    <3> QED BY <2>1, <2>2, <2>4, <3>2, AppendOrder DEF OrderInv
  <2> QED BY <1>2, <2>3, <2>4 DEF Timers, ReadTimesOut, NextRead
<1>3. CASE Tick
  BY <1>3 DEF Tick, client, OrderInv
<1> QED BY <1>1, <1>2, <1>3, OrderCalls, OrderHost DEF Next

(* What a mutation confirmed is what the medium holds until the next mutation or
   restore is called, whatever the host performs late of the operations given up:
   it rests on the host performing the calls on a key in their order. *)
THEOREM ConfirmedValuesStay == Spec => []ConfirmedStays
<1>1. Init => OrderInv
  BY DEF Init, OrderInv, Ordered, Numbered, OnlyGets
<1>2. OrderInv => ConfirmedStays
  BY DEF OrderInv, ConfirmedStays
<1> QED BY <1>1, <1>2, OrderStep, AdapterInductive, PTL DEF Spec

-----------------------------------------------------------------------------
(* The last call in q that can change the key is the operation's own, or there is
   none and the key holds what the operation is to leave. *)
OwnLast(q, v) == \/ OnlyGets(q) /\ v = goal
                 \/ \E i \in 1..Len(q) :
                      /\ q[i] = Mutation(call, goal)
                      /\ \A j \in 1..Len(q) : i < j => q[j].method = "get"

(* An operation served at once and truthfully is reading for the first time. *)
HonestInv ==
  /\ HonestSucceeds
  /\ honest /\ phase # "idle" =>
       /\ phase = "reading" /\ timerLeft = TimeoutTicks /\ failure = "none"
       /\ kind = "mutate" => OwnLast(natives, value)

LEMMA TailOwnLast ==
  ASSUME NEW q \in Seq(Natives), q # <<>>, NEW v, NEW w, OwnLast(q, v),
         Head(q).method = "get" => w = v,
         Head(q) = Mutation(call, goal) => w = goal
  PROVE  OwnLast(Tail(q), w)
<1>1. /\ Len(q) \in Nat /\ Len(q) >= 1 /\ Len(Tail(q)) = Len(q) - 1 /\ Head(q) = q[1]
      /\ \A j \in 1..Len(Tail(q)) : Tail(q)[j] = q[j + 1] /\ j + 1 \in 1..Len(q) /\ 1 < j + 1
  OBVIOUS
<1>2. CASE OnlyGets(q) /\ v = goal
  BY <1>1, <1>2 DEF OnlyGets, OwnLast
<1>3. ASSUME NEW i \in 1..Len(q), q[i] = Mutation(call, goal),
             \A j \in 1..Len(q) : i < j => q[j].method = "get"
      PROVE  OwnLast(Tail(q), w)
  <2>1. CASE i = 1
    BY <1>1, <1>3, <2>1 DEF OnlyGets, OwnLast
  <2>2. CASE i > 1
    <3>1. i - 1 \in 1..Len(Tail(q)) /\ Tail(q)[i - 1] = Mutation(call, goal)
      BY <1>1, <1>3, <2>2
    <3>2. \A j \in 1..Len(Tail(q)) : i - 1 < j => Tail(q)[j].method = "get"
      BY <1>1, <1>3
    <3> QED BY <3>1, <3>2 DEF OwnLast
  <2> QED BY <2>1, <2>2
<1> QED BY <1>2, <1>3 DEF OwnLast

LEMMA HonestHost ==
  ASSUME AdapterInv, OrderInv, HonestInv, Host
  PROVE  HonestInv'
<1>1. natives \in Seq(Natives) /\ natives # <<>> /\ natives' = Tail(natives)
      /\ call' = call /\ kind' = kind /\ goal' = goal
  BY DEF Host, HostMutates, HostAnswers, HostForgets, Served, client, AdapterInv, TypeOK
<1>2. CASE ~honest'
  BY <1>2 DEF HonestInv, HonestSucceeds
<1>3. CASE HostMutates /\ honest'
  <2>1. PICK done \in BOOLEAN, report \in {"none", "not_confirmed", "callback_error"} :
          /\ value' = IF done THEN Head(natives).value ELSE value
          /\ failure' = IF Own(Head(natives)) /\ report # "none" THEN report ELSE failure
          /\ honest' = (honest /\ (Head(natives).call = call => done /\ report = "none"))
    BY <1>3 DEF HostMutates
  <2>2. honest /\ (Head(natives).call = call => done /\ report = "none")
    BY <1>3, <2>1, Zenon
  <2>3. failure' = failure
    BY <2>1, <2>2 DEF Own
  <2>4. UNCHANGED <<phase, timerLeft, result>> /\ Head(natives).method = "mutate"
    BY <1>3 DEF HostMutates
  <2>5. Head(natives) = Mutation(call, goal) => value' = goal
    BY <2>1, <2>2 DEF Mutation
  <2>6. OwnLast(natives, value) => OwnLast(natives', value')
    BY <1>1, <2>4, <2>5, TailOwnLast
  <2> QED BY <1>1, <2>2, <2>3, <2>4, <2>6 DEF HonestInv, HonestSucceeds, OwnLast
<1>4. CASE HostForgets /\ honest'
  <2>1. honest /\ UNCHANGED <<phase, failure, timerLeft, result>>
        /\ Head(natives).method \in {"get", "restore"}
        /\ (Head(natives).method = "get" => value' = value)
    <3>1. honest
      BY <1>4, Zenon DEF HostForgets
    <3> QED BY <1>4, <3>1 DEF HostForgets, Restored, Reads
  <2>2. OwnLast(natives, value) => OwnLast(natives', value')
    BY <1>1, <2>1, TailOwnLast DEF Mutation
  <2> QED BY <1>1, <2>1, <2>2 DEF HonestInv, HonestSucceeds, OwnLast
<1>5. CASE HostAnswers /\ honest'
  <2>1. Head(natives).method \in {"get", "restore"} /\ failure' = failure
        /\ (Head(natives).method = "get" => value' = value)
    BY <1>5 DEF HostAnswers, Restored, Reads
  <2>2. OwnLast(natives, value) => OwnLast(natives', value')
    BY <1>1, <2>1, TailOwnLast DEF Mutation
  <2>3. CASE UNCHANGED <<phase, timerLeft, result, honest, confirmed>>
    BY <1>1, <1>5, <2>1, <2>2, <2>3 DEF HonestInv, HonestSucceeds, OwnLast
  <2>4. CASE Own(Head(natives)) /\ phase = "reading" /\ Answered(value') /\ UNCHANGED honest
    <3>1. honest /\ failure = "none" /\ (kind = "mutate" => OwnLast(natives, value))
      BY <1>5, <2>4 DEF HonestInv, Own
    <3>2. ASSUME kind = "mutate" PROVE value' = goal
      <4>1. CASE OnlyGets(natives) /\ value = goal
        <5>1. Head(natives) = natives[1] /\ 1 \in 1..Len(natives)
          BY <1>1
        <5> QED BY <2>1, <4>1, <5>1 DEF OnlyGets
      <4>2. ASSUME NEW i \in 1..Len(natives), natives[i] = Mutation(call, goal)
            PROVE  FALSE
        <5>1. Head(natives) = natives[1] /\ 1 \in 1..Len(natives) /\ natives[i].method = "mutate"
          BY <1>1, <4>2 DEF Mutation
        <5>2. i # 1 /\ 1 < i
          BY <2>1, <5>1
        <5> QED BY <2>1, <2>4, <5>1, <5>2 DEF OrderInv, Ordered, Own
      <4> QED BY <3>1, <3>2, <4>1, <4>2 DEF OwnLast
    <3>3. Settle("ok")
      BY <2>4, <3>2 DEF Answered, AdapterInv, TypeOK, Kinds, Reads
    <3> QED BY <3>3 DEF Settle, HonestInv, HonestSucceeds
  <2>5. CASE Own(Head(natives)) /\ honest' = (honest /\ Head(natives).call # call)
    <3>1. ~honest'
      BY <2>5, Zenon DEF Own
    <3> QED BY <1>5, <3>1
  <2> QED BY <1>5, <2>3, <2>4, <2>5 DEF HostAnswers
<1> QED BY <1>2, <1>3, <1>4, <1>5 DEF Host

LEMMA HonestStep ==
  AdapterInv /\ OrderInv /\ HonestInv /\ [Next]_vars => HonestInv'
<1> SUFFICES ASSUME AdapterInv, OrderInv, HonestInv, [Next]_vars
             PROVE  HonestInv'
  OBVIOUS
<1>1. CASE UNCHANGED vars
  BY <1>1 DEF vars, client, clock, HonestInv, HonestSucceeds, OwnLast
<1>2. CASE CallGet \/ CallRestore
  BY <1>2 DEF CallGet, CallRestore, StartRead, HonestInv, HonestSucceeds
<1>3. CASE CallThrows
  BY <1>3 DEF CallThrows, HonestInv, HonestSucceeds
<1>4. ASSUME NEW v \in Stored, CallMutate(v) PROVE HonestInv'
  <2>1. natives \in Seq(Natives) /\ natives' = natives \o <<Mutation(call', v), Get(call')>>
        /\ goal' = v /\ phase' = "reading" /\ timerLeft' = TimeoutTicks /\ failure' = "none"
    BY <1>4 DEF CallMutate, StartRead, AdapterInv, TypeOK
  <2>2. /\ Len(natives) \in Nat /\ Len(natives') = Len(natives) + 2
        /\ natives'[Len(natives) + 1] = Mutation(call', v)
        /\ natives'[Len(natives) + 2] = Get(call')
    BY <2>1
  <2>3. Len(natives) + 1 \in 1..Len(natives')
        /\ \A j \in 1..Len(natives') : Len(natives) + 1 < j => natives'[j].method = "get"
    BY <2>2 DEF Get
  <2> QED BY <2>1, <2>2, <2>3 DEF HonestInv, HonestSucceeds, OwnLast
<1>5. CASE Timers
  <2>1. ~honest \/ ~honest'
    BY <1>5, TicksArePositive DEF Timers, ReadTimesOut, NextRead, HonestInv
  <2>2. honest' => honest
    BY <1>5 DEF Timers, ReadTimesOut, NextRead
  <2> QED BY <2>1, <2>2 DEF HonestInv, HonestSucceeds
<1>6. CASE Tick
  BY <1>6 DEF Tick, HonestInv, HonestSucceeds
<1> QED BY <1>1, <1>2, <1>3, <1>4, <1>5, <1>6, HonestHost DEF Next

(* An operation that the host serves at once and truthfully succeeds, whatever is
   still performed of the operations before it. *)
THEOREM HonestHostBelieved == Spec => []HonestSucceeds
<1>1. Init => OrderInv
  BY DEF Init, OrderInv, Ordered, Numbered, OnlyGets
<1>2. Init => HonestInv
  BY DEF Init, HonestInv, HonestSucceeds
<1>3. HonestInv => HonestSucceeds
  BY DEF HonestInv
<1> QED BY <1>1, <1>2, <1>3, OrderStep, HonestStep, AdapterInductive, PTL DEF Spec

=============================================================================
