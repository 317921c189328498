----------------------------- MODULE StorageAdapter -----------------------------
(***************************************************************************)
(* The adapter between the client and the host's callback storage           *)
(* (web/src/storage.js), on one key: invoke with its timeout, and the loop   *)
(* that calls a mutation and reads the key back until it shows the value.   *)
(*                                                                          *)
(* The host performs the calls it was given in their order, each at a time  *)
(* of its choosing or never; it may drop a mutation, answer with an error   *)
(* whatever it did, or not answer.                                          *)
(***************************************************************************)
EXTENDS Naturals, Sequences

CONSTANTS
  Values,         \* the strings a key can hold
  TimeoutTicks,   \* DEFAULT_TIMEOUT_MS
  IntervalTicks,  \* VERIFY_INTERVAL_MS
  MaxCalls,       \* how many operations the client calls
  None            \* no value: the key is absent

ASSUME TicksAssumption == /\ TimeoutTicks \in Nat \ {0}
                          /\ IntervalTicks \in 1..TimeoutTicks
                          /\ MaxCalls \in Nat
ASSUME NoneAssumption == None \notin Values

Stored == Values \cup {None}
Calls == 1..MaxCalls
Errors == {"callback_error", "call_failed", "invalid_response", "not_confirmed",
           "timeout"}

Reads == {"get", "restore"}
Kinds == Reads \cup {"mutate"}
Natives == [method : Kinds, call : Calls, value : Stored]

VARIABLES
  value,         \* what the host's medium holds
  natives,       \* the native calls the host has taken and not performed
  call,          \* number of the operation under way, or of the last one
  phase,         \* what the operation waits for
  kind, goal,    \* "mutate" and the value it is to leave, "get" or "restore"
  failure,       \* callbackFailure
  deadlineLeft,  \* until the deadline of the verify loop
  timerLeft,     \* until the read times out or the next read is due
  result,        \* of the last operation
  elapsed,       \* since the operation was called
  honest,        \* the host has served the operation at once and truthfully
  confirmed      \* what the last mutation confirmed, "unknown" after a failure

client == <<call, kind, goal>>
clock == <<deadlineLeft, timerLeft, elapsed>>
vars == <<value, natives, client, phase, failure, clock, result, honest, confirmed>>

Min2(a, b) == IF a < b THEN a ELSE b

Restore(n) == [method |-> "restore", call |-> n, value |-> None]
Get(n) == [method |-> "get", call |-> n, value |-> None]
Mutation(n, v) == [method |-> "mutate", call |-> n, value |-> v]

-----------------------------------------------------------------------------
Init == /\ value = None /\ natives = <<>>
        /\ call = 0 /\ phase = "idle" /\ kind = "get" /\ goal = None
        /\ failure = "none" /\ result = "none"
        /\ deadlineLeft = 0 /\ timerLeft = 0 /\ elapsed = 0
        /\ honest = TRUE /\ confirmed = "unknown"

Settle(code) ==
  /\ phase' = "idle"
  /\ result' = code
  /\ confirmed' = IF kind = "mutate" /\ code = "ok" THEN goal ELSE confirmed

(* getExisting: a native get with its own timeout. *)
StartRead == /\ phase' = "reading"
             /\ timerLeft' = TimeoutTicks

(* getExisting called by the client *)
CallGet ==
  /\ phase = "idle" /\ call < MaxCalls
  /\ call' = call + 1 /\ kind' = "get" /\ goal' = None /\ failure' = "none"
  /\ elapsed' = 0 /\ deadlineLeft' = 0 /\ honest' = TRUE
  /\ natives' = Append(natives, Get(call'))
  /\ StartRead
  /\ UNCHANGED <<value, result, confirmed>>

(* restoreExplicitly on the secure storage: the host may put back a value that
   was there before. *)
CallRestore ==
  /\ phase = "idle" /\ call < MaxCalls
  /\ call' = call + 1 /\ kind' = "restore" /\ goal' = None /\ failure' = "none"
  /\ elapsed' = 0 /\ deadlineLeft' = 0 /\ honest' = TRUE
  /\ natives' = Append(natives, Restore(call'))
  /\ StartRead
  /\ confirmed' = "unknown"
  /\ UNCHANGED <<value, result>>

(* setVerified, and removeVerified with nothing as the goal: the mutation and
   the first read are called at once. *)
CallMutate(v) ==
  /\ phase = "idle" /\ call < MaxCalls
  /\ call' = call + 1 /\ kind' = "mutate" /\ goal' = v /\ failure' = "none"
  /\ elapsed' = 0 /\ deadlineLeft' = TimeoutTicks /\ honest' = TRUE
  /\ natives' = natives \o <<Mutation(call', v), Get(call')>>
  /\ StartRead
  /\ confirmed' = "unknown"
  /\ UNCHANGED <<value, result>>

\* The host throws: on a mutation nothing is called, on a read it fails.  So does
\* a restore on the device storage, which does not know it.
CallThrows ==
  /\ phase = "idle" /\ call < MaxCalls
  /\ \E k \in Kinds, v \in Stored, thrower \in Kinds :
       /\ thrower # k => k = "mutate" /\ thrower = "get"
       /\ k # "mutate" => v = None
       /\ kind' = k /\ goal' = v
       /\ natives' = IF k # thrower THEN Append(natives, Mutation(call + 1, v)) ELSE natives
       /\ confirmed' = IF k = "mutate" THEN "unknown" ELSE confirmed
  /\ call' = call + 1 /\ failure' = "none" /\ honest' = FALSE
  /\ result' = "call_failed"
  /\ UNCHANGED <<value, phase, clock>>

-----------------------------------------------------------------------------
\* Mutant: the read is not compared, the host's word is taken.
AnsweredTrusting(v) ==
  /\ kind = "mutate"
  /\ Settle(IF failure = "none" THEN "ok" ELSE failure)
  /\ UNCHANGED timerLeft

(* delay: the loop sleeps before its next read. *)
Wait(ticks) == /\ phase' = "waiting" /\ timerLeft' = ticks
               /\ UNCHANGED <<result, confirmed>>

\* Mutant: the loop waits a whole interval, whatever is left of the deadline.
AnsweredWholeInterval(v) ==
  IF kind # "mutate" \/ v = goal
  THEN Settle("ok") /\ UNCHANGED timerLeft
  ELSE \/ failure # "none" /\ Settle(failure) /\ UNCHANGED timerLeft
       \/ failure = "none" /\ deadlineLeft = 0 /\ Settle("timeout") /\ UNCHANGED timerLeft
       \/ failure = "none" /\ deadlineLeft > 0 /\ Wait(IntervalTicks)

(* What the operation does with the value v that its read returned. *)
Answered(v) ==
  IF kind # "mutate" \/ v = goal
  THEN Settle("ok") /\ UNCHANGED timerLeft
  ELSE \/ failure # "none" /\ Settle(failure) /\ UNCHANGED timerLeft
       \/ failure = "none" /\ deadlineLeft = 0 /\ Settle("timeout") /\ UNCHANGED timerLeft
       \/ failure = "none" /\ deadlineLeft > 0 /\ Wait(Min2(IntervalTicks, deadlineLeft))

\* Mutant: a late callback is not told from the current operation's.
OwnAny(n) == phase # "idle"

\* The callback belongs to the operation under way, not to one already settled.
Own(n) == n.call = call /\ phase # "idle"

Served == natives' = Tail(natives) /\ UNCHANGED <<client, deadlineLeft, elapsed>>

(* The host performs or drops a mutation, and reports success, a refusal, an
   error, or nothing. *)
HostMutates ==
  /\ natives # <<>> /\ Head(natives).method = "mutate"
  /\ LET n == Head(natives) IN
     \E done \in BOOLEAN, report \in {"none", "not_confirmed", "callback_error"} :
       /\ value' = IF done THEN n.value ELSE value
       /\ failure' = IF Own(n) /\ report # "none" THEN report ELSE failure
       /\ honest' = (honest /\ (n.call = call => done /\ report = "none"))
  /\ Served
  /\ UNCHANGED <<phase, timerLeft, result, confirmed>>

\* A restore leaves whatever the host kept.
Restored == value' \in IF Head(natives).method = "restore" THEN Stored ELSE {value}

(* The host answers a read: with the value, an error, or something that is no
   string; an answer to a read that was given up changes nothing. *)
HostAnswers ==
  /\ natives # <<>> /\ Head(natives).method \in Reads
  /\ Restored
  /\ IF Own(Head(natives)) /\ phase = "reading"
     THEN \/ Answered(value') /\ UNCHANGED honest
          \/ /\ \E code \in {"callback_error", "invalid_response"} : Settle(code)
             /\ honest' = (honest /\ Head(natives).call # call)
             /\ UNCHANGED timerLeft
     ELSE UNCHANGED <<phase, timerLeft, result, honest, confirmed>>
  /\ Served
  /\ UNCHANGED failure

\* The host never answers the read.
HostForgets ==
  /\ natives # <<>> /\ Head(natives).method \in Reads
  /\ Restored
  /\ honest' = (honest /\ Head(natives).call # call)
  /\ Served
  /\ UNCHANGED <<phase, failure, timerLeft, result, confirmed>>

\* Mutant: the reads of the verify loop have no timeout.
ReadTimesOutOfGet ==
  /\ phase = "reading" /\ timerLeft = 0 /\ kind # "mutate"
  /\ Settle("timeout")
  /\ UNCHANGED <<value, natives, client, failure, clock, honest>>

(* The timeout of invoke *)
ReadTimesOut ==
  /\ phase = "reading" /\ timerLeft = 0
  /\ Settle("timeout")
  /\ UNCHANGED <<value, natives, client, failure, clock, honest>>

(* The next read of the verify loop, which may throw. *)
NextRead ==
  /\ phase = "waiting" /\ timerLeft = 0
  /\ \/ /\ natives' = Append(natives, Get(call))
        /\ StartRead
        /\ UNCHANGED <<result, honest, confirmed>>
     \/ Settle("call_failed") /\ honest' = FALSE /\ UNCHANGED <<natives, timerLeft>>
  /\ UNCHANGED <<value, client, failure, deadlineLeft, elapsed>>

Tick ==
  /\ phase # "idle" /\ timerLeft > 0
  /\ timerLeft' = timerLeft - 1
  /\ deadlineLeft' = IF deadlineLeft > 0 THEN deadlineLeft - 1 ELSE 0
  /\ elapsed' = elapsed + 1
  /\ honest' = FALSE
  /\ UNCHANGED <<value, natives, client, phase, failure, result, confirmed>>

Timers == ReadTimesOut \/ NextRead
Host == HostMutates \/ HostAnswers \/ HostForgets

Next == \/ CallGet \/ CallRestore \/ CallThrows
        \/ \E v \in Stored : CallMutate(v)
        \/ Host \/ Timers \/ Tick

\* Time passes and timers fire; nothing is asked of the host.
Fairness == WF_vars(Timers) /\ WF_vars(Tick)

Spec == Init /\ [][Next]_vars /\ Fairness

-----------------------------------------------------------------------------
TypeOK == /\ value \in Stored /\ natives \in Seq(Natives)
          /\ call \in 0..MaxCalls
          /\ phase \in {"idle", "reading", "waiting"}
          /\ kind \in Kinds /\ goal \in Stored
          /\ failure \in {"none", "not_confirmed", "callback_error"}
          /\ deadlineLeft \in 0..TimeoutTicks
          /\ timerLeft \in 0..(IF phase = "waiting" THEN deadlineLeft ELSE TimeoutTicks)
          /\ result \in {"none", "ok"} \cup Errors
          /\ elapsed \in Nat /\ honest \in BOOLEAN
          /\ confirmed \in Stored \cup {"unknown"}

(* An operation is over within two timeouts, however the host behaves: the
   verify loop ends at its deadline, and the read begun then has one more. *)
SettlesInTime == phase # "idle" => elapsed <= 2 * TimeoutTicks

(* What a mutation confirmed is what the medium holds until the next mutation is
   called, also when mutations that were given up are performed late. *)
ConfirmedStays == confirmed # "unknown" => value = confirmed

(* An operation that the host serves at once and truthfully succeeds, whatever
   comes back late of the operations before it. *)
HonestSucceeds == phase = "idle" /\ call > 0 /\ honest => result = "ok"

(* Every operation settles, even when the host never calls back. *)
Settles == (phase # "idle") ~> (phase = "idle")

=============================================================================
