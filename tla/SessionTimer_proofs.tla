-------------------------- MODULE SessionTimer_proofs --------------------------
(***************************************************************************)
(* Proofs about SessionTimer: the armed timer, the deadline it guards, the  *)
(* bound on an idle session and the secret that only shows in front.        *)
(***************************************************************************)
EXTENDS SessionTimer, TLAPS

(* Without a session nothing is left of its timing. *)
NothingLeft == ~session => /\ lastSeen = None /\ expiresAt = None /\ timerLeft = None
                           /\ idle = 0 /\ setBack = 0

(* The wall clock has moved on since the last touch by the running time at
   least, less what it was set back ... *)
ClockKeepsUp == session => now + timeout + setBack >= expiresAt + idle

(* ... and so the timer is never armed for longer than the idle time that is
   still allowed. *)
TimerInTime == session => /\ lastSeen \in Times /\ expiresAt \in Times
                          /\ timerLeft \in Nat
                          /\ idle + timerLeft <= timeout + setBack

TimerInv == /\ TypeOK /\ NothingLeft /\ DeadlineNear
            /\ ClockKeepsUp /\ TimerInTime /\ SecretInFront

-----------------------------------------------------------------------------
LEMMA TimeoutsArePositive == \A m \in Timeouts : m \in Nat /\ m > 0
BY TimeoutsAssumption

LEMMA DelayIsRest ==
  ASSUME NEW t \in Nat, now \in Nat
  PROVE  Delay(t) \in Nat /\ (t > now => Delay(t) = t - now) /\ (t <= now => Delay(t) = 0)
BY DEF Delay

LEMMA TimerInit == Init => TimerInv
<1> SUFFICES ASSUME Init
             PROVE  TimerInv
  OBVIOUS
<1>1. TypeOK
  <2>1. now \in Times /\ screen \in Screens
    BY ClockAssumption DEF Init, Times, Screens
  <2>4. session \in BOOLEAN /\ inactive \in BOOLEAN /\ hidden \in BOOLEAN
    BY Zenon DEF Init
  <2>2. timeout \in Timeouts /\ idle \in Nat /\ setBack \in 0..MaxSetBack
    BY TimeoutsAssumption, ClockAssumption DEF Init
  <2>3. preference = None /\ lastSeen = None /\ expiresAt = None /\ timerLeft = None
        /\ revealLeft = None
    BY DEF Init
  <2> QED BY <2>1, <2>2, <2>3, <2>4 DEF TypeOK
<1>2. NothingLeft /\ DeadlineNear /\ ClockKeepsUp /\ TimerInTime /\ SecretInFront
  BY DEF Init, NothingLeft, DeadlineNear, ClockKeepsUp, TimerInTime, SecretInFront
<1> QED BY <1>1, <1>2 DEF TimerInv

(* Ending a session establishes everything about timing. *)
LEMMA EndPreserves ==
  ASSUME TimerInv, NEW scr \in Screens, End(scr),
         now' \in Times, timeout' \in Timeouts, preference' \in Timeouts \cup {None},
         inactive' \in BOOLEAN, hidden' \in BOOLEAN
  PROVE  TimerInv'
<1>1. TypeOK'
  <2>1. idle' \in Nat /\ setBack' \in 0..MaxSetBack /\ screen' \in Screens
    BY ClockAssumption DEF End
  <2>4. session' \in BOOLEAN
    BY Zenon DEF End
  <2>2. lastSeen' = None /\ expiresAt' = None /\ timerLeft' = None /\ revealLeft' = None
    BY DEF End
  <2> QED BY <2>1, <2>2, <2>4 DEF TypeOK
<1>2. NothingLeft' /\ DeadlineNear' /\ ClockKeepsUp' /\ TimerInTime' /\ SecretInFront'
  BY DEF End, NothingLeft, DeadlineNear, ClockKeepsUp, TimerInTime, SecretInFront
<1> QED BY <1>1, <1>2 DEF TimerInv

(* So does a touch, given that a revealed secret stays in front or goes. *)
LEMMA ProlongPreserves ==
  ASSUME TimerInv, session, NEW m \in Timeouts, Prolong(m), timeout' = m, now' = now,
         screen' \in Screens, preference' \in Timeouts \cup {None},
         inactive' \in BOOLEAN, hidden' \in BOOLEAN,
         revealLeft' \in 0..RevealTicks \cup {None}, SecretInFront'
  PROVE  TimerInv'
<1>1. now \in Nat /\ now \in Times /\ m \in Nat /\ m > 0 /\ now + m <= MaxNow
  BY ClockAssumption, TimeoutsArePositive DEF TimerInv, TypeOK, Times, Prolong
<1>2. now + m \in Times /\ Delay(now + m) = m
  BY <1>1, ClockAssumption, DelayIsRest DEF Times
<1>3. /\ session' /\ lastSeen' = now /\ expiresAt' = now + m /\ timerLeft' = m
      /\ idle' = 0 /\ setBack' = 0
  BY <1>2 DEF Prolong
<1>4. TypeOK'
  BY <1>1, <1>2, <1>3, ClockAssumption DEF TypeOK, TimerInv
<1>5. NothingLeft' /\ DeadlineNear' /\ ClockKeepsUp' /\ TimerInTime'
  BY <1>1, <1>2, <1>3 DEF NothingLeft, DeadlineNear, ClockKeepsUp, TimerInTime, Times
<1> QED BY <1>4, <1>5 DEF TimerInv

-----------------------------------------------------------------------------
LEMMA TouchesPreserve ==
  ASSUME TimerInv,
         \/ Activity \/ PasswordChanged \/ \E m \in Timeouts : SetTimeout(m)
         \/ TelegramDeactivated \/ TelegramActivated \/ VisibilityChange
  PROVE  TimerInv'
<1>0. /\ now \in Times /\ timeout \in Timeouts /\ preference \in Timeouts \cup {None}
      /\ inactive \in BOOLEAN /\ hidden \in BOOLEAN /\ screen \in Screens
      /\ revealLeft \in 0..RevealTicks \cup {None} /\ SecretInFront
  BY DEF TimerInv, TypeOK
<1>e. \A scr \in {"locked", "settings"} : scr \in Screens
  BY DEF Screens
<1>1. CASE Activity
  <2>1. CASE Trusted
    <3>1. SecretInFront'
      BY <1>0, <1>1, <2>1 DEF Activity, Prolong, SecretInFront, InFront, host
    <3> QED BY <1>0, <1>1, <2>1, <3>1, ProlongPreserves DEF Activity, settings, host
  <2>2. CASE ~Trusted
    BY <1>0, <1>e, <1>1, <2>2, EndPreserves DEF Activity, settings, host
  <2> QED BY <2>1, <2>2
<1>2. CASE PasswordChanged
  <2>1. CASE Trusted
    <3>1. SecretInFront' /\ screen' \in Screens
      BY <1>2, <2>1 DEF PasswordChanged, SecretInFront, Screens
    <3> QED BY <1>0, <1>2, <2>1, <3>1, ProlongPreserves DEF PasswordChanged, settings, host
  <2>2. CASE ~Trusted
    BY <1>0, <1>e, <1>2, <2>2, EndPreserves DEF PasswordChanged, settings, host
  <2> QED BY <2>1, <2>2
<1>3. ASSUME NEW m \in Timeouts, SetTimeout(m)
      PROVE  TimerInv'
  <2>0. preference' \in Timeouts \cup {None} /\ timeout' = m /\ now' = now
        /\ inactive' = inactive /\ hidden' = hidden
    BY <1>0, <1>3 DEF SetTimeout, host
  <2>1. CASE session /\ Trusted
    <3>1. SecretInFront'
      BY <1>0, <1>3, <2>0, <2>1 DEF SetTimeout, Prolong, SecretInFront, InFront
    <3> QED BY <1>0, <1>3, <2>0, <2>1, <3>1, ProlongPreserves DEF SetTimeout
  <2>2. CASE session /\ ~Trusted
    BY <1>0, <1>e, <1>3, <2>0, <2>2, EndPreserves DEF SetTimeout
  <2>3. CASE ~session
    BY <1>0, <1>3, <2>0, <2>3
       DEF SetTimeout, deadline, TimerInv, TypeOK, NothingLeft, DeadlineNear, ClockKeepsUp,
           TimerInTime, SecretInFront
  <2> QED BY <2>1, <2>2, <2>3
<1>4. ASSUME Deactivate, now' = now, timeout' = timeout, preference' = preference,
             hidden' \in BOOLEAN
      PROVE  TimerInv'
  <2>1. CASE session /\ ~inactive /\ Trusted
    <3>1. SecretInFront' /\ inactive' \in BOOLEAN
      BY <1>4, <2>1 DEF Deactivate, SecretInFront
    <3> QED BY <1>0, <1>4, <2>1, <3>1, ProlongPreserves DEF Deactivate
  <2>2. CASE session /\ ~inactive /\ ~Trusted
    BY <1>0, <1>e, <1>4, <2>2, EndPreserves DEF Deactivate
  <2>3. CASE ~session \/ inactive
    BY <1>0, <1>4, <2>3
       DEF Deactivate, deadline, TimerInv, TypeOK, NothingLeft, DeadlineNear, ClockKeepsUp,
           TimerInTime, SecretInFront, InFront
  <2> QED BY <2>1, <2>2, <2>3
<1>5. ASSUME Activate, now' = now, timeout' = timeout, preference' = preference,
             hidden' = FALSE
      PROVE  TimerInv'
  <2>1. CASE session /\ Trusted /\ ~Expired
    <3>1. SecretInFront' /\ inactive' \in BOOLEAN
      BY <1>0, <1>5, <2>1 DEF Activate, Prolong, SecretInFront, InFront
    <3> QED BY <1>0, <1>5, <2>1, <3>1, ProlongPreserves DEF Activate
  <2>2. CASE session /\ ~(Trusted /\ ~Expired)
    BY <1>0, <1>e, <1>5, <2>2, EndPreserves DEF Activate
  <2>3. CASE ~session
    BY <1>0, <1>5, <2>3
       DEF Activate, deadline, TimerInv, TypeOK, NothingLeft, DeadlineNear, ClockKeepsUp,
           TimerInTime, SecretInFront
  <2> QED BY <2>1, <2>2, <2>3
<1>6. CASE TelegramDeactivated
  BY <1>0, <1>4, <1>6 DEF TelegramDeactivated, settings
<1>7. CASE TelegramActivated
  BY <1>0, <1>5, <1>7 DEF TelegramActivated, settings
<1>8. CASE VisibilityChange
  BY <1>0, <1>4, <1>5, <1>8 DEF VisibilityChange, settings
<1> QED BY <1>1, <1>2, <1>3, <1>6, <1>7, <1>8

LEMMA TimersPreserve ==
  ASSUME TimerInv, TimerFires \/ Navigate
  PROVE  TimerInv'
<1>0. /\ now \in Times /\ now \in Nat /\ timeout \in Nat /\ setBack \in Nat /\ idle \in Nat
  BY ClockAssumption, TimeoutsArePositive DEF TimerInv, TypeOK, Times
<1>1. session
  BY ClockAssumption, NoneAssumption DEF TimerFires, Navigate, TimerInv, NothingLeft
<1>2. /\ expiresAt \in Times /\ expiresAt \in Nat /\ lastSeen \in Nat /\ timerLeft \in Nat
      /\ idle + timerLeft <= timeout + setBack
      /\ now + timeout + setBack >= expiresAt + idle
  BY <1>1, ClockAssumption DEF TimerInv, TimerInTime, ClockKeepsUp, Times
<1>3. Delay(expiresAt) \in Nat /\ idle + Delay(expiresAt) <= timeout + setBack
  BY <1>0, <1>2, DelayIsRest
<1>4. CASE TimerFires /\ Trusted /\ ~Expired
  <2>1. /\ lastSeen' = now /\ timerLeft' = Delay(expiresAt) /\ now < expiresAt
        /\ expiresAt <= now + timeout
        /\ UNCHANGED <<now, session, screen, expiresAt, revealLeft, idle, setBack, timeout,
                       preference, inactive, hidden>>
    <3>1. now >= lastSeen /\ now < expiresAt
      BY <1>0, <1>2, <1>4, NoneAssumption DEF Trusted, Expired
    <3>2. expiresAt <= lastSeen + timeout
      BY <1>1 DEF TimerInv, DeadlineNear
    <3>3. expiresAt <= now + timeout
      BY <1>0, <1>2, <3>1, <3>2
    <3> QED BY <1>4, <3>1, <3>3 DEF TimerFires, settings, host
  <2> QED BY <1>0, <1>1, <1>2, <1>3, <2>1
          DEF TimerInv, TypeOK, NothingLeft, DeadlineNear, ClockKeepsUp, TimerInTime,
              SecretInFront, InFront
<1>5. CASE TimerFires /\ ~(Trusted /\ ~Expired)
  <2>1. End("locked") /\ UNCHANGED <<now, timeout, preference, inactive, hidden>>
    BY <1>5 DEF TimerFires, settings, host
  <2>2. "locked" \in Screens
    BY DEF Screens
  <2> QED BY <2>1, <2>2, EndPreserves DEF TimerInv, TypeOK
<1>6. CASE Navigate
  <2>1. /\ timerLeft' = Delay(expiresAt) /\ screen' \in Screens /\ revealLeft' = None
        /\ UNCHANGED <<now, session, expiresAt, lastSeen, idle, setBack, timeout,
                       preference, inactive, hidden>>
    BY <1>6 DEF Navigate, settings, host, Screens
  <2> QED BY <1>0, <1>1, <1>2, <1>3, <2>1
          DEF TimerInv, TypeOK, NothingLeft, DeadlineNear, ClockKeepsUp, TimerInTime,
              SecretInFront
<1> QED BY <1>4, <1>5, <1>6

LEMMA ClocksPreserve ==
  ASSUME TimerInv, Tick \/ Suspend \/ SetClockBack
  PROVE  TimerInv'
<1>0. /\ now \in Times /\ now \in Nat /\ timeout \in Nat /\ setBack \in Nat /\ idle \in Nat
      /\ MaxNow \in Nat /\ MaxSetBack \in Nat /\ RevealTicks \in Nat
  BY ClockAssumption, TimeoutsArePositive, TimeoutsAssumption DEF TimerInv, TypeOK, Times
<1>1. session => /\ expiresAt \in Nat /\ expiresAt <= MaxNow /\ lastSeen \in Nat
                 /\ timerLeft \in Nat /\ idle + timerLeft <= timeout + setBack
                 /\ now + timeout + setBack >= expiresAt + idle
  BY <1>0 DEF TimerInv, TimerInTime, ClockKeepsUp, Times
<1>2. CASE Tick
  <2>1. /\ now' \in Times /\ now' \in Nat
        /\ (now < MaxNow => now' = now + 1) /\ (now >= MaxNow => now' = now)
        /\ UNCHANGED <<session, screen, timeout, preference, lastSeen, expiresAt, setBack,
                       inactive, hidden>>
    BY <1>0, <1>2 DEF Tick, Times, settings, host
  <2>2. session => timerLeft' = timerLeft - 1 /\ timerLeft' \in Nat /\ idle' = idle + 1
    BY <1>1, <1>2, NoneAssumption DEF Tick, Elapse
  <2>3. ~session => timerLeft' = None /\ idle' = 0
    BY <1>2 DEF Tick, Elapse, TimerInv, NothingLeft
  <2>4. revealLeft' \in 0..RevealTicks \cup {None} /\ (revealLeft' # None => revealLeft # None)
    BY <1>0, <1>2 DEF Tick, Elapse, TimerInv, TypeOK
  <2>5. session => now' + timeout + setBack >= expiresAt + idle'
    BY <1>0, <1>1, <2>1, <2>2 DEF Times
  <2>6. SecretInFront'
    BY <2>1, <2>4 DEF TimerInv, SecretInFront, InFront
  <2>7. TypeOK' /\ NothingLeft' /\ DeadlineNear'
    BY <1>0, <2>1, <2>2, <2>3, <2>4 DEF TimerInv, TypeOK, NothingLeft, DeadlineNear
  <2>8. ClockKeepsUp' /\ TimerInTime'
    BY <1>0, <1>1, <2>1, <2>2, <2>5 DEF TimerInv, ClockKeepsUp, TimerInTime
  <2> QED BY <2>6, <2>7, <2>8 DEF TimerInv
<1>3. CASE Suspend
  <2>1. /\ now' \in Times /\ now' \in Nat /\ now' >= now
        /\ UNCHANGED <<session, screen, timeout, preference, lastSeen, expiresAt, timerLeft,
                       idle, setBack, revealLeft, inactive, hidden>>
    BY <1>0, <1>3 DEF Suspend, Times, settings, deadline, host
  <2>2. TypeOK' /\ NothingLeft' /\ DeadlineNear' /\ TimerInTime' /\ SecretInFront'
    BY <2>1 DEF TimerInv, TypeOK, NothingLeft, DeadlineNear, TimerInTime, SecretInFront, InFront
  <2>3. ClockKeepsUp'
    BY <1>0, <1>1, <2>1 DEF ClockKeepsUp
  <2> QED BY <2>2, <2>3 DEF TimerInv
<1>4. CASE SetClockBack
  <2>1. PICK t \in 0..(now - 1) :
          /\ setBack + (now - t) <= MaxSetBack
          /\ now' = t
          /\ setBack' = IF session THEN setBack + (now - t) ELSE 0
    BY <1>4 DEF SetClockBack
  <2>2. /\ now' \in Times /\ now' \in Nat /\ now - t \in Nat /\ now' + (now - t) = now
        /\ setBack + (now - t) \in 0..MaxSetBack
    BY <1>0, <2>1 DEF Times
  <2>3. UNCHANGED <<session, screen, timeout, preference, lastSeen, expiresAt, timerLeft,
                    idle, revealLeft, inactive, hidden>>
    BY <1>4 DEF SetClockBack, settings, host
  <2>4. CASE session
    <3>1. setBack' = setBack + (now - t)
      BY <2>1, <2>4
    <3>2. TypeOK'
      BY <2>2, <2>3, <3>1 DEF TimerInv, TypeOK
    <3>3. NothingLeft' /\ DeadlineNear' /\ SecretInFront'
      BY <2>3, <2>4 DEF TimerInv, NothingLeft, DeadlineNear, SecretInFront, InFront
    <3>4. now' + timeout + setBack' >= expiresAt + idle
          /\ idle + timerLeft <= timeout + setBack'
      <4>1. /\ expiresAt \in Nat /\ timerLeft \in Nat /\ idle + timerLeft <= timeout + setBack
            /\ now + timeout + setBack >= expiresAt + idle
        BY <1>1, <2>4
      <4> DEFINE u == now'
                 b == setBack'
                 back == now - t
      <4>2. back \in Nat /\ u \in Nat /\ u + back = now /\ b = setBack + back
        BY <2>2, <3>1
      <4> HIDE DEF u, b, back
      <4>3. u + timeout + b >= expiresAt + idle /\ idle + timerLeft <= timeout + b
        BY <1>0, <4>1, <4>2
      <4> QED BY <4>3 DEF u, b
    <3>5. ClockKeepsUp' /\ TimerInTime'
      BY <2>3, <2>4, <3>4 DEF TimerInv, ClockKeepsUp, TimerInTime
    <3> QED BY <3>2, <3>3, <3>5 DEF TimerInv
  <2>5. CASE ~session
    <3>1. setBack' = 0 /\ setBack' \in 0..MaxSetBack
      BY <1>0, <2>1, <2>5
    <3> QED BY <2>2, <2>3, <2>5, <3>1
            DEF TimerInv, TypeOK, NothingLeft, DeadlineNear, ClockKeepsUp, TimerInTime,
                SecretInFront, InFront
  <2> QED BY <2>4, <2>5
<1> QED BY <1>2, <1>3, <1>4

LEMMA TimerStep == TimerInv /\ [Next]_vars => TimerInv'
<1> SUFFICES ASSUME TimerInv, [Next]_vars
             PROVE  TimerInv'
  OBVIOUS
<1>0. /\ now \in Times /\ timeout \in Timeouts /\ preference \in Timeouts \cup {None}
      /\ inactive \in BOOLEAN /\ hidden \in BOOLEAN
  BY DEF TimerInv, TypeOK
<1>1. CASE Unlock
  <2>1. /\ now \in Nat /\ timeout \in Nat /\ timeout > 0 /\ now + timeout <= MaxNow
        /\ MaxNow \in Nat /\ idle = 0 /\ setBack = 0
    BY <1>0, <1>1, ClockAssumption, TimeoutsArePositive DEF Unlock, Times, TimerInv, NothingLeft
  <2>2. now + timeout \in Times /\ Delay(now + timeout) = timeout
    BY <2>1, DelayIsRest DEF Times
  <2>3. /\ session' /\ screen' \in Screens /\ lastSeen' = now /\ expiresAt' = now + timeout
        /\ timerLeft' = timeout
        /\ UNCHANGED <<now, timeout, preference, revealLeft, inactive, hidden, idle, setBack>>
    BY <1>1, <2>2 DEF Unlock, Screens, settings, host
  <2>4. revealLeft = None
    BY <1>1 DEF Unlock, TimerInv, SecretInFront
  <2> QED BY <1>0, <2>1, <2>2, <2>3, <2>4
          DEF TimerInv, TypeOK, NothingLeft, DeadlineNear, ClockKeepsUp, TimerInTime,
              SecretInFront
<1>2. CASE Lock
  <2>1. PICK scr \in {"locked", "onboarding"} : End(scr)
    BY <1>2 DEF Lock
  <2>2. scr \in Screens
    BY DEF Screens
  <2> QED BY <1>0, <1>2, <2>1, <2>2, EndPreserves DEF Lock, settings, host
<1>3. CASE Reload
  <2>1. /\ End("locked") /\ now' = now /\ preference' = preference /\ timeout' \in Timeouts
        /\ inactive' \in BOOLEAN /\ hidden' \in BOOLEAN
    BY <1>0, <1>3, TimeoutsAssumption DEF Reload
  <2>2. "locked" \in Screens
    BY DEF Screens
  <2> QED BY <1>0, <2>1, <2>2, EndPreserves
<1>4. CASE Reveal \/ RevealFires
  <2>1. /\ UNCHANGED <<now, session, screen, timeout, preference, lastSeen, expiresAt,
                       timerLeft, idle, setBack, inactive, hidden>>
        /\ revealLeft' \in 0..RevealTicks \cup {None}
        /\ revealLeft' # None => session /\ screen = "detail" /\ InFront
    BY <1>4, TimeoutsAssumption DEF Reveal, RevealFires, settings, deadline, host
  <2> QED BY <2>1
          DEF TimerInv, TypeOK, NothingLeft, DeadlineNear, ClockKeepsUp, TimerInTime,
              SecretInFront, InFront
<1>5. CASE UNCHANGED vars
  BY <1>5 DEF vars, settings, deadline, host, TimerInv, TypeOK, NothingLeft, DeadlineNear,
              ClockKeepsUp, TimerInTime, SecretInFront, InFront
<1> QED BY <1>1, <1>2, <1>3, <1>4, <1>5, TouchesPreserve, TimersPreserve, ClocksPreserve
        DEF Next, Timers

(* The inductive invariant holds in every reachable state, for every set of
   timeouts and every clock. *)
THEOREM TimerInductive == Spec => []TimerInv
BY TimerInit, TimerStep, PTL DEF Spec

(* Every reachable state is well typed: no timer is ever armed with a negative
   delay. *)
THEOREM TimerTypeCorrect == Spec => []TypeOK
BY TimerInductive, PTL DEF TimerInv

(* An unlocked session is never without a timer that will end it. *)
THEOREM TimerAlwaysArmed == Spec => []ArmedWhileUnlocked
<1>1. TimerInv => ArmedWhileUnlocked
  BY NoneAssumption DEF TimerInv, NothingLeft, TimerInTime, TypeOK, ArmedWhileUnlocked
<1> QED BY <1>1, TimerInductive, PTL

(* A clock that is set back cannot move the deadline away. *)
THEOREM DeadlineStaysNear == Spec => []DeadlineNear
BY TimerInductive, PTL DEF TimerInv

(* A session survives its last touch by the timeout and what the clock was set
   back, no more. *)
THEOREM IdleTimeBounded == Spec => []IdleBounded
<1>1. TimerInv => IdleBounded
  BY TimeoutsArePositive, ClockAssumption DEF TimerInv, TypeOK, TimerInTime, IdleBounded
<1> QED BY <1>1, TimerInductive, PTL

(* A revealed secret shows only in front, on its entry, in an open session. *)
THEOREM SecretStaysInFront == Spec => []SecretInFront
BY TimerInductive, PTL DEF TimerInv

=============================================================================
