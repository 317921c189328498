------------------------------ MODULE SessionTimer ------------------------------
(***************************************************************************)
(* How long an unlocked session lives (web/src/app-controller.js and the    *)
(* lifecycle part of web/app.js): the inactivity deadline, the timer that   *)
(* enforces it, the host's activation and visibility events, and the timer  *)
(* of a revealed secret.                                                    *)
(*                                                                          *)
(* Deadlines are wall-clock times, timers count the time the page runs.     *)
(* The wall clock may be set back, and it moves on alone while the host     *)
(* suspends the page.  Callbacks run one at a time, each to its end.        *)
(***************************************************************************)
EXTENDS Integers

CONSTANTS
  Timeouts,        \* session timeouts to choose from, in ticks
  DefaultTimeout,  \* DEFAULT_SESSION_TIMEOUT_MINUTES
  RevealTicks,     \* how long a secret stays revealed
  MaxNow,          \* the last moment of the wall clock
  LastTouch,       \* nobody touches the session after this moment
  MaxSetBack,      \* how far the clock is set back between two touches
  None

ASSUME TimeoutsAssumption == /\ Timeouts \subseteq Nat \ {0}
                             /\ DefaultTimeout \in Timeouts
                             /\ RevealTicks \in Nat \ {0}
ASSUME ClockAssumption == /\ MaxNow \in Nat /\ LastTouch \in Nat /\ MaxSetBack \in Nat
                          /\ \A m \in Timeouts : LastTouch + m <= MaxNow
ASSUME NoneAssumption == None \notin Int

VARIABLES
  now,         \* Date.now()
  session,     \* the controller holds an unlocked session
  screen,
  timeout,     \* sessionTimeoutMinutes
  preference,  \* the timeout kept in localStorage, or None
  lastSeen,    \* lastSessionTimestamp
  expiresAt,   \* sessionExpiresAt
  timerLeft,   \* what is left of authenticationTimer, None when cleared
  revealLeft,  \* what is left of revealTimer, None when no secret is shown
  inactive,    \* appInactive
  hidden,      \* document.hidden
  idle,        \* running time since the session was last touched
  setBack      \* how far the clock was set back since then

deadline == <<lastSeen, expiresAt, timerLeft, idle, setBack>>
settings == <<timeout, preference>>
host == <<inactive, hidden>>
vars == <<now, session, screen, settings, deadline, revealLeft, host>>

Times == 0..MaxNow
Screens == {"locked", "onboarding", "vault", "detail", "settings"}

-----------------------------------------------------------------------------
InFront == ~hidden /\ ~inactive

\* Mutant: the timer is armed with the whole timeout.
DelayOfTimeout(t) == timeout

\* Mutant: no floor at zero.
DelayUnbounded(t) == t - now

\* scheduleAuthenticationExpiry: the rest of the time to the deadline t.
Delay(t) == IF t > now THEN t - now ELSE 0

\* Mutant: a clock that was set back is taken as it is.
TrustedAlways == TRUE

\* observeSessionTime accepts the current time.
Trusted == lastSeen = None \/ now >= lastSeen

\* Mutant: a deadline counts as passed one moment late.
ExpiredLate == now > expiresAt

Expired == now >= expiresAt

(* lock, and the end of destroy: the subscribed render hides a revealed secret
   and clears the timer of a session that is gone. *)
End(scr) ==
  /\ session' = FALSE
  /\ screen' = scr
  /\ lastSeen' = None /\ expiresAt' = None /\ timerLeft' = None
  /\ idle' = 0 /\ setBack' = 0
  /\ revealLeft' = None

(* touchSession with an accepted time, and the rescheduling every caller adds. *)
Prolong(minutes) == /\ now <= LastTouch
                    /\ lastSeen' = now
                    /\ expiresAt' = now + minutes
                    /\ timerLeft' = Delay(now + minutes)
                    /\ idle' = 0 /\ setBack' = 0
                    /\ UNCHANGED session

-----------------------------------------------------------------------------
Init == /\ now = 0 /\ session = FALSE /\ screen = "locked"
        /\ timeout = DefaultTimeout /\ preference = None
        /\ lastSeen = None /\ expiresAt = None /\ timerLeft = None /\ revealLeft = None
        /\ inactive = FALSE /\ hidden = FALSE
        /\ idle = 0 /\ setBack = 0

(* create and unlock: a session comes up whenever the password has been
   stretched, be the app in front or not. *)
Unlock ==
  /\ ~session /\ screen \in {"locked", "onboarding"}
  /\ now <= LastTouch
  /\ session' = TRUE /\ screen' = "vault"
  /\ lastSeen' = now /\ expiresAt' = now + timeout /\ timerLeft' = Delay(now + timeout)
  /\ UNCHANGED <<now, settings, revealLeft, host, idle, setBack>>

(* lock by the user or after a failed operation, and destroy *)
Lock == /\ screen \notin {"locked", "onboarding"}
        /\ \E scr \in {"locked", "onboarding"} : End(scr)
        /\ UNCHANGED <<now, settings, host>>

(* recordSessionActivity *)
Activity ==
  /\ session /\ InFront
  /\ IF Trusted
     THEN Prolong(timeout) /\ UNCHANGED <<screen, revealLeft>>
     ELSE End("locked")
  /\ UNCHANGED <<now, settings, host>>

(* navigate, openEntry: a new screen hides the secret and reschedules, but does
   not touch the session. *)
Navigate ==
  /\ session /\ InFront
  /\ screen' \in {"vault", "detail", "settings"}
  /\ timerLeft' = Delay(expiresAt)
  /\ revealLeft' = None
  /\ UNCHANGED <<now, session, settings, lastSeen, expiresAt, idle, setBack, host>>

(* applySessionTimeout: localStorage may refuse the preference *)
SetTimeout(m) ==
  /\ screen = "settings" /\ InFront
  /\ timeout' = m /\ preference' \in {m, preference}
  /\ \/ ~session /\ UNCHANGED <<session, screen, deadline, revealLeft>>
     \/ session /\ Trusted /\ Prolong(m) /\ UNCHANGED <<screen, revealLeft>>
     \/ session /\ ~Trusted /\ End("locked")
  /\ UNCHANGED <<now, host>>

(* changeMasterPassword after its await: it touches the session and then shows
   the settings, whatever touchSession did. *)
PasswordChanged ==
  /\ session
  /\ IF Trusted
     THEN Prolong(timeout) /\ screen' = "settings" /\ revealLeft' = None
     ELSE End("settings")
  /\ UNCHANGED <<now, settings, host>>

\* Mutant: a timer that fired early is not set again.
TimerFiresOnce ==
  /\ timerLeft = 0
  /\ IF Trusted /\ ~Expired
     THEN /\ lastSeen' = now
          /\ timerLeft' = None
          /\ UNCHANGED <<session, screen, expiresAt, revealLeft, idle, setBack>>
     ELSE End("locked")
  /\ UNCHANGED <<now, settings, host>>

(* The callback of authenticationTimer. *)
TimerFires ==
  /\ timerLeft = 0
  /\ IF Trusted /\ ~Expired
     THEN /\ lastSeen' = now
          /\ timerLeft' = Delay(expiresAt)
          /\ UNCHANGED <<session, screen, expiresAt, revealLeft, idle, setBack>>
     ELSE End("locked")
  /\ UNCHANGED <<now, settings, host>>

-----------------------------------------------------------------------------
(* Leaving and returning.  Telegram's events and the page's visibility arrive in
   any order; only the first of a series of leavings counts. *)

\* Mutant: leaving keeps a revealed secret on the page.
DeactivateKeepsSecret ==
  /\ inactive' = TRUE
  /\ IF session
     THEN IF Trusted THEN Prolong(timeout) /\ UNCHANGED <<screen, revealLeft>> ELSE End("locked")
     ELSE UNCHANGED <<session, screen, deadline, revealLeft>>

(* deactivateSession *)
Deactivate ==
  IF inactive
  THEN UNCHANGED <<session, screen, deadline, revealLeft, inactive>>
  ELSE /\ inactive' = TRUE
       /\ IF session
          THEN IF Trusted
               THEN Prolong(timeout) /\ revealLeft' = None /\ UNCHANGED screen
               ELSE End("locked")
          ELSE UNCHANGED <<session, screen, deadline, revealLeft>>

(* activateSession: resume locks a session whose deadline has passed. *)
Activate ==
  /\ inactive' = FALSE
  /\ IF session
     THEN IF Trusted /\ ~Expired
          THEN Prolong(timeout) /\ UNCHANGED <<screen, revealLeft>>
          ELSE End("locked")
     ELSE UNCHANGED <<session, screen, deadline, revealLeft>>

TelegramDeactivated == /\ Deactivate
                       /\ UNCHANGED <<now, settings, hidden>>

TelegramActivated == /\ ~hidden
                     /\ Activate
                     /\ UNCHANGED <<now, settings, hidden>>

VisibilityChange == /\ hidden' = ~hidden
                    /\ IF hidden THEN Activate ELSE Deactivate
                    /\ UNCHANGED <<now, settings>>

(* The WebView is unloaded and the app started anew. *)
Reload ==
  /\ End("locked")
  /\ timeout' = IF preference = None THEN DefaultTimeout ELSE preference
  /\ inactive' = FALSE /\ hidden' = FALSE
  /\ UNCHANGED <<now, preference>>

-----------------------------------------------------------------------------
(* toggleSecret *)
Reveal == /\ session /\ screen = "detail" /\ InFront
          /\ revealLeft' = IF revealLeft = None THEN RevealTicks ELSE None
          /\ UNCHANGED <<now, session, screen, settings, deadline, host>>

RevealFires == /\ revealLeft = 0
               /\ revealLeft' = None
               /\ UNCHANGED <<now, session, screen, settings, deadline, host>>

Elapse(left) == IF left = None THEN None ELSE left - 1

(* Time passes on a running page; a timer that is due fires first.  The bound of
   the clock lies past every deadline. *)
Tick == /\ timerLeft # 0 /\ revealLeft # 0
        /\ now' = IF now < MaxNow THEN now + 1 ELSE now
        /\ timerLeft' = Elapse(timerLeft)
        /\ revealLeft' = Elapse(revealLeft)
        /\ idle' = IF session THEN idle + 1 ELSE 0
        /\ UNCHANGED <<session, screen, settings, lastSeen, expiresAt, setBack, host>>

(* Time passes while the host suspends the page, or the clock is put forward. *)
Suspend == /\ now < MaxNow
           /\ now' \in (now + 1)..MaxNow
           /\ UNCHANGED <<session, screen, settings, deadline, revealLeft, host>>

SetClockBack == \E t \in 0..(now - 1) :
  /\ setBack + (now - t) <= MaxSetBack
  /\ now' = t
  /\ setBack' = IF session THEN setBack + (now - t) ELSE 0
  /\ UNCHANGED <<session, screen, settings, lastSeen, expiresAt, timerLeft, idle, revealLeft, host>>

Timers == TimerFires \/ RevealFires

Next == \/ Unlock \/ Lock \/ Activity \/ Navigate \/ PasswordChanged
        \/ \E m \in Timeouts : SetTimeout(m)
        \/ TelegramDeactivated \/ TelegramActivated \/ VisibilityChange \/ Reload
        \/ Reveal \/ Timers \/ Tick \/ Suspend \/ SetClockBack

(* setTimeout calls back once its time has passed, and time passes. *)
Fairness == WF_vars(Timers) /\ WF_vars(Tick)

Spec == Init /\ [][Next]_vars /\ Fairness

-----------------------------------------------------------------------------
TypeOK == /\ now \in Times
          /\ session \in BOOLEAN /\ screen \in Screens
          /\ timeout \in Timeouts /\ preference \in Timeouts \cup {None}
          /\ lastSeen \in Times \cup {None} /\ expiresAt \in Times \cup {None}
          /\ timerLeft \in Nat \cup {None} /\ revealLeft \in 0..RevealTicks \cup {None}
          /\ inactive \in BOOLEAN /\ hidden \in BOOLEAN
          /\ idle \in Nat /\ setBack \in 0..MaxSetBack

(* An unlocked session is never without a timer that will end it, through every
   reschedule, early firing, lock and reload; a locked one has none. *)
ArmedWhileUnlocked == session <=> timerLeft # None

(* The deadline stays within one timeout of the last moment the controller
   accepted, so a clock that is set back cannot move it away. *)
DeadlineNear == session => /\ lastSeen < expiresAt
                           /\ expiresAt <= lastSeen + timeout

(* The session survives its last touch by no more than the timeout, counted in
   time the page runs, plus what the clock was set back in between: suspension,
   rescheduling and early firings never add to it. *)
IdleBounded == session => idle <= timeout + setBack

(* A revealed secret is on the page only while its session is unlocked, its
   entry is open and the app is in front: README.md's "hides rendered secrets". *)
SecretInFront == revealLeft # None => session /\ screen = "detail" /\ InFront

(* An idle session is touched again or locked: the timer never spins without
   locking and never gets lost. *)
LocksWhenIdle == (idle > 0) ~> (idle = 0)

(* Once its deadline has passed, a session is locked and never prolonged:
   INTEGRATION.md's "after the deadline it is locked". *)
DeadlineIsFinal ==
  [][session /\ session' /\ now > expiresAt => expiresAt' = expiresAt]_vars

(* Without a session the app shows the locked or the first-run screen, also when
   it was a clock set back that locked it. *)
NoScreenWithoutSession == ~session => screen \in {"locked", "onboarding"}

=============================================================================
