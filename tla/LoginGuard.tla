---------------------------- MODULE LoginGuard ----------------------------
(***************************************************************************)
(* What stands before and after the password: the limiter of logins per    *)
(* email address, the lock that counts failures in the log of security     *)
(* events, the captcha, and the events an attempt leaves in that log.      *)
(*                                                                         *)
(* Counting, comparing and logging are separate: attempts under way at     *)
(* once do not see each other.  Errors of the log are dropped, and a count *)
(* that cannot be made locks nobody out.                                   *)
(***************************************************************************)
EXTENDS KeyedLimiter

CONSTANTS
  Threshold,    \* 5 failures
  LockWindow,   \* 15 minutes: what CheckLoginLock looks back on
  CountWindow,  \* 10 minutes: what LogLoginFailure looks back on
  MaxFaults     \* bound: queries of the log that fail

ASSUME ThresholdAssumption ==
  /\ Threshold \in Nat \ {0}
  /\ LockWindow \in Nat /\ CountWindow \in Nat /\ MaxFaults \in Nat

VARIABLES
  step,       \* where each attempt is, once the limiter has admitted it
  events,     \* security_events
  faults,     \* failed queries so far
  blind,      \* history: attempts whose count of failures failed
  meanwhile   \* history: <<a, b>>, a logged its failure between the check and the password of b

guardVars == <<step, events, faults, blind, meanwhile>>
vars == <<limiterVars, guardVars>>

Attempts == Requests
Email(a) == KeyOf[a]

EventTypes == {"login_rate_limited", "login_blocked", "login_captcha_failed",
               "login_failed", "login_locked", "login_success"}

Event(type, a) == [type |-> type, by |-> a, at |-> clock]

Fault == faults < MaxFaults /\ faults' = faults + 1

\* An error of the log is dropped.
Log(type, a) ==
  \/ events' = events \union {Event(type, a)} /\ UNCHANGED faults
  \/ Fault /\ UNCHANGED events

Init ==
  /\ LimiterInit
  /\ step = [a \in Attempts |-> "limiter"]
  /\ events = {}
  /\ faults = 0
  /\ blind = {}
  /\ meanwhile = {}

EventsOf(e, type) == {v \in events : v.type = type /\ Email(v.by) = e}

\* CountLoginFailuresSinceLastSuccess, for the window that ends now.
Failures(e, window) ==
  {f \in EventsOf(e, "login_failed") :
     /\ f.at >= clock - window
     /\ \A s \in EventsOf(e, "login_success") : f.at >= s.at}

\* Mistake: the lock lets one failure too many pass.
LockedAbove(e) == Cardinality(Failures(e, LockWindow)) > Threshold

Locked(e) == Cardinality(Failures(e, LockWindow)) >= Threshold

Goes(a, next) == step' = [step EXCEPT ![a] = next]

----------------------------------------------------------------------------
(* Before the password *)

\* CheckEmailAction.
EmailAction(a) ==
  /\ step[a] = "limiter"
  /\ \/ ReadClock(a) /\ UNCHANGED <<step, events, faults>>
     \/ Admit(a) /\ Goes(a, "lock") /\ UNCHANGED <<events, faults>>
     \/ Refuse(a) /\ Goes(a, "end") /\ Log("login_rate_limited", a)
  /\ UNCHANGED <<blind, meanwhile>>

\* CheckLoginLock.
CheckLock(a) ==
  /\ step[a] = "lock"
  /\ \/ ~Locked(Email(a)) /\ Goes(a, "password") /\ UNCHANGED <<events, faults, blind>>
     \/ Locked(Email(a)) /\ Goes(a, "end") /\ Log("login_blocked", a) /\ UNCHANGED blind
     \/ Goes(a, "password") /\ Fault /\ blind' = blind \union {a} /\ UNCHANGED events
  /\ UNCHANGED <<limiterVars, meanwhile>>

\* VerifyCaptcha, when it is on, a token was sent and its provider does not like it.
CaptchaFailed(a) ==
  /\ step[a] = "password"
  /\ Goes(a, "end")
  /\ Log("login_captcha_failed", a)
  /\ UNCHANGED <<limiterVars, blind, meanwhile>>

----------------------------------------------------------------------------
(* The password, and what is logged of it *)

\* The right password of an address that is not verified is not logged.
Unverified(a) ==
  /\ step[a] = "password"
  /\ Goes(a, "end")
  /\ UNCHANGED <<limiterVars, events, faults, blind, meanwhile>>

\* Every other error of AuthService.Login is logged as a failure, that of a right
\* password whose session cannot be stored too.
LogFailure(a) ==
  /\ step[a] = "password"
  /\ Goes(a, "count")
  /\ Log("login_failed", a)
  /\ meanwhile' = meanwhile \union {<<a, b>> : b \in {c \in Attempts \ {a} : step[c] = "password"}}
  /\ UNCHANGED <<limiterVars, blind>>

\* Mistake: the event has a type that nothing counts or lists.
LogLock(a) ==
  /\ step[a] = "count"
  /\ Goes(a, "end")
  /\ IF Cardinality(Failures(Email(a), CountWindow)) >= Threshold
       THEN Log("lock", a)
       ELSE UNCHANGED <<events, faults>>
  /\ UNCHANGED <<limiterVars, blind, meanwhile>>

\* The count of LogLoginFailure, and login_locked if it reaches the threshold. When
\* it cannot be made, nothing is logged.
LogLocked(a) ==
  /\ step[a] = "count"
  /\ Goes(a, "end")
  /\ IF Cardinality(Failures(Email(a), CountWindow)) >= Threshold
       THEN Log("login_locked", a)
       ELSE UNCHANGED <<events, faults>>
  /\ UNCHANGED <<limiterVars, blind, meanwhile>>

LogSuccess(a) ==
  /\ step[a] = "password"
  /\ Goes(a, "end")
  /\ Log("login_success", a)
  /\ UNCHANGED <<limiterVars, blind, meanwhile>>

Attempt(a) ==
  \/ EmailAction(a) \/ CheckLock(a) \/ CaptchaFailed(a)
  \/ Unverified(a) \/ LogFailure(a) \/ LogLocked(a) \/ LogSuccess(a)

Time == Tick /\ UNCHANGED guardVars

Next == Time \/ \E a \in Attempts : Attempt(a)

Spec == Init /\ [][Next]_vars

----------------------------------------------------------------------------
(* Correctness *)

\* The type of the state.
TypeOK ==
  /\ LimiterTypeOK
  /\ step \in [Attempts -> {"limiter", "lock", "password", "count", "end"}]
  /\ events \subseteq [type : EventTypes, by : Attempts, at : Nat]
  /\ faults \in Nat
  /\ blind \subseteq Attempts
  /\ meanwhile \subseteq Attempts \X Attempts

\* Failures of one address logged within a lock window, with no success among them.
Runs(e) ==
  {F \in SUBSET EventsOf(e, "login_failed") :
     /\ \A f, g \in F : f.at - g.at <= LockWindow
     /\ \A s \in EventsOf(e, "login_success"), f \in F : s.at < f.at}

\* More passwords than Threshold fail for an address within a lock window only when
\* some of the attempts were under way at once (CheckLoginLock and LogLoginFailure are
\* handlers' separate calls), or when their check was blind.
LockHolds ==
  \A e \in Keys : \A F \in Runs(e) :
    \/ Cardinality(F) <= Threshold
    \/ \E f \in F : f.by \in blind
    \/ \E f, g \in F : <<f.by, g.by>> \in meanwhile
=============================================================================
