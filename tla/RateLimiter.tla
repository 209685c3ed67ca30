---------------------------- MODULE RateLimiter ----------------------------
(***************************************************************************)
(* The two sliding-window limiters: keyedLimiter, which counts actions on  *)
(* an email address, and the limiter of the middleware, which counts       *)
(* requests of a client, path or user.  Both read the clock before they    *)
(* take the mutex, so requests reach the hits of their key in any order.   *)
(*                                                                         *)
(* A hit is the request that made it, dated by what it read off the clock. *)
(***************************************************************************)
EXTENDS Integers, FiniteSets

CONSTANTS
  Requests,
  KeyOf,      \* the key each request is counted under
  Rpm,        \* hits allowed in a window
  Window,     \* one minute
  Keyed,      \* keyedLimiter, or the limiter of the middleware
  MaxClock    \* bound: the last time modelled

ASSUME RequestsAssumption == IsFiniteSet(Requests)
ASSUME LimitAssumption == Rpm \in Nat /\ Window \in Nat \ {0} /\ Keyed \in BOOLEAN

VARIABLES
  clock,
  hits,      \* for each key, the hits not yet dropped
  request,   \* where each request is, and the time it read
  overtook   \* history: <<r, s>>, r was decided before s although it had read a later time

limiterVars == <<clock, hits, request, overtook>>

Keys == {KeyOf[r] : r \in Requests}

LimiterInit ==
  /\ clock = 0
  /\ hits = [k \in Keys |-> {}]
  /\ request = [r \in Requests |-> [pc |-> "idle", now |-> 0]]
  /\ overtook = {}

Tick ==
  /\ clock < MaxClock
  /\ clock' = clock + 1
  /\ UNCHANGED <<hits, request, overtook>>

ReadClock(r) ==
  /\ request[r].pc = "idle"
  /\ request' = [request EXCEPT ![r] = [pc |-> "waiting", now |-> clock]]
  /\ UNCHANGED <<clock, hits, overtook>>

\* Mistake: only hits before the request's own time are counted.
EarlierHits(r) ==
  {h \in hits[KeyOf[r]] :
     request[r].now - Window < request[h].now /\ request[h].now < request[r].now}

\* The hits of r's key that are after its cutoff.
Recent(r) == {h \in hits[KeyOf[r]] : request[h].now > request[r].now - Window}

Decided(r) == request[r].pc \in {"admitted", "refused"}

Overtakes(r) == {<<s, r>> : s \in {d \in Requests : Decided(d) /\ request[d].now > request[r].now}}

\* keyedLimiter lets everything pass when its limit is not positive.
Unlimited == Keyed /\ Rpm = 0

Full(r) == Cardinality(Recent(r)) >= Rpm

\* A stored list is never empty, so that the cleanup of the keys beyond maxKeys, which
\* looks for empty lists, deletes none.
Admit(r) ==
  /\ request[r].pc = "waiting"
  /\ Unlimited \/ ~Full(r)
  /\ hits' = IF Unlimited THEN hits ELSE [hits EXCEPT ![KeyOf[r]] = Recent(r) \union {r}]
  /\ request' = [request EXCEPT ![r].pc = "admitted"]
  /\ overtook' = overtook \union Overtakes(r)
  /\ UNCHANGED clock

\* Mistake: what is refused is a hit too.
RefusedToo(r) == IF Keyed THEN Recent(r) \union {r} ELSE hits[KeyOf[r]]

\* The middleware's limiter leaves the hits as they are when it refuses.
StoredByRefusal(r) == IF Keyed THEN Recent(r) ELSE hits[KeyOf[r]]

Refuse(r) ==
  /\ request[r].pc = "waiting"
  /\ ~Unlimited /\ Full(r)
  /\ hits' = [hits EXCEPT ![KeyOf[r]] = StoredByRefusal(r)]
  /\ request' = [request EXCEPT ![r].pc = "refused"]
  /\ overtook' = overtook \union Overtakes(r)
  /\ UNCHANGED clock

LimiterNext == Tick \/ \E r \in Requests : ReadClock(r) \/ Admit(r) \/ Refuse(r)

LimiterSpec == LimiterInit /\ [][LimiterNext]_limiterVars

----------------------------------------------------------------------------
(* Correctness *)

RequestState == [pc : {"idle", "waiting", "admitted", "refused"}, now : Nat]

\* The type of the state.
LimiterTypeOK ==
  /\ clock \in Nat
  /\ hits \in [Keys -> SUBSET Requests]
  /\ request \in [Requests -> RequestState]
  /\ overtook \subseteq Requests \X Requests

\* The requests of a key admitted in the window that ends at time w.
AdmittedIn(k, w) ==
  {r \in Requests : /\ request[r].pc = "admitted" /\ KeyOf[r] = k
                    /\ w - Window < request[r].now /\ request[r].now <= w}

\* No window has more than Rpm admitted requests of one key, wherever it ends, unless
\* one of them was decided after a request that had read a time past the window, and
\* had dropped hits that it should still have counted.
AdmittedPerWindow ==
  \A k \in Keys, w \in 0 .. MaxClock :
    \/ Unlimited
    \/ Cardinality(AdmittedIn(k, w)) <= Rpm
    \/ \E r \in AdmittedIn(k, w), s \in Requests : <<s, r>> \in overtook /\ request[s].now > w
=============================================================================
