------------------------------- MODULE Visits -------------------------------
(***************************************************************************)
(* Page visits: a visit passes the limiter and is answered; a goroutine    *)
(* then finds out from where it came and whose it is, and stores it.       *)
(* Locations are cached for a while, failed lookups like found ones, in a  *)
(* cache of bounded size that is emptied when it is full of fresh entries. *)
(*                                                                         *)
(* A goroutine ends with its process or with the error of its insert: what *)
(* was accepted may never be stored.  A restart begins in the initial      *)
(* state, but for the visits already stored.                               *)
(***************************************************************************)
EXTENDS RateLimiter

CONSTANTS
  IpOf,       \* the address each visit came from; its limiter goes by KeyOf
  UserOf,     \* whose access token its cookie holds
  Anonymous,
  Cap,        \* 5000 entries
  Ttl         \* 6 hours

ASSUME CacheAssumption == Cap \in Nat \ {0} /\ Ttl \in Nat

VARIABLES
  task,        \* where the goroutine of each visit is
  geoOf,       \* the location it found
  cache,       \* geoCache: addresses with a location and an expiry
  pageVisits,  \* page_visits
  failures     \* history: <<ip, time>> of lookups that failed and were cached

trackVars == <<task, geoOf, cache, pageVisits, failures>>
visitsVars == <<limiterVars, trackVars>>

Visits == Requests
Ips == {IpOf[v] : v \in Visits}

\* lookupGeo finds where an address is, or nothing.
Geos == {"found", "empty"}

VisitsInit ==
  /\ LimiterInit
  /\ task = [v \in Visits |-> "none"]
  /\ geoOf = [v \in Visits |-> "empty"]
  /\ cache = [ip \in {} |-> {}]
  /\ pageVisits = {}
  /\ failures = {}

\* TrackVisit behind PathLimiter: the visit is answered before it is tracked.
TrackVisit(v) ==
  \/ (ReadClock(v) \/ Refuse(v)) /\ UNCHANGED trackVars
  \/ /\ Admit(v)
     /\ task' = [task EXCEPT ![v] = "start"]
     /\ UNCHANGED <<geoOf, cache, pageVisits, failures>>

Expired(entry) == clock > entry.expires

\* Mistake: whatever is in the cache is good.
Known(ip) == ip \in DOMAIN cache

Fresh(ip) == ip \in DOMAIN cache /\ ~Expired(cache[ip])

GetGeo(v) ==
  /\ task[v] = "start"
  /\ \/ /\ Fresh(IpOf[v])
        /\ geoOf' = [geoOf EXCEPT ![v] = cache[IpOf[v]].geo]
        /\ task' = [task EXCEPT ![v] = "located"]
     \/ /\ ~Fresh(IpOf[v])
        /\ task' = [task EXCEPT ![v] = "lookup"]
        /\ UNCHANGED geoOf
  /\ UNCHANGED <<limiterVars, cache, pageVisits, failures>>

\* Mistake: the entries are counted when the new one is in.
KeptWhenFull == IF Cardinality(DOMAIN cache) > Cap THEN {} ELSE DOMAIN cache

\* What of the cache stays when an entry is written: when it is full, the fresh
\* entries, and when these fill it, none.
Kept ==
  LET fresh == {ip \in DOMAIN cache : ~Expired(cache[ip])} IN
  IF Cardinality(DOMAIN cache) < Cap THEN DOMAIN cache
  ELSE IF Cardinality(fresh) < Cap THEN fresh ELSE {}

\* The lookup's answer, or none in time, is cached and used.
SetGeo(v) ==
  /\ task[v] = "lookup"
  /\ \E geo \in Geos :
       /\ cache' = [ip \in Kept \union {IpOf[v]} |->
                      IF ip = IpOf[v] THEN [geo |-> geo, expires |-> clock + Ttl] ELSE cache[ip]]
       /\ geoOf' = [geoOf EXCEPT ![v] = geo]
       /\ failures' = IF geo = "empty" THEN failures \union {<<IpOf[v], clock>>} ELSE failures
  /\ task' = [task EXCEPT ![v] = "located"]
  /\ UNCHANGED <<limiterVars, pageVisits>>

\* identifyUser, which finds nobody when the account is gone or cannot be read, and
\* the insert.
Store(v) ==
  /\ task[v] = "located"
  /\ \E user \in {UserOf[v], Anonymous} :
       pageVisits' = pageVisits \union {[visit |-> v, geo |-> geoOf[v], user |-> user]}
  /\ task' = [task EXCEPT ![v] = "done"]
  /\ UNCHANGED <<limiterVars, geoOf, cache, failures>>

Lose(v) ==
  /\ task[v] \notin {"none", "done", "lost"}
  /\ task' = [task EXCEPT ![v] = "lost"]
  /\ UNCHANGED <<limiterVars, geoOf, cache, pageVisits, failures>>

VisitsTime == Tick /\ UNCHANGED trackVars

VisitsNext ==
  \/ VisitsTime
  \/ \E v \in Visits :
       TrackVisit(v) \/ GetGeo(v) \/ SetGeo(v) \/ Store(v) \/ Lose(v)

VisitsSpec == VisitsInit /\ [][VisitsNext]_visitsVars

----------------------------------------------------------------------------
(* Correctness *)

\* The cache never has more entries than Cap, although it is written under a lock of
\* its own, after a lookup that any number of others overtake.
CacheBounded == Cardinality(DOMAIN cache) <= Cap

\* A visit gets no place only when its lookup fails, or when one of its address did no
\* longer than Ttl ago.
EmptyPlacesExplained ==
  [][\A v \in Visits :
       GetGeo(v) /\ task'[v] = "located" /\ geoOf'[v] = "empty" =>
         \E t \in 0 .. clock : <<IpOf[v], t>> \in failures /\ clock <= t + Ttl]_visitsVars
=============================================================================
