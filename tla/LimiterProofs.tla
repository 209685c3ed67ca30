---------------------------- MODULE LimiterProofs ----------------------------
(***************************************************************************)
(* Proofs about RateLimiter, for any requests, limit, window and clock,    *)
(* and about what stands behind it: LoginGuard, for any attempts,          *)
(* threshold and windows, and Visits, for any visits and any cache.  The   *)
(* invariants of the three do not depend on each other.                    *)
(***************************************************************************)
EXTENDS LoginGuard, Visits, FiniteSetTheorems, TLAPS

----------------------------------------------------------------------------
(* The limiter *)

\* The hits of a key are requests admitted under it, at most Rpm; one that was dropped
\* had left the window of a request decided since.
HitsOfKeys ==
  \A k \in Keys :
    /\ \A h \in hits[k] : request[h].pc = "admitted" /\ KeyOf[h] = k
    /\ ~Unlimited => Cardinality(hits[k]) <= Rpm

DroppedWhenOld ==
  \A r \in Requests :
    request[r].pc = "admitted" /\ ~Unlimited =>
      \/ r \in hits[KeyOf[r]]
      \/ \E s \in Requests : Decided(s) /\ request[s].now >= request[r].now + Window

OvertakersDecided == \A s, r \in Requests : <<s, r>> \in overtook => Decided(s)

LimiterInv ==
  /\ LimiterTypeOK
  /\ OvertakersDecided
  /\ HitsOfKeys
  /\ DroppedWhenOld
  /\ AdmittedPerWindow

LEMMA LimiterInitInv == LimiterInit => LimiterInv
<1> SUFFICES ASSUME LimiterInit
             PROVE  LimiterInv
  OBVIOUS
<1>1. LimiterTypeOK
  BY DEF LimiterInit, LimiterTypeOK, RequestState
<1>2. HitsOfKeys
  BY FS_EmptySet, LimitAssumption DEF LimiterInit, HitsOfKeys
<1>3. DroppedWhenOld /\ OvertakersDecided
  BY DEF LimiterInit, DroppedWhenOld, OvertakersDecided
<1>4. ASSUME NEW k \in Keys, NEW w \in 0 .. MaxClock
      PROVE  Cardinality(AdmittedIn(k, w)) <= Rpm
  <2>1. AdmittedIn(k, w) = {}
    BY DEF LimiterInit, AdmittedIn
  <2>. QED
    BY <2>1, FS_EmptySet, LimitAssumption
<1>. QED
  BY <1>1, <1>2, <1>3, <1>4 DEF LimiterInv, AdmittedPerWindow

\* Sets of requests are finite.
LEMMA FiniteRequests ==
  /\ \A S \in SUBSET Requests : IsFiniteSet(S) /\ Cardinality(S) \in Nat
  /\ \A S, T \in SUBSET Requests : S \subseteq T => Cardinality(S) <= Cardinality(T)
  /\ \A S \in SUBSET Requests, r \in Requests : Cardinality(S \union {r}) <= Cardinality(S) + 1
<1>1. \A S \in SUBSET Requests : IsFiniteSet(S) /\ Cardinality(S) \in Nat
  BY RequestsAssumption, FS_Subset, FS_CardinalityType
<1>2. \A S, T \in SUBSET Requests : S \subseteq T => Cardinality(S) <= Cardinality(T)
  BY <1>1, FS_Subset
<1>3. ASSUME NEW S \in SUBSET Requests, NEW r \in Requests
      PROVE  Cardinality(S \union {r}) <= Cardinality(S) + 1
  BY <1>1, FS_AddElement
<1>. QED
  BY <1>1, <1>2, <1>3

LEMMA RequestTypes ==
  ASSUME LimiterTypeOK
  PROVE  \A r \in Requests : /\ request[r] \in RequestState
                             /\ request[r].now \in Nat
                             /\ KeyOf[r] \in Keys
                             /\ hits[KeyOf[r]] \in SUBSET Requests
                             /\ Recent(r) \in SUBSET Requests
BY DEF LimiterTypeOK, RequestState, Keys, Recent

LEMMA AdmitKeeps ==
  ASSUME LimiterInv, NEW a \in Requests, Admit(a)
  PROVE  LimiterInv'
<1> DEFINE k == KeyOf[a]
<1>1. /\ k \in Keys /\ hits[k] \in SUBSET Requests /\ Recent(a) \in SUBSET Requests
      /\ request[a].now \in Nat /\ Window \in Nat /\ Rpm \in Nat
  BY RequestTypes, LimitAssumption DEF LimiterInv
<1>2. /\ clock' = clock
      /\ request[a].pc = "waiting" /\ request'[a].pc = "admitted"
      /\ \A r \in Requests : request'[r].now = request[r].now
      /\ \A r \in Requests \ {a} : request'[r] = request[r]
      /\ overtook' = overtook \union Overtakes(a)
  BY DEF LimiterInv, LimiterTypeOK, RequestState, Admit
<1>3. /\ ~Unlimited => hits'[k] = Recent(a) \union {a} /\ ~Full(a)
      /\ Unlimited => hits' = hits
      /\ \A j \in Keys \ {k} : hits'[j] = hits[j]
  BY <1>1 DEF LimiterInv, LimiterTypeOK, Admit
<1>4. LimiterTypeOK'
  <2>1. hits' \in [Keys -> SUBSET Requests]
    BY <1>1, RequestTypes DEF LimiterInv, LimiterTypeOK, Admit
  <2>2. request' \in [Requests -> RequestState]
    BY DEF LimiterInv, LimiterTypeOK, RequestState, Admit
  <2>3. overtook' \subseteq Requests \X Requests
    BY <1>2 DEF LimiterInv, LimiterTypeOK, Overtakes
  <2>. QED
    BY <1>2, <2>1, <2>2, <2>3 DEF LimiterInv, LimiterTypeOK
<1>5. HitsOfKeys'
  <2>1. ASSUME NEW j \in Keys, NEW h \in hits'[j]
        PROVE  request'[h].pc = "admitted" /\ KeyOf[h] = j
    BY <1>1, <1>2, <1>3, <2>1, RequestTypes DEF LimiterInv, HitsOfKeys, Recent, LimiterTypeOK
  <2>2. ASSUME NEW j \in Keys, ~Unlimited
        PROVE  Cardinality(hits'[j]) <= Rpm
    <3>1. CASE j = k
      <4>1. Cardinality(Recent(a)) \in Nat /\ Cardinality(Recent(a)) < Rpm
        BY <1>1, <1>3, <2>2, FiniteRequests DEF Full
      <4>2. Cardinality(Recent(a) \union {a}) <= Cardinality(Recent(a)) + 1
        BY <1>1, FiniteRequests
      <4>3. Cardinality(Recent(a) \union {a}) \in Nat
        BY <1>1, FiniteRequests
      <4>4. Cardinality(Recent(a) \union {a}) <= Rpm
        BY <1>1, <4>1, <4>2, <4>3
      <4>. QED
        BY <1>3, <2>2, <3>1, <4>4
    <3>2. CASE j # k
      BY <1>3, <2>2, <3>2 DEF LimiterInv, HitsOfKeys
    <3>. QED
      BY <3>1, <3>2
  <2>. QED
    BY <2>1, <2>2 DEF HitsOfKeys, Unlimited
<1>6. \A s \in Requests : Decided(s) => Decided(s)'
  BY <1>2 DEF Decided
<1>7. DroppedWhenOld'
  <2>1. ASSUME NEW r \in Requests, request'[r].pc = "admitted", ~Unlimited
        PROVE  \/ r \in hits'[KeyOf[r]]
               \/ \E s \in Requests : Decided(s)' /\ request'[s].now >= request'[r].now + Window
    <3>1. CASE r = a
      BY <1>3, <2>1, <3>1
    <3>2. CASE r # a /\ r \in hits[KeyOf[r]] /\ r \notin hits'[KeyOf[r]]
      <4>1. KeyOf[r] = k /\ r \notin Recent(a)
        BY <1>1, <1>3, <2>1, <3>2, RequestTypes DEF LimiterInv
      <4>2. request[r].now <= request[a].now - Window
        BY <1>1, <3>2, <4>1, RequestTypes DEF LimiterInv, Recent
      <4>. QED
        BY <1>1, <1>2, <4>2, RequestTypes DEF LimiterInv, Decided
    <3>3. CASE r # a /\ r \notin hits[KeyOf[r]]
      BY <1>2, <1>6, <2>1, <3>3 DEF LimiterInv, DroppedWhenOld
    <3>. QED
      BY <3>1, <3>2, <3>3
  <2>. QED
    BY <2>1 DEF DroppedWhenOld, Unlimited
<1>8. AdmittedPerWindow'
  <2> SUFFICES ASSUME NEW j \in Keys, NEW w \in 0 .. MaxClock, ~Unlimited
               PROVE  \/ Cardinality(AdmittedIn(j, w)') <= Rpm
                      \/ \E r \in AdmittedIn(j, w)', s \in Requests :
                           <<s, r>> \in overtook' /\ request'[s].now > w
    BY DEF AdmittedPerWindow, Unlimited
  <2>1. AdmittedIn(j, w) \in SUBSET Requests /\ w \in Int
    BY DEF AdmittedIn
  <2>2. AdmittedIn(j, w) \subseteq AdmittedIn(j, w)'
    BY <1>2 DEF AdmittedIn
  <2>3. ASSUME NEW r \in AdmittedIn(j, w), NEW s \in Requests,
               <<s, r>> \in overtook, request[s].now > w
        PROVE  \E q \in AdmittedIn(j, w)', p \in Requests :
                 <<p, q>> \in overtook' /\ request'[p].now > w
    BY <1>2, <2>2, <2>3
  <2>4. CASE a \notin AdmittedIn(j, w)'
    <3>1. AdmittedIn(j, w)' = AdmittedIn(j, w)
      BY <1>2, <2>4 DEF AdmittedIn
    <3>. QED
      BY <2>3, <3>1 DEF LimiterInv, AdmittedPerWindow
  <2>5. CASE a \in AdmittedIn(j, w)'
    <3>1. /\ AdmittedIn(j, w)' = AdmittedIn(j, w) \union {a}
          /\ j = k /\ request[a].now <= w /\ w - Window < request[a].now
      BY <1>2, <2>5 DEF AdmittedIn
    <3>2. CASE AdmittedIn(j, w) \subseteq Recent(a)
      <4>1. Cardinality(AdmittedIn(j, w)) <= Cardinality(Recent(a))
        BY <1>1, <2>1, <3>2, FiniteRequests
      <4>2. Cardinality(Recent(a)) < Rpm /\ Cardinality(Recent(a)) \in Nat
        BY <1>1, <1>3, FiniteRequests DEF Full
      <4>3. /\ Cardinality(AdmittedIn(j, w) \union {a}) <= Cardinality(AdmittedIn(j, w)) + 1
            /\ Cardinality(AdmittedIn(j, w)) \in Nat
            /\ Cardinality(AdmittedIn(j, w) \union {a}) \in Nat
        BY <2>1, FiniteRequests
      <4>. QED
        BY <1>1, <3>1, <4>1, <4>2, <4>3
    <3>3. ASSUME NEW r \in AdmittedIn(j, w), r \notin Recent(a)
          PROVE  \E s \in Requests : <<s, a>> \in overtook' /\ request'[s].now > w
      <4>1. /\ r \in Requests /\ KeyOf[r] = k /\ request[r].pc = "admitted"
            /\ request[r].now \in Nat /\ w - Window < request[r].now
        BY <3>1, RequestTypes DEF AdmittedIn, LimiterInv
      <4>2. r \notin hits[k]
        <5>1. request[r].now > request[a].now - Window
          BY <1>1, <2>1, <3>1, <4>1
        <5>. QED
          BY <3>3, <5>1 DEF Recent
      <4>3. PICK s \in Requests : Decided(s) /\ request[s].now >= request[r].now + Window
        BY <4>1, <4>2 DEF LimiterInv, DroppedWhenOld
      <4>4. request[s].now > w /\ request[s].now > request[a].now
        BY <1>1, <2>1, <3>1, <4>1, <4>3, RequestTypes DEF LimiterInv
      <4>5. <<s, a>> \in overtook'
        BY <1>2, <4>3, <4>4 DEF Overtakes
      <4>. QED
        BY <1>2, <4>4, <4>5
    <3>. QED
      BY <2>5, <3>2, <3>3
  <2>. QED
    BY <2>4, <2>5
<1>9. OvertakersDecided'
  BY <1>2, <1>6 DEF LimiterInv, OvertakersDecided, Overtakes
<1>. QED
  BY <1>4, <1>5, <1>7, <1>8, <1>9 DEF LimiterInv

\* A step that admits nobody, and drops no hit that some request decided before or by
\* it still counts.
LEMMA NobodyAdmitted ==
  ASSUME LimiterInv, LimiterTypeOK',
         \A r \in Requests :
           /\ request'[r].pc = "admitted" <=> request[r].pc = "admitted"
           /\ Decided(r) => Decided(r)' /\ request'[r].now = request[r].now,
         \A k \in Keys : hits'[k] \subseteq hits[k],
         \A k \in Keys : \A h \in hits[k] :
           h \in hits'[k] \/ \E s \in Requests :
                                /\ Decided(s)'
                                /\ request'[s].now >= request[h].now + Window,
         overtook \subseteq overtook',
         OvertakersDecided'
  PROVE  LimiterInv'
<1>1. HitsOfKeys'
  <2>1. \A k \in Keys : hits[k] \in SUBSET Requests /\ hits'[k] \in SUBSET Requests
    BY DEF LimiterInv, LimiterTypeOK
  <2>2. \A k \in Keys : /\ Cardinality(hits'[k]) <= Cardinality(hits[k])
                       /\ Cardinality(hits'[k]) \in Nat /\ Cardinality(hits[k]) \in Nat
    BY <2>1, FiniteRequests
  <2>3. \A k \in Keys : ~Unlimited => Cardinality(hits'[k]) <= Rpm
    BY <2>2, LimitAssumption DEF LimiterInv, HitsOfKeys
  <2>4. \A k \in Keys : \A h \in hits'[k] : request'[h].pc = "admitted" /\ KeyOf[h] = k
    BY <2>1 DEF LimiterInv, HitsOfKeys
  <2>. QED
    BY <2>3, <2>4 DEF HitsOfKeys, Unlimited
<1>2. DroppedWhenOld'
  <2>1. ASSUME NEW r \in Requests, request'[r].pc = "admitted", ~Unlimited
        PROVE  \/ r \in hits'[KeyOf[r]]
               \/ \E s \in Requests : Decided(s)' /\ request'[s].now >= request'[r].now + Window
    <3>1. Decided(r) /\ request'[r].now = request[r].now /\ KeyOf[r] \in Keys
      BY <2>1, RequestTypes DEF LimiterInv, Decided
    <3>2. CASE r \in hits[KeyOf[r]]
      BY <3>1, <3>2
    <3>3. CASE r \notin hits[KeyOf[r]]
      <4>1. PICK s \in Requests : Decided(s) /\ request[s].now >= request[r].now + Window
        BY <2>1, <3>3 DEF LimiterInv, DroppedWhenOld
      <4>. QED
        BY <3>1, <4>1
    <3>. QED
      BY <3>2, <3>3
  <2>. QED
    BY <2>1 DEF DroppedWhenOld, Unlimited
<1>3. AdmittedPerWindow'
  <2>1. ASSUME NEW k \in Keys, NEW w \in 0 .. MaxClock
        PROVE  AdmittedIn(k, w)' = AdmittedIn(k, w)
    BY DEF AdmittedIn, Decided
  <2>2. ASSUME NEW k \in Keys, NEW w \in 0 .. MaxClock, ~Unlimited
        PROVE  \/ Cardinality(AdmittedIn(k, w)') <= Rpm
               \/ \E r \in AdmittedIn(k, w)', s \in Requests :
                    <<s, r>> \in overtook' /\ request'[s].now > w
    <3>1. CASE Cardinality(AdmittedIn(k, w)) <= Rpm
      BY <2>1, <3>1
    <3>2. CASE \E r \in AdmittedIn(k, w), s \in Requests :
                 <<s, r>> \in overtook /\ request[s].now > w
      <4>1. PICK r \in AdmittedIn(k, w), s \in Requests :
              <<s, r>> \in overtook /\ request[s].now > w
        BY <3>2
      <4>2. r \in Requests /\ Decided(s)
        BY <4>1 DEF LimiterInv, OvertakersDecided, AdmittedIn
      <4>. QED
        BY <2>1, <4>1, <4>2
    <3>. QED
      BY <2>2, <3>1, <3>2 DEF LimiterInv, AdmittedPerWindow
  <2>. QED
    BY <2>2 DEF AdmittedPerWindow, Unlimited
<1>. QED
  BY <1>1, <1>2, <1>3 DEF LimiterInv

LEMMA RefuseKeeps ==
  ASSUME LimiterInv, NEW a \in Requests, Refuse(a)
  PROVE  LimiterInv'
<1> DEFINE k == KeyOf[a]
<1>1. /\ k \in Keys /\ hits[k] \in SUBSET Requests
      /\ request[a].now \in Nat /\ Window \in Nat
  BY RequestTypes, LimitAssumption DEF LimiterInv
<1>2. /\ clock' = clock
      /\ request[a].pc = "waiting" /\ request'[a].pc = "refused"
      /\ \A r \in Requests : request'[r].now = request[r].now
      /\ \A r \in Requests \ {a} : request'[r] = request[r]
      /\ overtook' = overtook \union Overtakes(a)
  BY DEF LimiterInv, LimiterTypeOK, RequestState, Refuse
<1>3. /\ hits'[k] = StoredByRefusal(a) /\ Recent(a) \subseteq hits'[k] /\ hits'[k] \subseteq hits[k]
      /\ \A j \in Keys \ {k} : hits'[j] = hits[j]
  BY <1>1 DEF LimiterInv, LimiterTypeOK, Refuse, StoredByRefusal, Recent
<1>4. LimiterTypeOK'
  <2>1. hits' \in [Keys -> SUBSET Requests]
    BY <1>1, <1>3 DEF LimiterInv, LimiterTypeOK, Refuse
  <2>2. request' \in [Requests -> RequestState]
    BY DEF LimiterInv, LimiterTypeOK, RequestState, Refuse
  <2>3. overtook' \subseteq Requests \X Requests
    BY <1>2 DEF LimiterInv, LimiterTypeOK, Overtakes
  <2>. QED
    BY <1>2, <2>1, <2>2, <2>3 DEF LimiterInv, LimiterTypeOK
<1>5. \A r \in Requests : /\ request'[r].pc = "admitted" <=> request[r].pc = "admitted"
                          /\ Decided(r) => Decided(r)' /\ request'[r].now = request[r].now
  BY <1>2 DEF Decided
<1>6. ASSUME NEW j \in Keys, NEW h \in hits[j], h \notin hits'[j]
      PROVE  \E s \in Requests : Decided(s)' /\ request'[s].now >= request[h].now + Window
  <2>1. j = k /\ h \notin Recent(a) /\ h \in Requests
    BY <1>1, <1>3, <1>6
  <2>2. request[h].now <= request[a].now - Window
    BY <1>1, <1>6, <2>1, RequestTypes DEF LimiterInv, Recent
  <2>. QED
    BY <1>1, <1>2, <2>1, <2>2, RequestTypes DEF LimiterInv, Decided
<1>7. OvertakersDecided'
  BY <1>2, <1>5 DEF LimiterInv, OvertakersDecided, Overtakes
<1>8. \A j \in Keys : hits'[j] \subseteq hits[j]
  BY <1>3
<1>9. overtook \subseteq overtook'
  BY <1>2
<1>. QED
  BY <1>4, <1>5, <1>6, <1>7, <1>8, <1>9, NobodyAdmitted

LEMMA LimiterNextInv == LimiterInv /\ [LimiterNext]_limiterVars => LimiterInv'
<1> SUFFICES ASSUME LimiterInv, [LimiterNext]_limiterVars
             PROVE  LimiterInv'
  OBVIOUS
<1>1. ASSUME NEW r \in Requests, ReadClock(r)
      PROVE  LimiterInv'
  <2>1. /\ request[r].pc = "idle" /\ request'[r].pc = "waiting"
        /\ \A s \in Requests \ {r} : request'[s] = request[s]
        /\ UNCHANGED <<hits, overtook>>
    BY <1>1 DEF LimiterInv, LimiterTypeOK, RequestState, ReadClock
  <2>2. LimiterTypeOK'
    BY <1>1 DEF LimiterInv, LimiterTypeOK, RequestState, ReadClock
  <2>3. \A s \in Requests : /\ request'[s].pc = "admitted" <=> request[s].pc = "admitted"
                            /\ Decided(s) => Decided(s)' /\ request'[s].now = request[s].now
    BY <2>1 DEF Decided
  <2>4. OvertakersDecided'
    BY <2>1, <2>3 DEF LimiterInv, OvertakersDecided
  <2>. QED
    BY <2>1, <2>2, <2>3, <2>4, NobodyAdmitted
<1>2. CASE Tick \/ UNCHANGED limiterVars
  <2>1. UNCHANGED <<hits, request, overtook>> /\ clock' \in Nat
    BY <1>2 DEF Tick, limiterVars, LimiterInv, LimiterTypeOK
  <2>2. LimiterTypeOK'
    BY <2>1 DEF LimiterInv, LimiterTypeOK
  <2>3. \A s \in Requests : Decided(s)' = Decided(s)
    BY <2>1 DEF Decided
  <2>4. OvertakersDecided'
    BY <2>1, <2>3 DEF LimiterInv, OvertakersDecided
  <2>. QED
    BY <2>1, <2>2, <2>3, <2>4, NobodyAdmitted
<1>. QED
  BY <1>1, <1>2, AdmitKeeps, RefuseKeeps DEF LimiterNext

LEMMA LimiterInvariance == LimiterSpec => []LimiterInv
BY LimiterInitInv, LimiterNextInv, PTL DEF LimiterSpec

----------------------------------------------------------------------------
(* Theorems *)

\* More than Rpm requests are admitted in a window only if one of them was overtaken.
THEOREM WindowsHold == LimiterSpec => []AdmittedPerWindow
<1>1. LimiterInv => AdmittedPerWindow
  BY DEF LimiterInv
<1>. QED
  BY <1>1, LimiterInvariance, PTL

\* A full list has nothing to drop.
LEMMA RefusalsDropNothing ==
  ASSUME LimiterInv, NEW r \in Requests, Full(r), ~Unlimited
  PROVE  Recent(r) = hits[KeyOf[r]]
<1>1. /\ KeyOf[r] \in Keys /\ hits[KeyOf[r]] \in SUBSET Requests
      /\ Recent(r) \subseteq hits[KeyOf[r]]
  BY RequestTypes DEF LimiterInv, Recent
<1>2. /\ IsFiniteSet(hits[KeyOf[r]])
      /\ Cardinality(hits[KeyOf[r]]) \in Nat /\ Cardinality(Recent(r)) \in Nat
  BY <1>1, FiniteRequests
<1>3. Cardinality(hits[KeyOf[r]]) <= Rpm /\ Cardinality(Recent(r)) >= Rpm
  BY <1>1 DEF LimiterInv, HitsOfKeys, Full
<1>4. Cardinality(hits[KeyOf[r]]) = Cardinality(Recent(r))
  <2>1. Cardinality(Recent(r)) <= Cardinality(hits[KeyOf[r]])
    BY <1>1, FiniteRequests
  <2>. QED
    BY <1>2, <1>3, <2>1, LimitAssumption
<1>. QED
  BY <1>1, <1>2, <1>4, FS_Subset

\* With a positive limit, keyedLimiter and the limiter of the middleware are one: each
\* step of the first is a step of the second.
THEOREM OneLimiter == Rpm # 0 => (LimiterSpec => SameAsMiddleware)
<1> SUFFICES ASSUME Rpm # 0
             PROVE  LimiterSpec => SameAsMiddleware
  OBVIOUS
<1>1. LimiterInit => Middleware!LimiterInit
  BY DEF LimiterInit, Middleware!LimiterInit, Keys, Middleware!Keys
<1>2. LimiterInv /\ [LimiterNext]_limiterVars => [Middleware!LimiterNext]_(Middleware!limiterVars)
  <2> SUFFICES ASSUME LimiterInv, [LimiterNext]_limiterVars
               PROVE  [Middleware!LimiterNext]_(Middleware!limiterVars)
    OBVIOUS
  <2>1. ~Unlimited /\ ~Middleware!Unlimited
    BY DEF Unlimited, Middleware!Unlimited
  <2>2. CASE Tick
    BY <2>2 DEF Tick, Middleware!Tick, Middleware!LimiterNext
  <2>3. ASSUME NEW r \in Requests, ReadClock(r)
        PROVE  Middleware!ReadClock(r)
    BY <2>3 DEF ReadClock, Middleware!ReadClock
  <2>4. ASSUME NEW r \in Requests
        PROVE  /\ Middleware!Recent(r) = Recent(r)
               /\ Middleware!Full(r) <=> Full(r)
               /\ Middleware!Overtakes(r) = Overtakes(r)
    <3>1. Middleware!Recent(r) = Recent(r)
      BY DEF Recent, Middleware!Recent
    <3>2. Middleware!Cardinality(Recent(r)) = Cardinality(Recent(r))
      BY DEF Cardinality, Middleware!Cardinality
    <3>3. Middleware!Overtakes(r) = Overtakes(r)
      BY DEF Overtakes, Decided, Middleware!Overtakes, Middleware!Decided
    <3>. QED
      BY <3>1, <3>2, <3>3 DEF Full, Middleware!Full
  <2>5. ASSUME NEW r \in Requests, Admit(r)
        PROVE  Middleware!Admit(r)
    BY <2>1, <2>4, <2>5 DEF Admit, Middleware!Admit
  <2>6. ASSUME NEW r \in Requests, Refuse(r)
        PROVE  Middleware!Refuse(r)
    <3>1. StoredByRefusal(r) = Middleware!StoredByRefusal(r)
      BY <2>1, <2>6, RefusalsDropNothing DEF Refuse, StoredByRefusal, Middleware!StoredByRefusal
    <3>. QED
      BY <2>1, <2>4, <2>6, <3>1 DEF Refuse, Middleware!Refuse
  <2>7. CASE UNCHANGED limiterVars
    BY <2>7 DEF limiterVars, Middleware!limiterVars
  <2>. QED
    BY <2>2, <2>3, <2>5, <2>6, <2>7 DEF LimiterNext, Middleware!LimiterNext
<1>. QED
  BY <1>1, <1>2, LimiterInvariance, PTL DEF LimiterSpec, SameAsMiddleware, Middleware!LimiterSpec

----------------------------------------------------------------------------
(* The login guard *)

Steps == {"limiter", "lock", "password", "count", "end"}

GuardTypeOK ==
  /\ clock \in Nat
  /\ step \in [Attempts -> Steps]
  /\ events \subseteq [type : EventTypes, by : Attempts, at : Nat]
  /\ IsFiniteSet(events)
  /\ \A v \in events : v.at <= clock

\* The failures an attempt could have counted when it passed the lock, of those that
\* still count: none of them was logged since, and no success was.
Countable(a) ==
  {F \in SUBSET EventsOf(Email(a), "login_failed") :
     \A f \in F : /\ <<f.by, a>> \notin meanwhile
                  /\ clock <= f.at + LockWindow
                  /\ \A s \in EventsOf(Email(a), "login_success") : s.at < f.at}

\* Whoever may enter a password was not over the threshold, by what was logged before.
UnderThreshold ==
  \A a \in Attempts \ blind :
    step[a] = "password" => \A F \in Countable(a) : Cardinality(F) < Threshold

IInv ==
  /\ GuardTypeOK
  /\ UnderThreshold
  /\ LockHolds

LEMMA InitIInv == Init => IInv
<1> SUFFICES ASSUME Init
             PROVE  IInv
  OBVIOUS
<1>1. GuardTypeOK
  BY FS_EmptySet DEF Init, LimiterInit, GuardTypeOK, Steps
<1>2. UnderThreshold
  BY DEF Init, UnderThreshold
<1>3. LockHolds
  <2> SUFFICES ASSUME NEW e \in Keys, NEW F \in Runs(e)
               PROVE  Cardinality(F) <= Threshold
    BY DEF LockHolds
  <2>1. F = {}
    BY DEF Init, Runs, EventsOf
  <2>. QED
    BY <2>1, FS_EmptySet, ThresholdAssumption
<1>. QED
  BY <1>1, <1>2, <1>3 DEF IInv

\* A step that logs no failure, and leads nobody past the lock, keeps the invariant.
LEMMA NoFailureKeeps ==
  ASSUME IInv, GuardTypeOK', clock <= clock', blind \subseteq blind', meanwhile' = meanwhile,
         events \subseteq events',
         \A v \in events' \ events : v.type # "login_failed",
         \A a \in Attempts \ blind' : step'[a] = "password" => step[a] = "password"
  PROVE  IInv'
<1>1. \A e : /\ EventsOf(e, "login_failed")' = EventsOf(e, "login_failed")
             /\ EventsOf(e, "login_success") \subseteq EventsOf(e, "login_success")'
  BY DEF EventsOf
<1>2. UnderThreshold'
  <2> SUFFICES ASSUME NEW a \in Attempts \ blind', step'[a] = "password", NEW F \in Countable(a)'
               PROVE  Cardinality(F) < Threshold
    BY DEF UnderThreshold
  <2>1. F \in Countable(a)
    <3>1. F \in SUBSET EventsOf(Email(a), "login_failed")
      BY <1>1 DEF Countable
    <3>2. ASSUME NEW f \in F
          PROVE  /\ <<f.by, a>> \notin meanwhile
                 /\ clock <= f.at + LockWindow
                 /\ \A s \in EventsOf(Email(a), "login_success") : s.at < f.at
      <4>1. /\ <<f.by, a>> \notin meanwhile'
            /\ clock' <= f.at + LockWindow
            /\ \A s \in EventsOf(Email(a), "login_success")' : s.at < f.at
        BY DEF Countable
      <4>2. f \in events
        BY <3>1 DEF EventsOf
      <4>3. f.at \in Nat /\ clock \in Nat /\ clock' \in Nat /\ LockWindow \in Nat
        BY <4>2, ThresholdAssumption DEF IInv, GuardTypeOK
      <4>. QED
        BY <4>1, <4>3, <1>1
    <3>. QED
      BY <3>1, <3>2 DEF Countable
  <2>2. step[a] = "password" /\ a \notin blind
    OBVIOUS
  <2>. QED
    BY <2>1, <2>2 DEF IInv, UnderThreshold
<1>3. LockHolds'
  <2> SUFFICES ASSUME NEW e \in Keys, NEW F \in Runs(e)'
               PROVE  \/ Cardinality(F) <= Threshold
                      \/ \E f \in F : f.by \in blind'
                      \/ \E f, g \in F : <<f.by, g.by>> \in meanwhile'
    BY DEF LockHolds, Keys
  <2>1. F \in Runs(e)
    BY <1>1 DEF Runs
  <2>. QED
    BY <2>1 DEF IInv, LockHolds
<1>. QED
  BY <1>2, <1>3 DEF IInv

----------------------------------------------------------------------------
(* What a step does to the log *)

LEMMA LogIsTyped ==
  ASSUME GuardTypeOK, NEW type \in EventTypes, NEW a \in Attempts, Log(type, a), clock' = clock
  PROVE  /\ events \subseteq events' /\ events' \subseteq events \union {Event(type, a)}
         /\ events' \subseteq [type : EventTypes, by : Attempts, at : Nat]
         /\ IsFiniteSet(events')
         /\ \A v \in events' : v.at <= clock'
<1>1. events' = events \union {Event(type, a)} \/ events' = events
  BY DEF Log, Fault
<1>2. IsFiniteSet(events \union {Event(type, a)})
  BY FS_AddElement DEF GuardTypeOK
<1>3. /\ Event(type, a) \in [type : EventTypes, by : Attempts, at : Nat]
      /\ Event(type, a).at = clock /\ clock <= clock
  BY DEF Event, GuardTypeOK
<1>. QED
  BY <1>1, <1>2, <1>3 DEF GuardTypeOK

\* A step of an attempt that ends, or waits, with or without an event that is no failure.
LEMMA QuietStepKeeps ==
  ASSUME IInv, NEW a \in Attempts, NEW type \in EventTypes \ {"login_failed"},
         Log(type, a) \/ events' = events, clock' = clock, UNCHANGED <<blind, meanwhile>>,
         step' = step \/ \E s \in Steps \ {"password"} : step' = [step EXCEPT ![a] = s]
  PROVE  IInv'
<1>1. /\ events \subseteq events' /\ events' \subseteq events \union {Event(type, a)}
      /\ events' \subseteq [type : EventTypes, by : Attempts, at : Nat]
      /\ IsFiniteSet(events')
      /\ \A v \in events' : v.at <= clock'
  BY LogIsTyped DEF IInv, GuardTypeOK
<1>2. step' \in [Attempts -> Steps] /\ \A b \in Attempts : step'[b] = "password" => step[b] = "password"
  BY DEF IInv, GuardTypeOK
<1>3. GuardTypeOK'
  BY <1>1, <1>2 DEF IInv, GuardTypeOK
<1>4. \A v \in events' \ events : v.type # "login_failed"
  BY <1>1 DEF Event
<1>5. clock <= clock'
  BY DEF IInv, GuardTypeOK
<1>. QED
  BY <1>1, <1>2, <1>3, <1>4, <1>5, NoFailureKeeps

\* What is countable for an attempt at the lock is what CheckLoginLock counts.
LEMMA CountedAtTheLock ==
  ASSUME IInv, NEW a \in Attempts, ~Locked(Email(a)), NEW F \in Countable(a)
  PROVE  Cardinality(F) < Threshold
<1> DEFINE counted == Failures(Email(a), LockWindow)
<1>1. F \subseteq counted
  <2> SUFFICES ASSUME NEW f \in F
               PROVE  f \in counted
    OBVIOUS
  <2>1. f \in EventsOf(Email(a), "login_failed") /\ f \in events
    BY DEF Countable, EventsOf
  <2>2. f.at \in Nat /\ clock \in Nat /\ LockWindow \in Nat
    BY <2>1, ThresholdAssumption DEF IInv, GuardTypeOK
  <2>3. clock <= f.at + LockWindow
    BY DEF Countable
  <2>4. \A s \in EventsOf(Email(a), "login_success") : f.at >= s.at
    <3> SUFFICES ASSUME NEW s \in EventsOf(Email(a), "login_success")
                 PROVE  f.at >= s.at
      OBVIOUS
    <3>1. s.at \in Nat
      BY DEF EventsOf, IInv, GuardTypeOK
    <3>2. s.at < f.at
      BY DEF Countable
    <3>. QED
      BY <3>1, <3>2, <2>2
  <2>. QED
    BY <2>1, <2>2, <2>3, <2>4 DEF Failures
<1>2. counted \subseteq events /\ IsFiniteSet(events)
  BY DEF Failures, EventsOf, IInv, GuardTypeOK
<1>3. IsFiniteSet(counted)
  BY <1>2, FS_Subset
<1>4. Cardinality(F) <= Cardinality(counted) /\ IsFiniteSet(F)
  BY <1>1, <1>3, FS_Subset
<1>5. Cardinality(F) \in Nat /\ Cardinality(counted) \in Nat
  BY <1>3, <1>4, FS_CardinalityType
<1>6. Cardinality(counted) < Threshold
  BY <1>5, ThresholdAssumption DEF Locked
<1>. QED
  BY <1>4, <1>5, <1>6, ThresholdAssumption

LEMMA CheckLockKeeps == ASSUME IInv, NEW a \in Attempts, CheckLock(a) PROVE IInv'
<1>1. clock' = clock /\ meanwhile' = meanwhile
  BY DEF CheckLock, limiterVars
<1>2. CASE Goes(a, "end") /\ Log("login_blocked", a) /\ UNCHANGED blind
  BY <1>1, <1>2, QuietStepKeeps DEF Goes, EventTypes, Steps
<1>3. CASE /\ Goes(a, "password") /\ events' = events
           /\ \/ ~Locked(Email(a)) /\ blind' = blind
              \/ blind' = blind \union {a}
  <2>1. GuardTypeOK'
    BY <1>1, <1>3 DEF IInv, GuardTypeOK, Goes, Steps
  <2>2. \A b \in Attempts \ {a} : step'[b] = step[b]
    BY <1>3 DEF Goes, IInv, GuardTypeOK
  <2>3. \A b \in Attempts : Countable(b)' = Countable(b)
    BY <1>1, <1>3 DEF Countable, EventsOf
  <2>4. UnderThreshold'
    <3> SUFFICES ASSUME NEW b \in Attempts \ blind', step'[b] = "password", NEW F \in Countable(b)'
                 PROVE  Cardinality(F) < Threshold
      BY DEF UnderThreshold
    <3>1. CASE b = a
      BY <1>3, <2>3, <3>1, CountedAtTheLock
    <3>2. CASE b # a
      BY <1>3, <2>2, <2>3, <3>2 DEF IInv, UnderThreshold
    <3>. QED
      BY <3>1, <3>2
  <2>5. LockHolds'
    <3>1. \A e \in Keys : Runs(e)' = Runs(e)
      BY <1>3 DEF Runs, EventsOf
    <3>2. blind \subseteq blind'
      BY <1>3
    <3>. QED
      BY <1>1, <3>1, <3>2 DEF IInv, LockHolds, Keys
  <2>. QED
    BY <2>1, <2>4, <2>5 DEF IInv
<1>. QED
  BY <1>2, <1>3 DEF CheckLock, Fault

\* The failure that is logged was not counted at the lock, but the others were.
LEMMA LogFailureKeeps == ASSUME IInv, NEW a \in Attempts, LogFailure(a) PROVE IInv'
<1> DEFINE new == Event("login_failed", a)
<1>1. /\ clock' = clock /\ blind' = blind /\ step[a] = "password"
      /\ meanwhile' = meanwhile \union {<<a, b>> : b \in {c \in Attempts \ {a} : step[c] = "password"}}
      /\ step' = [step EXCEPT ![a] = "count"]
  BY DEF LogFailure, limiterVars, Goes
<1>2. /\ events \subseteq events' /\ events' \subseteq events \union {new}
      /\ events' \subseteq [type : EventTypes, by : Attempts, at : Nat]
      /\ IsFiniteSet(events')
      /\ \A v \in events' : v.at <= clock'
  <2>1. Log("login_failed", a) /\ "login_failed" \in EventTypes
    BY DEF LogFailure, EventTypes
  <2>. QED
    BY <1>1, <2>1, LogIsTyped DEF IInv
<1>3. new.by = a /\ new.at = clock /\ new.type = "login_failed"
  BY DEF Event
<1>4. GuardTypeOK'
  BY <1>1, <1>2 DEF IInv, GuardTypeOK, Steps
<1>5. \A e : /\ EventsOf(e, "login_success")' = EventsOf(e, "login_success")
             /\ EventsOf(e, "login_failed")' \subseteq EventsOf(e, "login_failed") \union {new}
  BY <1>2, <1>3 DEF EventsOf
<1>6. UnderThreshold'
  <2> SUFFICES ASSUME NEW b \in Attempts \ blind', step'[b] = "password", NEW F \in Countable(b)'
               PROVE  Cardinality(F) < Threshold
    BY DEF UnderThreshold
  <2>1. b # a /\ step[b] = "password" /\ b \notin blind
    BY <1>1 DEF IInv, GuardTypeOK
  <2>2. \A f \in F : /\ <<f.by, b>> \notin meanwhile'
                     /\ clock <= f.at + LockWindow
                     /\ \A s \in EventsOf(Email(b), "login_success") : s.at < f.at
    BY <1>1, <1>5 DEF Countable
  <2>3. <<a, b>> \in meanwhile' /\ meanwhile \subseteq meanwhile'
    BY <1>1, <2>1
  <2>4. new \notin F
    BY <1>3, <2>2, <2>3
  <2>5. F \in SUBSET EventsOf(Email(b), "login_failed")
    BY <1>5, <2>4 DEF Countable
  <2>6. F \in Countable(b)
    BY <2>2, <2>3, <2>5 DEF Countable
  <2>. QED
    BY <2>1, <2>6 DEF IInv, UnderThreshold
<1>7. LockHolds'
  <2> SUFFICES ASSUME NEW e \in Keys, NEW F \in Runs(e)',
                      \A f \in F : f.by \notin blind',
                      \A f, g \in F : <<f.by, g.by>> \notin meanwhile'
               PROVE  Cardinality(F) <= Threshold
    BY DEF LockHolds, Keys
  <2>1. meanwhile \subseteq meanwhile'
    BY <1>1
  <2>2. /\ F \subseteq EventsOf(e, "login_failed") \union {new}
        /\ \A f, g \in F : f.at - g.at <= LockWindow
        /\ \A s \in EventsOf(e, "login_success"), f \in F : s.at < f.at
    BY <1>5 DEF Runs
  <2>3. CASE new \notin F
    <3>1. F \in Runs(e)
      BY <2>2, <2>3 DEF Runs
    <3>. QED
      BY <1>1, <2>1, <3>1 DEF IInv, LockHolds
  <2>4. CASE new \in F
    <3> DEFINE counted == F \ {new}
    <3>1. Email(a) = e
      BY <1>3, <2>4 DEF Runs, EventsOf
    <3>2. counted \in SUBSET EventsOf(Email(a), "login_failed")
      BY <2>2, <3>1
    <3>3. ASSUME NEW f \in counted
          PROVE  /\ <<f.by, a>> \notin meanwhile
                 /\ clock <= f.at + LockWindow
                 /\ \A s \in EventsOf(Email(a), "login_success") : s.at < f.at
      <4>1. <<f.by, new.by>> \notin meanwhile' /\ new.at - f.at <= LockWindow
        BY <2>2, <2>4
      <4>2. f.at \in Nat /\ clock \in Nat /\ LockWindow \in Nat
        BY <3>2, ThresholdAssumption DEF EventsOf, IInv, GuardTypeOK
      <4>. QED
        BY <1>3, <2>1, <2>2, <3>1, <4>1, <4>2
    <3>4. counted \in Countable(a)
      BY <3>2, <3>3 DEF Countable
    <3>5. a \notin blind
      BY <1>1, <1>3, <2>4
    <3>6. Cardinality(counted) < Threshold
      BY <1>1, <3>4, <3>5 DEF IInv, UnderThreshold
    <3>7. F \in SUBSET events'
      BY DEF Runs, EventsOf
    <3>8. IsFiniteSet(F)
      BY <1>2, <3>7, FS_Subset
    <3>9. Cardinality(counted) = Cardinality(F) - 1 /\ Cardinality(F) \in Nat
      BY <2>4, <3>8, FS_RemoveElement, FS_CardinalityType
    <3>. QED
      BY <3>6, <3>9, ThresholdAssumption
  <2>. QED
    BY <2>3, <2>4
<1>. QED
  BY <1>4, <1>6, <1>7 DEF IInv

----------------------------------------------------------------------------
(* Every step *)

LEMMA EmailActionKeeps == ASSUME IInv, NEW a \in Attempts, EmailAction(a) PROVE IInv'
<1>1. clock' = clock /\ UNCHANGED <<blind, meanwhile>>
  BY DEF EmailAction, ReadClock, Admit, Refuse
<1>2. /\ "login_rate_limited" \in EventTypes \ {"login_failed"}
      /\ "lock" \in Steps \ {"password"} /\ "end" \in Steps \ {"password"}
  BY DEF EventTypes, Steps
<1>3. CASE ReadClock(a) /\ UNCHANGED <<step, events, faults>>
  BY <1>1, <1>2, <1>3, QuietStepKeeps
<1>4. CASE Admit(a) /\ Goes(a, "lock") /\ UNCHANGED <<events, faults>>
  BY <1>1, <1>2, <1>4, QuietStepKeeps DEF Goes
<1>5. CASE Refuse(a) /\ Goes(a, "end") /\ Log("login_rate_limited", a)
  BY <1>1, <1>2, <1>5, QuietStepKeeps DEF Goes
<1>. QED
  BY <1>3, <1>4, <1>5 DEF EmailAction

LEMMA EndKeeps ==
  ASSUME IInv, NEW a \in Attempts,
         CaptchaFailed(a) \/ Unverified(a) \/ LogLocked(a) \/ LogSuccess(a)
  PROVE  IInv'
<1>1. /\ clock' = clock /\ UNCHANGED <<blind, meanwhile>>
      /\ step' = [step EXCEPT ![a] = "end"]
  BY DEF CaptchaFailed, Unverified, LogLocked, LogSuccess, limiterVars, Goes
<1>2. "end" \in Steps \ {"password"}
  BY DEF Steps
<1>3. \E type \in EventTypes \ {"login_failed"} : Log(type, a) \/ events' = events
  <2>1. /\ "login_captcha_failed" \in EventTypes \ {"login_failed"}
        /\ "login_locked" \in EventTypes \ {"login_failed"}
        /\ "login_success" \in EventTypes \ {"login_failed"}
    BY DEF EventTypes
  <2>. QED
    BY <2>1 DEF CaptchaFailed, Unverified, LogLocked, LogSuccess
<1>. QED
  BY <1>1, <1>2, <1>3, QuietStepKeeps

LEMMA NextIInv == IInv /\ [Next]_vars => IInv'
<1> SUFFICES ASSUME IInv, [Next]_vars
             PROVE  IInv'
  OBVIOUS
<1>1. ASSUME NEW a \in Attempts, Attempt(a)
      PROVE  IInv'
  BY <1>1, EmailActionKeeps, CheckLockKeeps, LogFailureKeeps, EndKeeps DEF Attempt
<1>2. CASE Time \/ UNCHANGED vars
  <2>1. UNCHANGED guardVars /\ clock' \in Nat /\ clock <= clock'
    BY <1>2 DEF Time, Tick, vars, limiterVars, IInv, GuardTypeOK
  <2>2. GuardTypeOK'
    <3>1. \A v \in events : v.at \in Nat /\ v.at <= clock
      BY DEF IInv, GuardTypeOK
    <3>. QED
      BY <2>1, <3>1 DEF guardVars, IInv, GuardTypeOK
  <2>. QED
    BY <2>1, <2>2, NoFailureKeeps DEF guardVars
<1>. QED
  BY <1>1, <1>2 DEF Next

LEMMA Invariance == Spec => []IInv
BY InitIInv, NextIInv, PTL DEF Spec

\* The lock lets no more than Threshold passwords fail in a run, but for attempts that
\* overlap and checks that could not count (CheckLoginLock, LogLoginFailure).
THEOREM LockHoldsAlways == Spec => []LockHolds
<1>1. IInv => LockHolds
  BY DEF IInv
<1>. QED
  BY <1>1, Invariance, PTL

\* The limiter in front of the logins is keyedLimiter, whatever they do then.
LEMMA LoginsAreLimited == Spec => LimiterSpec
<1>1. Init => LimiterInit
  BY DEF Init
<1>2. [Next]_vars => [LimiterNext]_limiterVars
  <2> SUFFICES ASSUME [Next]_vars
               PROVE  [LimiterNext]_limiterVars
    OBVIOUS
  <2>1. ASSUME NEW a \in Attempts, EmailAction(a)
        PROVE  LimiterNext
    BY <2>1 DEF EmailAction, LimiterNext, Attempts
  <2>2. ASSUME NEW a \in Attempts, Attempt(a), ~EmailAction(a)
        PROVE  UNCHANGED limiterVars
    BY <2>2 DEF Attempt, CheckLock, CaptchaFailed, Unverified, LogFailure, LogLocked, LogSuccess
  <2>3. CASE Time \/ UNCHANGED vars
    BY <2>3 DEF Time, LimiterNext, vars
  <2>. QED
    BY <2>1, <2>2, <2>3 DEF Next
<1>. QED
  BY <1>1, <1>2, PTL DEF Spec, LimiterSpec

\* Every reachable state has the types of TypeOK.
THEOREM GuardTypeCorrect == Spec => []TypeOK
<1> DEFINE HistoryTyped == /\ faults \in Nat
                           /\ blind \subseteq Attempts
                           /\ meanwhile \subseteq Attempts \X Attempts
<1>1. Init => HistoryTyped
  BY DEF Init
<1>2. HistoryTyped /\ [Next]_vars => HistoryTyped'
  <2> SUFFICES ASSUME HistoryTyped, [Next]_vars
               PROVE  HistoryTyped'
    OBVIOUS
  <2>1. ASSUME NEW a \in Attempts, Attempt(a)
        PROVE  HistoryTyped'
    <3>1. faults' = faults \/ faults' = faults + 1
      BY <2>1 DEF Attempt, EmailAction, CheckLock, CaptchaFailed, Unverified, LogFailure,
                  LogLocked, LogSuccess, Log, Fault
    <3>2. blind' = blind \/ blind' = blind \union {a}
      BY <2>1 DEF Attempt, EmailAction, CheckLock, CaptchaFailed, Unverified, LogFailure,
                  LogLocked, LogSuccess
    <3>3. meanwhile' = meanwhile \/ \E S \in SUBSET Attempts : meanwhile' = meanwhile \union {<<a, b>> : b \in S}
      BY <2>1 DEF Attempt, EmailAction, CheckLock, CaptchaFailed, Unverified, LogFailure,
                  LogLocked, LogSuccess
    <3>. QED
      BY <3>1, <3>2, <3>3
  <2>2. CASE Time \/ UNCHANGED vars
    BY <2>2 DEF Time, guardVars, vars
  <2>. QED
    BY <2>1, <2>2 DEF Next
<1>3. HistoryTyped /\ IInv /\ LimiterInv => TypeOK
  BY DEF IInv, GuardTypeOK, LimiterInv, TypeOK, Steps
<1>. QED
  BY <1>1, <1>2, <1>3, Invariance, LoginsAreLimited, LimiterInvariance, PTL DEF Spec

\* With a positive limit, logins are limited as the middleware limits requests.
THEOREM LoginsLikeRequests == Rpm # 0 => (Spec => SameAsMiddleware)
BY LoginsAreLimited, OneLimiter

----------------------------------------------------------------------------
(* Visits *)

Tasks == {"none", "start", "lookup", "located", "done", "lost"}

TrackTypeOK ==
  /\ clock \in Nat
  /\ task \in [Visits -> Tasks]
  /\ geoOf \in [Visits -> Geos]
  /\ IsFiniteSet(DOMAIN cache)
  /\ \A ip \in DOMAIN cache : cache[ip].geo \in Geos /\ cache[ip].expires \in Nat

\* An address cached without a place is one whose lookup failed Ttl before its expiry.
CachedFailures ==
  \A ip \in DOMAIN cache :
    cache[ip].geo = "empty" => \E t \in 0 .. clock : <<ip, t>> \in failures /\ cache[ip].expires = t + Ttl

VisitsInv ==
  /\ TrackTypeOK
  /\ CachedFailures
  /\ CacheBounded

LEMMA VisitsInitInv == VisitsInit => VisitsInv
<1> SUFFICES ASSUME VisitsInit
             PROVE  VisitsInv
  OBVIOUS
<1>1. DOMAIN cache = {} /\ IsFiniteSet(DOMAIN cache) /\ Cardinality(DOMAIN cache) = 0
  BY FS_EmptySet DEF VisitsInit
<1>2. TrackTypeOK /\ CachedFailures
  BY <1>1 DEF VisitsInit, LimiterInit, TrackTypeOK, CachedFailures, Tasks, Geos
<1>3. CacheBounded
  BY <1>1, CacheAssumption DEF CacheBounded
<1>. QED
  BY <1>2, <1>3 DEF VisitsInv

\* What the other steps do to the cache: nothing.
LEMMA CacheKept ==
  ASSUME VisitsInv, cache' = cache, failures' = failures, clock' \in Nat, clock <= clock',
         task' \in [Visits -> Tasks], geoOf' \in [Visits -> Geos]
  PROVE  VisitsInv'
<1>1. TrackTypeOK'
  BY DEF VisitsInv, TrackTypeOK
<1>2. CachedFailures'
  <2> SUFFICES ASSUME NEW ip \in DOMAIN cache, cache[ip].geo = "empty"
               PROVE  \E t \in 0 .. clock' : <<ip, t>> \in failures /\ cache[ip].expires = t + Ttl
    BY DEF CachedFailures
  <2>1. PICK t \in 0 .. clock : <<ip, t>> \in failures /\ cache[ip].expires = t + Ttl
    BY DEF VisitsInv, CachedFailures
  <2>2. t \in 0 .. clock'
    BY DEF VisitsInv, TrackTypeOK
  <2>. QED
    BY <2>1, <2>2
<1>3. CacheBounded'
  BY DEF VisitsInv, CacheBounded
<1>. QED
  BY <1>1, <1>2, <1>3 DEF VisitsInv

\* There is room for one more entry in what is kept.
LEMMA KeptHasRoom ==
  ASSUME VisitsInv
  PROVE  Kept \subseteq DOMAIN cache /\ IsFiniteSet(Kept) /\ Cardinality(Kept) < Cap
<1> DEFINE fresh == {ip \in DOMAIN cache : ~Expired(cache[ip])}
<1>1. IsFiniteSet(DOMAIN cache) /\ fresh \subseteq DOMAIN cache
  BY DEF VisitsInv, TrackTypeOK
<1>2. IsFiniteSet(fresh)
  BY <1>1, FS_Subset
<1>3. IsFiniteSet({}) /\ Cardinality({}) < Cap
  BY FS_EmptySet, CacheAssumption
<1>4. \/ Kept = DOMAIN cache /\ Cardinality(DOMAIN cache) < Cap
      \/ Kept = fresh /\ Cardinality(fresh) < Cap
      \/ Kept = {}
  BY DEF Kept
<1>. QED
  BY <1>1, <1>2, <1>3, <1>4

LEMMA SetGeoKeeps == ASSUME VisitsInv, NEW v \in Visits, SetGeo(v) PROVE VisitsInv'
<1> DEFINE ip0 == IpOf[v]
<1>1. PICK geo \in Geos :
        /\ cache' = [ip \in Kept \union {ip0} |->
                       IF ip = ip0 THEN [geo |-> geo, expires |-> clock + Ttl] ELSE cache[ip]]
        /\ geoOf' = [geoOf EXCEPT ![v] = geo]
        /\ failures' = IF geo = "empty" THEN failures \union {<<ip0, clock>>} ELSE failures
  BY DEF SetGeo
<1>2. clock' = clock /\ task' = [task EXCEPT ![v] = "located"]
  BY DEF SetGeo, limiterVars
<1>3. /\ DOMAIN cache' = Kept \union {ip0}
      /\ cache'[ip0].geo = geo /\ cache'[ip0].expires = clock + Ttl
      /\ \A ip \in DOMAIN cache' \ {ip0} : ip \in DOMAIN cache /\ cache'[ip] = cache[ip]
  BY <1>1, KeptHasRoom
<1>4. IsFiniteSet(DOMAIN cache') /\ Cardinality(DOMAIN cache') <= Cap
  <2>1. IsFiniteSet(Kept) /\ Cardinality(Kept) < Cap /\ Cardinality(Kept) \in Nat
    BY KeptHasRoom, FS_CardinalityType
  <2>2. /\ IsFiniteSet(Kept \union {ip0})
        /\ Cardinality(Kept \union {ip0}) = IF ip0 \in Kept THEN Cardinality(Kept) ELSE Cardinality(Kept) + 1
    BY <2>1, FS_AddElement
  <2>. QED
    BY <1>3, <2>1, <2>2, CacheAssumption
<1>5. TrackTypeOK'
  <2>1. task' \in [Visits -> Tasks] /\ geoOf' \in [Visits -> Geos] /\ clock' \in Nat
    BY <1>1, <1>2 DEF VisitsInv, TrackTypeOK, Tasks
  <2>2. \A ip \in DOMAIN cache' : cache'[ip].geo \in Geos /\ cache'[ip].expires \in Nat
    BY <1>3, CacheAssumption DEF VisitsInv, TrackTypeOK
  <2>. QED
    BY <1>4, <2>1, <2>2 DEF TrackTypeOK
<1>6. CachedFailures'
  <2> SUFFICES ASSUME NEW ip \in DOMAIN cache', cache'[ip].geo = "empty"
               PROVE  \E t \in 0 .. clock : <<ip, t>> \in failures' /\ cache'[ip].expires = t + Ttl
    BY <1>2 DEF CachedFailures
  <2>1. CASE ip = ip0
    <3>1. clock \in 0 .. clock /\ <<ip0, clock>> \in failures'
      BY <2>1, <1>1, <1>3 DEF VisitsInv, TrackTypeOK
    <3>. QED
      BY <2>1, <3>1, <1>3
  <2>2. CASE ip # ip0
    <3>1. ip \in DOMAIN cache /\ cache'[ip] = cache[ip]
      BY <2>2, <1>3
    <3>2. PICK t \in 0 .. clock : <<ip, t>> \in failures /\ cache[ip].expires = t + Ttl
      BY <3>1 DEF VisitsInv, CachedFailures
    <3>. QED
      BY <3>1, <3>2, <1>1
  <2>. QED
    BY <2>1, <2>2
<1>7. CacheBounded'
  BY <1>4 DEF CacheBounded
<1>. QED
  BY <1>5, <1>6, <1>7 DEF VisitsInv

LEMMA VisitsNextInv == VisitsInv /\ [VisitsNext]_visitsVars => VisitsInv'
<1> SUFFICES ASSUME VisitsInv, [VisitsNext]_visitsVars
             PROVE  VisitsInv'
  OBVIOUS
<1> USE DEF VisitsInv, TrackTypeOK
<1>1. ASSUME NEW v \in Visits, TrackVisit(v)
      PROVE  VisitsInv'
  <2>1. UNCHANGED <<cache, failures, clock, geoOf>>
    BY <1>1 DEF TrackVisit, trackVars, ReadClock, Refuse, Admit
  <2>2. task' \in [Visits -> Tasks]
    BY <1>1 DEF TrackVisit, trackVars, Tasks
  <2>. QED
    BY <2>1, <2>2, CacheKept
<1>2. ASSUME NEW v \in Visits, GetGeo(v)
      PROVE  VisitsInv'
  <2>1. UNCHANGED <<cache, failures, clock>>
    BY <1>2 DEF GetGeo, limiterVars
  <2>2. task' \in [Visits -> Tasks]
    BY <1>2 DEF GetGeo, Tasks
  <2>3. geoOf' \in [Visits -> Geos]
    BY <1>2 DEF GetGeo, Fresh
  <2>. QED
    BY <2>1, <2>2, <2>3, CacheKept
<1>3. ASSUME NEW v \in Visits, Store(v) \/ Lose(v)
      PROVE  VisitsInv'
  <2>1. UNCHANGED <<cache, failures, clock, geoOf>>
    BY <1>3 DEF Store, Lose, limiterVars
  <2>2. task' \in [Visits -> Tasks]
    BY <1>3 DEF Store, Lose, Tasks
  <2>. QED
    BY <2>1, <2>2, CacheKept
<1>4. CASE VisitsTime \/ UNCHANGED visitsVars
  <2>1. UNCHANGED trackVars /\ clock' \in Nat /\ clock <= clock'
    BY <1>4 DEF VisitsTime, Tick, visitsVars, limiterVars
  <2>. QED
    BY <2>1, CacheKept DEF trackVars
<1>. QED
  BY <1>1, <1>2, <1>3, <1>4, SetGeoKeeps DEF VisitsNext

LEMMA VisitsInvariance == VisitsSpec => []VisitsInv
BY VisitsInitInv, VisitsNextInv, PTL DEF VisitsSpec

\* The cache of locations keeps its bound (geoCache.set).
THEOREM CacheStaysBounded == VisitsSpec => []CacheBounded
<1>1. VisitsInv => CacheBounded
  BY DEF VisitsInv
<1>. QED
  BY <1>1, VisitsInvariance, PTL

\* No visit is located nowhere but for a failure at most Ttl old (geoCache.get, Track).
THEOREM PlacesExplained == VisitsSpec => EmptyPlacesExplained
<1>1. ASSUME VisitsInv
      PROVE  \A v \in Visits :
               GetGeo(v) /\ task'[v] = "located" /\ geoOf'[v] = "empty" =>
                 \E t \in 0 .. clock : <<IpOf[v], t>> \in failures /\ clock <= t + Ttl
  <2> SUFFICES ASSUME NEW v \in Visits, GetGeo(v), task'[v] = "located", geoOf'[v] = "empty"
               PROVE  \E t \in 0 .. clock : <<IpOf[v], t>> \in failures /\ clock <= t + Ttl
    OBVIOUS
  <2>1. Fresh(IpOf[v]) /\ cache[IpOf[v]].geo = "empty"
    BY <1>1 DEF GetGeo, VisitsInv, TrackTypeOK
  <2>2. PICK t \in 0 .. clock : <<IpOf[v], t>> \in failures /\ cache[IpOf[v]].expires = t + Ttl
    BY <1>1, <2>1 DEF VisitsInv, CachedFailures, Fresh
  <2>3. clock <= cache[IpOf[v]].expires
    BY <1>1, <2>1 DEF Fresh, Expired, VisitsInv, TrackTypeOK
  <2>. QED
    BY <2>2, <2>3
<1>. QED
  BY <1>1, VisitsInvariance, PTL DEF EmptyPlacesExplained

\* The limiter in front of the visits is the limiter, whatever the goroutines do.
THEOREM VisitsAreLimited == VisitsSpec => LimiterSpec
<1>1. VisitsInit => LimiterInit
  BY DEF VisitsInit
<1>2. [VisitsNext]_visitsVars => [LimiterNext]_limiterVars
  <2> SUFFICES ASSUME [VisitsNext]_visitsVars
               PROVE  [LimiterNext]_limiterVars
    OBVIOUS
  <2>1. ASSUME NEW v \in Visits, TrackVisit(v)
        PROVE  LimiterNext
    BY <2>1 DEF TrackVisit, LimiterNext, Visits
  <2>2. ASSUME NEW v \in Visits, GetGeo(v) \/ SetGeo(v) \/ Store(v) \/ Lose(v)
        PROVE  UNCHANGED limiterVars
    BY <2>2 DEF GetGeo, SetGeo, Store, Lose
  <2>3. CASE VisitsTime \/ UNCHANGED visitsVars
    BY <2>3 DEF VisitsTime, LimiterNext, visitsVars
  <2>. QED
    BY <2>1, <2>2, <2>3 DEF VisitsNext
<1>. QED
  BY <1>1, <1>2, PTL DEF VisitsSpec, LimiterSpec

\* No window has more visits than the limit, unless one of them was overtaken (PathLimiter).
THEOREM VisitsPerWindow == VisitsSpec => []AdmittedPerWindow
BY VisitsAreLimited, WindowsHold, PTL
=============================================================================
