--------------------------- MODULE ResultCacheProofs ---------------------------
(***************************************************************************)
(* Proofs about ResultCache for any callers, keys, values, durations and   *)
(* limit: it stays within its cap, and it implements BoundedTTLMap.        *)
(***************************************************************************)
EXTENDS ResultCache, FiniteSetTheorems, TLAPS

-------------------------------------------------------------------------------
(* What the operators of CacheOps do *)

\* A store leaves at most as many entries as the cache may have.
LEMMA StoredWithinCap ==
  ASSUME NEW e, IsFiniteSet(DOMAIN e), NEW max \in Nat \ {0},
         Cardinality(DOMAIN e) <= max,
         NEW k, NEW v, NEW d, NEW t, NEW r \in Stored(e, max, k, v, d, t)
  PROVE  IsFiniteSet(DOMAIN r) /\ Cardinality(DOMAIN r) <= max
<1>1. Cardinality(DOMAIN e) \in Nat
  BY FS_CardinalityType
<1>2. CASE d <= 0
  <2>1. DOMAIN r = DOMAIN e \ {k}
    BY <1>2 DEF Stored, Without, Restrict
  <2> QED
    BY <2>1, <1>1, FS_RemoveElement, FS_Subset, FS_CardinalityType
<1>3. CASE ~(d <= 0)
  <2> DEFINE F == Fresh(e, t)
  <2>1. PICK m \in MadeRoom(F, max, k) : DOMAIN r = DOMAIN m \cup {k}
    BY <1>3 DEF Stored, Put
  <2>2. DOMAIN F \subseteq DOMAIN e
    BY DEF Fresh, Restrict
  <2>3. /\ IsFiniteSet(DOMAIN F)
        /\ Cardinality(DOMAIN F) \in Nat
        /\ Cardinality(DOMAIN F) <= max
    BY <2>2, <1>1, FS_Subset, FS_CardinalityType
  <2> HIDE DEF F
  <2>4. CASE k \in DOMAIN F
    <3>1. DOMAIN r = DOMAIN F
      BY <2>1, <2>4 DEF MadeRoom
    <3> QED
      BY <3>1, <2>3
  <2>5. CASE k \notin DOMAIN F /\ Cardinality(DOMAIN F) < max
    <3>1. DOMAIN r = DOMAIN F \cup {k}
      BY <2>1, <2>5 DEF MadeRoom
    <3>2. Cardinality(DOMAIN F \cup {k}) = Cardinality(DOMAIN F) + 1
      BY <2>3, <2>5, FS_AddElement
    <3> QED
      BY <3>1, <3>2, <2>3, <2>5, FS_AddElement
  <2>6. CASE k \notin DOMAIN F /\ ~(Cardinality(DOMAIN F) < max)
    <3>1. PICK o \in DOMAIN F : DOMAIN r = (DOMAIN F \ {o}) \cup {k}
      BY <2>1, <2>6 DEF MadeRoom, Oldest, Without, Restrict
    <3>2. /\ IsFiniteSet(DOMAIN F \ {o})
          /\ Cardinality(DOMAIN F \ {o}) = Cardinality(DOMAIN F) - 1
      BY <2>3, FS_RemoveElement
    <3>3. /\ IsFiniteSet((DOMAIN F \ {o}) \cup {k})
          /\ Cardinality((DOMAIN F \ {o}) \cup {k}) = Cardinality(DOMAIN F \ {o}) + 1
      BY <3>2, <2>6, FS_AddElement
    <3> QED
      BY <3>1, <3>2, <3>3, <2>3
  <2> QED
    BY <2>4, <2>5, <2>6
<1> QED
  BY <1>2, <1>3

\* Every operation keeps a content a content.
LEMMA WithoutContent ==
  ASSUME NEW e, IsContent(e, Keys, Values, Expiries), NEW k
  PROVE  IsContent(Without(e, k), Keys, Values, Expiries)
BY DEF IsContent, Without, Restrict

\* Purging what has expired leaves a content.
LEMMA FreshContent ==
  ASSUME NEW e, IsContent(e, Keys, Values, Expiries), NEW t
  PROVE  IsContent(Fresh(e, t), Keys, Values, Expiries)
BY DEF IsContent, Fresh, Restrict

\* Writing an entry leaves a content.
LEMMA PutContent ==
  ASSUME NEW e, IsContent(e, Keys, Values, Expiries),
         NEW k \in Keys, NEW x \in Entry(Values, Expiries)
  PROVE  IsContent(Put(e, k, x), Keys, Values, Expiries)
BY DEF IsContent, Put

\* Whatever setLocked leaves is a content.
LEMMA StoredContent ==
  ASSUME NEW e, IsContent(e, Keys, Values, Expiries), NEW max,
         NEW k \in Keys, NEW v \in Values, NEW d \in Nat, NEW t \in Nat,
         NEW r \in Stored(e, max, k, v, d, t)
  PROVE  IsContent(r, Keys, Values, Expiries)
<1>1. CASE d <= 0
  BY <1>1, WithoutContent DEF Stored
<1>2. CASE ~(d <= 0)
  <2>1. PICK m \in MadeRoom(Fresh(e, t), max, k) :
          r = Put(m, k, [value |-> v, expiresAt |-> t + d])
    BY <1>2 DEF Stored
  <2>2. IsContent(m, Keys, Values, Expiries)
    BY FreshContent, WithoutContent DEF MadeRoom
  <2>3. [value |-> v, expiresAt |-> t + d] \in Entry(Values, Expiries)
    BY <1>2 DEF Entry, Expiries
  <2> QED
    BY <2>1, <2>2, <2>3, PutContent
<1> QED
  BY <1>1, <1>2

-------------------------------------------------------------------------------
(* Type correctness and capacity *)

\* The cap is never below one.
LEMMA LimitPositive == MaxEntries \in Nat \ {0}
BY CacheAssumption DEF MaxEntries

\* What a caller in the middle of a call knows about the past: the entry it
\* is to sweep has expired, and the instant it purges by is not ahead.
CallsLookBack ==
  \A p \in Callers :
    /\ call[p].at = "sweep" => call[p].seen.expiresAt <= now
    /\ call[p].at = "list" => call[p].asOf <= now

CacheInv ==
  /\ TypeOK
  /\ IsFiniteSet(DOMAIN entries)
  /\ WithinCapacity
  /\ CallsLookBack

\* No step breaks a type, nor does a step in which nothing happens.
LEMMA TypeStep == TypeOK /\ [Next]_vars => TypeOK'
<1> SUFFICES ASSUME TypeOK, [Next]_vars PROVE TypeOK'
  OBVIOUS
<1> USE CacheAssumption DEF TypeOK
<1>1. ASSUME NEW p \in Callers, NEW k \in Keys, GetRead(p, k) PROVE TypeOK'
  <2>1. entries[k] \in Entry(Values, Expiries)
    BY <1>1 DEF GetRead, IsContent
  <2> QED
    BY <1>1, <2>1 DEF GetRead, Goes, GetCalls
<1>2. ASSUME NEW p \in Callers, GetHit(p) PROVE TypeOK'
  BY <1>2 DEF GetHit, Goes
<1>3. ASSUME NEW p \in Callers, GetExpired(p) PROVE TypeOK'
  <2>1. call[p] \in GetCalls
    BY <1>3 DEF GetExpired, NotInCall, KeysCalls
  <2>2. [call[p] EXCEPT !.at = "sweep"] \in GetCalls
    BY <2>1 DEF GetCalls
  <2> QED
    BY <1>3, <2>2 DEF GetExpired, Goes
<1>4. ASSUME NEW p \in Callers, GetSweep(p) PROVE TypeOK'
  BY <1>4, WithoutContent DEF GetSweep, Goes, Swept
<1>5. ASSUME NEW p \in Callers, KeysStart(p) PROVE TypeOK'
  BY <1>5 DEF KeysStart, Goes, KeysCalls
<1>6. ASSUME NEW p \in Callers, KeysPurge(p) PROVE TypeOK'
  BY <1>6, FreshContent DEF KeysPurge, Goes
<1>7. CASE Set
  BY <1>7, StoredContent DEF Set
<1>8. CASE SetWithTTL
  BY <1>8, StoredContent DEF SetWithTTL
<1>9. CASE SetTTL
  BY <1>9 DEF SetTTL
<1>10. IsContent(NoEntries, Keys, Values, Expiries)
  BY DEF IsContent, NoEntries
<1>11. CASE Reset
  BY <1>10, <1>11 DEF Reset
<1>12. CASE Delete
  BY <1>12, WithoutContent DEF Delete
<1>13. CASE Flush
  BY <1>10, <1>13 DEF Flush
<1>14. CASE Tick
  BY <1>14 DEF Tick
<1>15. CASE UNCHANGED vars
  BY <1>15 DEF vars
<1> QED
  BY <1>1, <1>2, <1>3, <1>4, <1>5, <1>6, <1>7, <1>8, <1>9, <1>11, <1>12, <1>13,
     <1>14, <1>15 DEF Next, CallStep

\* The empty cache satisfies the invariant.
LEMMA InvInit == Init => CacheInv
<1> SUFFICES ASSUME Init PROVE CacheInv
  OBVIOUS
<1>1. DOMAIN entries = {}
  BY DEF Init, NoEntries
<1>2. IsFiniteSet(DOMAIN entries) /\ WithinCapacity
  BY <1>1, FS_EmptySet, LimitPositive DEF WithinCapacity
<1>3. TypeOK
  BY DEF Init, TypeOK, IsContent, NoEntries
<1>4. CallsLookBack
  BY DEF Init, CallsLookBack, NotInCall
<1> QED
  BY <1>2, <1>3, <1>4 DEF CacheInv

\* Removing entries keeps the cache within its cap.
LEMMA FewerWithinCap ==
  ASSUME CacheInv, DOMAIN entries' \subseteq DOMAIN entries
  PROVE  IsFiniteSet(DOMAIN entries') /\ WithinCapacity'
BY FS_Subset, FS_CardinalityType, LimitPositive DEF CacheInv, WithinCapacity, MaxEntries

\* No step brings the cache above its cap.
LEMMA CapacityStep ==
  CacheInv /\ [Next]_vars => IsFiniteSet(DOMAIN entries') /\ WithinCapacity'
<1> SUFFICES ASSUME CacheInv, [Next]_vars
             PROVE  IsFiniteSet(DOMAIN entries') /\ WithinCapacity'
  OBVIOUS
<1>1. CASE Set \/ SetWithTTL
  <2>1. PICK k, v, d : entries' \in Stored(entries, MaxEntries, k, v, d, now)
    BY <1>1 DEF Set, SetWithTTL
  <2> QED
    BY <2>1, StoredWithinCap, LimitPositive DEF CacheInv, WithinCapacity, MaxEntries
<1>2. CASE ~(Set \/ SetWithTTL)
  <2>1. DOMAIN entries' \subseteq DOMAIN entries
    BY <1>2 DEF Next, CallStep, GetRead, GetHit, GetExpired, GetSweep, KeysStart,
                KeysPurge, SetTTL, Reset, Delete, Flush, Tick, vars,
                Swept, Without, Fresh, Restrict, NoEntries
  <2> QED
    BY <2>1, FewerWithinCap
<1> QED
  BY <1>1, <1>2

\* No step gives a caller a reading of the clock that is ahead of it.
LEMMA LookBackStep == CacheInv /\ [Next]_vars => CallsLookBack'
<1> SUFFICES ASSUME CacheInv, [Next]_vars, NEW p \in Callers
             PROVE  /\ call'[p].at = "sweep" => call'[p].seen.expiresAt <= now'
                    /\ call'[p].at = "list" => call'[p].asOf <= now'
  BY DEF CallsLookBack
<1> USE DEF CacheInv, CallsLookBack, TypeOK
<1>1. now \in Nat /\ now' \in Nat /\ now <= now'
  <2>1. CASE Tick
    BY <2>1 DEF Tick
  <2>2. CASE ~Tick
    <3>1. now' = now
      BY <2>2 DEF Next, CallStep, GetRead, GetHit, GetExpired, GetSweep, KeysStart,
                  KeysPurge, Set, SetWithTTL, SetTTL, Reset, Delete, Flush, vars
    <3> QED
      BY <3>1
  <2> QED
    BY <2>1, <2>2
<1>2. CASE call'[p] = call[p]
  <2>1. CASE call[p] \in GetCalls
    BY <1>1, <1>2, <2>1 DEF GetCalls, Entry, Expiries
  <2>2. CASE call[p] \in KeysCalls
    BY <1>1, <1>2, <2>2 DEF KeysCalls
  <2>3. CASE call[p] = NotInCall
    BY <1>2, <2>3 DEF NotInCall
  <2> QED
    BY <2>1, <2>2, <2>3
<1>3. CASE call'[p] # call[p]
  <2>1. \/ \E k \in Keys : GetRead(p, k)
        \/ GetHit(p) \/ GetExpired(p) \/ GetSweep(p) \/ KeysStart(p) \/ KeysPurge(p)
    BY <1>3 DEF Next, CallStep, GetRead, GetHit, GetExpired, GetSweep, KeysStart,
                KeysPurge, Goes, Set, SetWithTTL, SetTTL, Reset, Delete, Flush, Tick, vars
  <2>2. ASSUME NEW k \in Keys, GetRead(p, k) PROVE call'[p].at = "judge"
    BY <2>2 DEF GetRead, Goes
  <2>3. CASE GetExpired(p)
    <3>1. call[p] \in GetCalls
      BY <2>3 DEF GetExpired, NotInCall, KeysCalls
    <3>2. call[p].seen.expiresAt \in Nat
      BY <3>1 DEF GetCalls, Entry, Expiries
    <3>3. call'[p].at = "sweep" /\ call'[p].seen = call[p].seen
      BY <2>3, <3>1 DEF GetExpired, Goes, GetCalls
    <3> QED
      BY <2>3, <3>2, <3>3, <1>1 DEF GetExpired, Live
  <2>4. CASE KeysStart(p)
    BY <2>4 DEF KeysStart, Goes
  <2>5. CASE GetHit(p) \/ GetSweep(p) \/ KeysPurge(p)
    BY <2>5 DEF GetHit, GetSweep, KeysPurge, Goes, NotInCall
  <2> QED
    BY <2>1, <2>2, <2>3, <2>4, <2>5
<1> QED
  BY <1>2, <1>3

\* The cache's invariant, from which its properties follow.
THEOREM InvHolds == Spec => []CacheInv
<1>1. CacheInv /\ [Next]_vars => CacheInv'
  BY TypeStep, CapacityStep, LookBackStep DEF CacheInv
<1> QED
  BY <1>1, InvInit, PTL DEF Spec

\* Callers and content are well-formed in every reachable state.
THEOREM TypesCorrect == Spec => []TypeOK
<1>1. CacheInv => TypeOK
  BY DEF CacheInv
<1> QED
  BY <1>1, InvHolds, PTL

\* The cache never holds more than its cap, whatever its callers interleave.
THEOREM CapacityHolds == Spec => []WithinCapacity
<1>1. CacheInv => WithinCapacity
  BY DEF CacheInv
<1> QED
  BY <1>1, InvHolds, PTL

-------------------------------------------------------------------------------
(* The refinement: what is live, seen as a map, moves as BoundedTTLMap does *)

\* Contents whose expiries can be compared.
Timed(e) == \A k \in DOMAIN e : e[k].expiresAt \in Nat

\* The expiries of a content can be compared.
LEMMA ContentTimed ==
  ASSUME NEW e, IsContent(e, Keys, Values, Expiries)
  PROVE  Timed(e)
BY DEF IsContent, Timed, Entry, Expiries

\* Purging earlier makes no difference to what is live later.
LEMMA FreshTwice ==
  ASSUME NEW e, Timed(e), NEW s \in Nat, NEW t \in Nat, s <= t
  PROVE  Fresh(Fresh(e, s), t) = Fresh(e, t)
<1>1. DOMAIN Fresh(Fresh(e, s), t) = DOMAIN Fresh(e, t)
  BY DEF Fresh, Restrict, Live, Timed
<1> QED
  BY <1>1 DEF Fresh, Restrict

\* Removing a key and looking at what is live commute.
LEMMA FreshWithout ==
  ASSUME NEW e, NEW k, NEW t
  PROVE  Fresh(Without(e, k), t) = Restrict(Fresh(e, t), DOMAIN Fresh(e, t) \ {k})
<1>1. DOMAIN Fresh(Without(e, k), t) = DOMAIN Fresh(e, t) \ {k}
  BY DEF Fresh, Without, Restrict
<1> QED
  BY <1>1 DEF Fresh, Without, Restrict

\* Sweeping an entry that has expired leaves what is live alone.
LEMMA FreshSwept ==
  ASSUME NEW e, Timed(e), NEW k, NEW x, NEW t \in Nat,
         x.expiresAt \in Nat, x.expiresAt <= t
  PROVE  Fresh(Swept(e, k, x), t) = Fresh(e, t)
<1>1. CASE k \in DOMAIN e /\ e[k].expiresAt = x.expiresAt
  <2>1. DOMAIN Fresh(Without(e, k), t) = DOMAIN Fresh(e, t)
    BY <1>1 DEF Fresh, Without, Restrict, Live, Timed
  <2>2. Fresh(Without(e, k), t) = Fresh(e, t)
    BY <2>1 DEF Fresh, Without, Restrict
  <2> QED
    BY <1>1, <2>2 DEF Swept
<1>2. CASE ~(k \in DOMAIN e /\ e[k].expiresAt = x.expiresAt)
  BY <1>2 DEF Swept
<1> QED
  BY <1>1, <1>2

\* All of a content that has just been purged and written to is live.
LEMMA FreshPut ==
  ASSUME NEW e, NEW t, NEW k, NEW x, Live(x, t), \A j \in DOMAIN e : Live(e[j], t)
  PROVE  Fresh(Put(e, k, x), t) = Put(e, k, x)
<1> DEFINE r == Put(e, k, x)
<1>1. \A j \in DOMAIN r : Live(r[j], t)
  BY DEF Put
<1>2. r = [j \in DOMAIN r |-> r[j]]
  BY DEF Put
<1> HIDE DEF r
<1>3. Fresh(r, t) = [j \in DOMAIN r |-> r[j]]
  BY <1>1 DEF Fresh, Restrict
<1> QED
  BY <1>2, <1>3 DEF r

\* BoundedTTLMap uses the operators of CacheOps too.
LEMMA SameOperators ==
  /\ Promised!NoEntries = NoEntries
  /\ \A f, S : Promised!Restrict(f, S) = Restrict(f, S)
  /\ \A e, k : Promised!Without(e, k) = Without(e, k)
  /\ \A e, k, x : Promised!Put(e, k, x) = Put(e, k, x)
  /\ \A e : Promised!Oldest(e) = Oldest(e)
  /\ \A S : Promised!Cardinality(S) = Cardinality(S)
BY DEF Promised!NoEntries, NoEntries, Promised!Restrict, Restrict, Promised!Without, Without,
       Promised!Put, Put, Promised!Oldest, Oldest, Promised!Cardinality, Cardinality

\* A store shows abstractly as Keep, or, with a ttl of zero, as Remove.
LEMMA StoreRefines ==
  ASSUME TypeOK, NEW k \in Keys, NEW v \in Values, NEW d \in TTLs,
         entries' \in Stored(entries, MaxEntries, k, v, d, now),
         now' = now, ttl' = ttl
  PROVE  Promised!Keep \/ Promised!Remove
<1>1. d \in Nat /\ now \in Nat
  BY CacheAssumption DEF TypeOK
<1>2. CASE d = 0
  <2>1. entries' = Without(entries, k)
    BY <1>2 DEF Stored
  <2>2. Fresh(entries', now') = Restrict(Fresh(entries, now), DOMAIN Fresh(entries, now) \ {k})
    BY <2>1, FreshWithout
  <2> QED
    BY <2>2, SameOperators DEF Promised!Remove, Promised!Forget
<1>3. CASE d # 0
  <2> DEFINE F == Fresh(entries, now)
             x == [value |-> v, expiresAt |-> now + d]
  <2>1. PICK m \in MadeRoom(F, MaxEntries, k) : entries' = Put(m, k, x)
    BY <1>1, <1>3 DEF Stored
  <2>2. \A j \in DOMAIN F : Live(F[j], now)
    BY DEF Fresh, Restrict
  <2>3. \A j \in DOMAIN m : Live(m[j], now)
    BY <2>2 DEF MadeRoom, Without, Restrict
  <2>4. Fresh(entries', now') = Put(m, k, x)
    <3>1. Live(x, now)
      BY <1>1, <1>3 DEF Live
    <3>2. Fresh(Put(m, k, x), now) = Put(m, k, x)
      BY <2>3, <3>1, FreshPut
    <3> QED
      BY <2>1, <3>2
  <2>5. \/ (k \in DOMAIN F \/ Cardinality(DOMAIN F) < MaxEntries) /\ m = F
        \/ /\ ~(k \in DOMAIN F \/ Cardinality(DOMAIN F) < MaxEntries)
           /\ \E o \in Oldest(F) : m = Without(F, o)
    BY DEF MadeRoom
  <2>6. d \in TTLs \ {0}
    BY <1>3
  <2>7. \/ /\ k \in DOMAIN F \/ Promised!Cardinality(DOMAIN F) < MaxEntries
           /\ Fresh(entries', now') = Promised!Put(F, k, x)
        \/ /\ ~(k \in DOMAIN F \/ Promised!Cardinality(DOMAIN F) < MaxEntries)
           /\ \E o \in Promised!Oldest(F) :
                Fresh(entries', now') = Promised!Put(Promised!Without(F, o), k, x)
    BY <2>4, <2>5, SameOperators
  <2>8. Promised!Keep
    BY <2>6, <2>7 DEF Promised!Keep
  <2> QED
    BY <2>8
<1> QED
  BY <1>2, <1>3

\* A step of Get or Keys removes nothing that is live.
LEMMA CallStepsLoseNothing ==
  ASSUME CacheInv, NEW p \in Callers, CallStep(p)
  PROVE  /\ Fresh(entries', now') = Fresh(entries, now)
         /\ UNCHANGED <<now, ttl>>
<1> USE DEF CacheInv
<1>1. Timed(entries) /\ now \in Nat
  BY ContentTimed DEF TypeOK
<1>2. CASE GetSweep(p)
  <2>1. call[p] \in GetCalls /\ call[p].seen.expiresAt <= now
    BY <1>2 DEF GetSweep, TypeOK, NotInCall, KeysCalls, CallsLookBack
  <2>2. call[p].seen.expiresAt \in Nat
    BY <2>1 DEF GetCalls, Entry, Expiries
  <2> QED
    BY <1>1, <1>2, <2>1, <2>2, FreshSwept DEF GetSweep
<1>3. CASE KeysPurge(p)
  <2>1. call[p] \in KeysCalls /\ call[p].asOf <= now
    BY <1>3 DEF KeysPurge, TypeOK, NotInCall, GetCalls, CallsLookBack
  <2>2. call[p].asOf \in Nat
    BY <2>1 DEF KeysCalls
  <2> QED
    BY <1>1, <1>3, <2>1, <2>2, FreshTwice DEF KeysPurge
<1> QED
  BY <1>2, <1>3 DEF CallStep, GetRead, GetHit, GetExpired, KeysStart

\* Every step of the cache is a step of the map, or none.
LEMMA StepRefines ==
  ASSUME CacheInv, [Next]_vars
  PROVE  [Promised!AbsNext]_Promised!absVars
<1> USE DEF CacheInv
<1>1. Timed(entries) /\ now \in Nat
  BY ContentTimed DEF TypeOK
<1>2. CASE Set
  BY <1>2, StoreRefines DEF Set, TypeOK, Promised!AbsNext
<1>3. CASE SetWithTTL
  BY <1>3, StoreRefines DEF SetWithTTL, Promised!AbsNext
<1>4. CASE Delete
  <2>1. PICK k \in Keys : entries' = Without(entries, k)
    BY <1>4 DEF Delete
  <2>2. Fresh(entries', now') = Restrict(Fresh(entries, now), DOMAIN Fresh(entries, now) \ {k})
    BY <2>1, <1>4, FreshWithout DEF Delete
  <2> QED
    BY <2>2, <1>4, SameOperators DEF Delete, Promised!AbsNext, Promised!Remove, Promised!Forget
<1>5. Fresh(NoEntries, now) = NoEntries
  <2>1. DOMAIN Fresh(NoEntries, now) = {}
    BY DEF Fresh, Restrict, NoEntries
  <2> QED
    BY <2>1 DEF Fresh, Restrict, NoEntries
<1>6. CASE Reset
  BY <1>5, <1>6, SameOperators DEF Reset, Promised!AbsNext, Promised!SetPolicy
<1>7. CASE Flush
  BY <1>5, <1>7, SameOperators DEF Flush, Promised!AbsNext, Promised!Clear
<1>8. CASE SetTTL
  BY <1>8 DEF SetTTL, Promised!AbsNext, Promised!SetPolicy
<1>9. CASE Tick
  <2> DEFINE F == Fresh(entries, now)
  <2>1. now' = now + 1 /\ entries' = entries /\ ttl' = ttl /\ now < MaxTime
    BY <1>9 DEF Tick
  <2>2. Fresh(entries', now') =
          Restrict(F, DOMAIN F \ {k \in DOMAIN F : F[k].expiresAt <= now'})
    <3>1. DOMAIN Fresh(entries', now') =
            DOMAIN F \ {k \in DOMAIN F : F[k].expiresAt <= now'}
      BY <1>1, <2>1 DEF Fresh, Restrict, Live, Timed
    <3> QED
      BY <3>1, <2>1 DEF Fresh, Restrict
  <2> QED
    BY <2>1, <2>2, SameOperators DEF Promised!AbsNext, Promised!Pass, Promised!Forget
<1>10. ASSUME NEW p \in Callers, CallStep(p)
       PROVE  UNCHANGED Promised!absVars
  BY <1>10, CallStepsLoseNothing DEF Promised!absVars
<1>11. CASE UNCHANGED vars
  BY <1>11 DEF vars, Promised!absVars
<1> QED
  BY <1>2, <1>3, <1>4, <1>6, <1>7, <1>8, <1>9, <1>10, <1>11 DEF Next

\* Get and Keys never cost a live entry, however stale what they go by.
THEOREM ReadsAreHarmless == Spec => ReadsLoseNothing
<1>1. CacheInv /\ [Next]_vars =>
        [call' # call => Fresh(entries', now') = Fresh(entries, now)]_vars
  <2> SUFFICES ASSUME CacheInv, Next, call' # call
               PROVE  Fresh(entries', now') = Fresh(entries, now)
    OBVIOUS
  <2>1. PICK p \in Callers : CallStep(p)
    BY DEF Next, Set, SetWithTTL, SetTTL, Reset, Delete, Flush, Tick
  <2> QED
    BY <2>1, CallStepsLoseNothing
<1> QED
  BY <1>1, InvHolds, PTL DEF Spec, ReadsLoseNothing

\* The concurrent cache with its lazy sweeps implements the bounded map that
\* forgets only by expiry, removal and eviction of the least durable key.
THEOREM CacheKeepsItsPromise == Spec => KeepsItsPromise
<1>1. Init => Promised!AbsInit
  <2> SUFFICES ASSUME Init PROVE Promised!AbsInit
    OBVIOUS
  <2>1. DOMAIN Fresh(entries, now) = {}
    BY DEF Init, Fresh, Restrict, NoEntries
  <2>2. Fresh(entries, now) = NoEntries
    BY <2>1 DEF Fresh, Restrict, NoEntries
  <2> QED
    BY <2>2, SameOperators DEF Init, Promised!AbsInit
<1>2. CacheInv /\ [Next]_vars => [Promised!AbsNext]_Promised!absVars
  BY StepRefines
<1> QED
  BY <1>1, <1>2, InvHolds, PTL DEF Spec, KeepsItsPromise, Promised!AbsSpec
===============================================================================
