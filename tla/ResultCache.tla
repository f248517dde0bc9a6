------------------------------ MODULE ResultCache ------------------------------
(***************************************************************************)
(* internal/cache.Cache under concurrent callers.  Every method is one     *)
(* critical section of c.mu except two.  Get reads under the read lock,    *)
(* looks at the clock outside any lock, and takes the write lock to sweep  *)
(* an expired entry; Keys looks at the clock before it takes the lock.     *)
(***************************************************************************)
EXTENDS CacheOps

CONSTANTS
  Callers,    \* the goroutines using the cache
  Keys,
  Values,
  TTLs,       \* the durations callers pass, 0 among them
  Limit,      \* the maxEntries argument of NewWithLimit
  MaxTime     \* bound on the clock

ASSUME CacheAssumption ==
  /\ TTLs \subseteq Nat
  /\ 0 \in TTLs
  /\ Limit \in Int
  /\ MaxTime \in Nat

\* NewWithLimit raises a limit below 1 to 1.
MaxEntries == IF Limit < 1 THEN 1 ELSE Limit

VARIABLES
  now,        \* the clock
  ttl,        \* c.ttl
  entries,    \* c.entries
  call        \* what each caller is in the middle of

vars == <<now, ttl, entries, call>>

Expiries  == Nat \ {0}
NotInCall == [at |-> "idle"]
GetCalls  == [at : {"judge", "sweep"}, key : Keys, seen : Entry(Values, Expiries)]
KeysCalls == [at : {"list"}, asOf : Nat]

\* Every entry was stored with a positive duration, and callers hold copies of
\* such entries.
TypeOK ==
  /\ now \in Nat
  /\ ttl \in TTLs
  /\ IsContent(entries, Keys, Values, Expiries)
  /\ call \in [Callers -> {NotInCall} \cup GetCalls \cup KeysCalls]

Init ==
  /\ now = 0
  /\ ttl \in TTLs
  /\ entries = NoEntries
  /\ call = [p \in Callers |-> NotInCall]

-------------------------------------------------------------------------------
Idle(p)      == call[p] = NotInCall
Goes(p, c)   == call' = [call EXCEPT ![p] = c]

\* Get, under the read lock.  A missing key is answered at once, with false.
GetRead(p, k) ==
  /\ Idle(p)
  /\ k \in DOMAIN entries
  /\ Goes(p, [at |-> "judge", key |-> k, seen |-> entries[k]])
  /\ UNCHANGED <<now, ttl, entries>>

\* Get, after the read lock: a live entry is the answer.
GetHit(p) ==
  /\ call[p].at = "judge"
  /\ Live(call[p].seen, now)
  /\ Goes(p, NotInCall)
  /\ UNCHANGED <<now, ttl, entries>>

\* Get, after the read lock: an expired entry must be swept first.
GetExpired(p) ==
  /\ call[p].at = "judge"
  /\ ~Live(call[p].seen, now)
  /\ Goes(p, [call[p] EXCEPT !.at = "sweep"])
  /\ UNCHANGED <<now, ttl, entries>>

\* Get, under the write lock: sweep what was read, then answer false.
GetSweep(p) ==
  /\ call[p].at = "sweep"
  /\ entries' = Swept(entries, call[p].key, call[p].seen)
  /\ Goes(p, NotInCall)
  /\ UNCHANGED <<now, ttl>>

\* Keys, before the lock.
KeysStart(p) ==
  /\ Idle(p)
  /\ Goes(p, [at |-> "list", asOf |-> now])
  /\ UNCHANGED <<now, ttl, entries>>

\* Keys, under the lock: list the live keys and drop the others, as of the
\* instant read before.
KeysPurge(p) ==
  /\ call[p].at = "list"
  /\ entries' = Fresh(entries, call[p].asOf)
  /\ Goes(p, NotInCall)
  /\ UNCHANGED <<now, ttl>>

\* Set and SetWithTTL: the cache's own ttl, or the caller's.
Set ==
  /\ \E k \in Keys, v \in Values :
       entries' \in Stored(entries, MaxEntries, k, v, ttl, now)
  /\ UNCHANGED <<now, ttl, call>>

SetWithTTL ==
  /\ \E k \in Keys, v \in Values, d \in TTLs :
       entries' \in Stored(entries, MaxEntries, k, v, d, now)
  /\ UNCHANGED <<now, ttl, call>>

SetTTL ==
  /\ ttl' \in TTLs
  /\ UNCHANGED <<now, entries, call>>

Reset ==
  /\ ttl' \in TTLs
  /\ entries' = NoEntries
  /\ UNCHANGED <<now, call>>

Delete ==
  /\ \E k \in Keys : entries' = Without(entries, k)
  /\ UNCHANGED <<now, ttl, call>>

Flush ==
  /\ entries' = NoEntries
  /\ UNCHANGED <<now, ttl, call>>

Tick ==
  /\ now < MaxTime
  /\ now' = now + 1
  /\ UNCHANGED <<ttl, entries, call>>

CallStep(p) ==
  \/ \E k \in Keys : GetRead(p, k)
  \/ GetHit(p)
  \/ GetExpired(p)
  \/ GetSweep(p)
  \/ KeysStart(p)
  \/ KeysPurge(p)

Next ==
  \/ \E p \in Callers : CallStep(p)
  \/ Set
  \/ SetWithTTL
  \/ SetTTL
  \/ Reset
  \/ Delete
  \/ Flush
  \/ Tick

Spec == Init /\ [][Next]_vars

-------------------------------------------------------------------------------
\* The cap of NewWithLimit is never exceeded, counting the expired entries
\* that nobody has swept yet.
WithinCapacity == Cardinality(DOMAIN entries) <= MaxEntries

\* Get and Keys never cost a live entry: what the sweep or the purge of a
\* caller removes is expired, however long ago it saw the content or the clock.
ReadsLoseNothing ==
  [][call' # call => Fresh(entries', now') = Fresh(entries, now)]_vars

\* The cache implements the map that forgets only by expiry, removal and
\* eviction, for a key that is new to a full map, of the least durable key.
Promised == INSTANCE BoundedTTLMap WITH live <- Fresh(entries, now)
KeepsItsPromise == Promised!AbsSpec
===============================================================================
