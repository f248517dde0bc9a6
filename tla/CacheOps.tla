------------------------------- MODULE CacheOps -------------------------------
(***************************************************************************)
(* The map held by internal/cache.Cache and what its critical sections do  *)
(* to it.  A cache content is a function from the keys present to entries  *)
(* [value, expiresAt]; a clock reading is an integer.  The operators are   *)
(* pure: ResultCache and QueryService take their steps with them.          *)
(***************************************************************************)
EXTENDS Integers, FiniteSets, Functions

\* The contents a cache over these keys, values and expiry instants can have.
Entry(V, T) == [value : V, expiresAt : T]

IsContent(entries, K, V, T) ==
  /\ DOMAIN entries \subseteq K
  /\ entries \in [DOMAIN entries -> Entry(V, T)]

\* make(map[K]entry[V])
NoEntries == [k \in {} |-> 0]

\* An entry counts at an instant when that instant is before its expiry.
Live(e, now) == now < e.expiresAt

LiveAt(entries, k, now) == k \in DOMAIN entries /\ Live(entries[k], now)

\* The entries still live at an instant: what a purge leaves behind.
Fresh(entries, now) ==
  Restrict(entries, {k \in DOMAIN entries : Live(entries[k], now)})

Without(entries, k) == Restrict(entries, DOMAIN entries \ {k})

Put(entries, k, e) ==
  [j \in DOMAIN entries \cup {k} |-> IF j = k THEN e ELSE entries[j]]

\* The keys whose entry expires first; Go's map order breaks a tie.
Oldest(entries) ==
  {k \in DOMAIN entries :
     \A j \in DOMAIN entries : entries[k].expiresAt <= entries[j].expiresAt}

\* A bug to be caught: room is made only once the cache is over its cap.
MadeRoomTooLate(entries, max, k) ==
  IF k \in DOMAIN entries \/ Cardinality(DOMAIN entries) <= max
  THEN {entries}
  ELSE {Without(entries, o) : o \in Oldest(entries)}

\* A bug to be caught: a full cache makes room even for a key it has.
MadeRoomNeedlessly(entries, max, k) ==
  IF Cardinality(DOMAIN entries) < max
  THEN {entries}
  ELSE {Without(entries, o) : o \in Oldest(entries)}

\* Contents after making room for k in a cache of at most max entries.
MadeRoom(entries, max, k) ==
  IF k \in DOMAIN entries \/ Cardinality(DOMAIN entries) < max
  THEN {entries}
  ELSE {Without(entries, o) : o \in Oldest(entries)}

\* A bug to be caught: a zero ttl stores an entry instead of deleting.
StoredEvenIfZero(entries, max, k, v, ttl, now) ==
  {Put(r, k, [value |-> v, expiresAt |-> now + ttl]) :
     r \in MadeRoom(Fresh(entries, now), max, k)}

\* The possible contents after setLocked(k, v, ttl) at instant now: a ttl
\* that is not positive deletes, any other purges, makes room and stores.
Stored(entries, max, k, v, ttl, now) ==
  IF ttl <= 0
  THEN {Without(entries, k)}
  ELSE {Put(r, k, [value |-> v, expiresAt |-> now + ttl]) :
          r \in MadeRoom(Fresh(entries, now), max, k)}

\* A bug to be caught: the sweep does not look at what it deletes.
SweptBlindly(entries, k, seen) == Without(entries, k)

\* The sweep of an expired Get: k goes only when the entry under it expires
\* when the one that was read did.
Swept(entries, k, seen) ==
  IF k \in DOMAIN entries /\ entries[k].expiresAt = seen.expiresAt
  THEN Without(entries, k)
  ELSE entries
===============================================================================
