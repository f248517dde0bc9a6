----------------------------- MODULE BoundedTTLMap -----------------------------
(***************************************************************************)
(* What internal/cache promises: a map whose entries leave by expiring, by *)
(* a caller removing them, or by the least durable one giving way to a new *)
(* key when MaxEntries are live.  Expired entries do not exist here, so    *)
(* nothing has to be swept: ResultCache implements this specification.     *)
(***************************************************************************)
EXTENDS CacheOps

CONSTANTS Keys, Values, TTLs, MaxEntries, MaxTime

VARIABLES now, ttl, live

absVars == <<now, ttl, live>>

AbsInit ==
  /\ now = 0
  /\ ttl \in TTLs
  /\ live = NoEntries

Forget(keys) == live' = Restrict(live, DOMAIN live \ keys)

\* Time passes and takes with it what has expired.
Pass ==
  /\ now < MaxTime
  /\ now' = now + 1
  /\ Forget({k \in DOMAIN live : live[k].expiresAt <= now'})
  /\ UNCHANGED ttl

\* A value is kept for a while; a new key in a full map replaces a key no
\* other outlives less.
Keep ==
  /\ \E k \in Keys, v \in Values, d \in TTLs \ {0} :
       LET full == ~(k \in DOMAIN live \/ Cardinality(DOMAIN live) < MaxEntries)
           kept == [value |-> v, expiresAt |-> now + d]
       IN  \/ ~full /\ live' = Put(live, k, kept)
           \/ /\ full
              /\ \E o \in Oldest(live) : live' = Put(Without(live, o), k, kept)
  /\ UNCHANGED <<now, ttl>>

\* A caller removes one key.
Remove ==
  /\ \E k \in Keys : Forget({k})
  /\ UNCHANGED <<now, ttl>>

\* A caller removes everything.
Clear ==
  /\ live' = NoEntries
  /\ UNCHANGED <<now, ttl>>

\* The policy for later writes changes, with the content or without.
SetPolicy ==
  /\ ttl' \in TTLs
  /\ live' \in {live, NoEntries}
  /\ UNCHANGED now

AbsNext == Pass \/ Keep \/ Remove \/ Clear \/ SetPolicy

AbsSpec == AbsInit /\ [][AbsNext]_absVars
===============================================================================
