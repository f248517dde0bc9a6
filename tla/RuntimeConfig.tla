----------------------------- MODULE RuntimeConfig -----------------------------
(***************************************************************************)
(* The plugin's runtime configuration (src/main.go): the published state,  *)
(* the error of the last application, and the policy of the result cache   *)
(* that has to follow the state.  The host calls plugin.register,          *)
(* plugin.reconfigure and the shutdown hook; the dashboard posts to        *)
(* config-apply.  runtimeConfigMu serialises these calls, but each of them *)
(* publishes in several critical sections of stateMu and of the cache's    *)
(* own lock, and queries read in between.                                  *)
(***************************************************************************)
EXTENDS CacheOps

CONSTANTS
  Appliers,       \* the calls into the plugin that change the configuration
  None,           \* no applier, no request, no reply
  MappingKeys,    \* keys of provider_mappings
  KnownTypes,     \* the query types of balance.IsKnownProvider
  UnknownTypes,   \* any other string found as a query type
  InputTTLs,      \* cache_ttl_seconds values that requests carry
  MinTTL,         \* 10 in the code
  MaxTTL,         \* 86400 in the code
  DefaultTTL,     \* defaultTTLSeconds, 300 in the code
  Arriving        \* the requests that occur in an instance: a bound for TLC

-------------------------------------------------------------------------------
(* Configurations and the requests that carry them *)

Mappings(T) == UNION {[D -> T] : D \in SUBSET MappingKeys}

\* What decoding can yield: any integer, any string as a query type.
Decoded == [ttl : InputTTLs \cup {DefaultTTL},
            mappings : Mappings(KnownTypes \cup UnknownTypes)]

DefaultConfig == [ttl |-> DefaultTTL, mappings |-> [k \in {} |-> 0]]

\* A lifecycle call has an empty request, one whose JSON or YAML cannot be
\* read, or a configuration: DefaultConfig for a blank YAML, and DefaultTTL
\* when the YAML omits cache_ttl_seconds.  A direct call has a configuration:
\* an incomplete body is refused before any lock is taken.
EmptyRequest      == [call |-> "lifecycle", body |-> "empty", config |-> DefaultConfig]
UnreadableRequest == [call |-> "lifecycle", body |-> "unreadable", config |-> DefaultConfig]
ShutdownRequest   == [call |-> "shutdown", body |-> "config", config |-> DefaultConfig]
ConfigRequests    == [call : {"lifecycle", "direct"}, body : {"config"}, config : Decoded]

Requests ==
  {EmptyRequest, UnreadableRequest, ShutdownRequest} \cup ConfigRequests

ASSUME ConfigAssumption ==
  /\ None \notin Appliers \cup Requests
  /\ KnownTypes \cap UnknownTypes = {}
  /\ InputTTLs \subseteq Int
  /\ MinTTL \in Nat /\ MaxTTL \in Nat /\ DefaultTTL \in Nat
  /\ 0 < MinTTL /\ MinTTL <= DefaultTTL /\ DefaultTTL <= MaxTTL
  /\ Arriving \subseteq Requests

normalizeTTL(ttl) ==
  CASE ttl = 0                     -> 0
    [] ttl # 0 /\ ttl < MinTTL     -> MinTTL
    [] ttl > MaxTTL                -> MaxTTL
    [] ttl \in MinTTL..MaxTTL      -> ttl

\* A bug to be caught: query types nobody knows are published.
AnyType(mappings) == mappings

KnownOnly(mappings) ==
  Restrict(mappings, {k \in DOMAIN mappings : mappings[k] \in KnownTypes})

\* The configuration that a request is to put in force.
Target(request) ==
  [ttl      |-> normalizeTTL(request.config.ttl),
   mappings |-> KnownOnly(request.config.mappings)]

Configs == [ttl : {0} \cup MinTTL..MaxTTL, mappings : Mappings(KnownTypes)]

-------------------------------------------------------------------------------
VARIABLES
  state,            \* the published configuration [ttl, mappings]
  applyError,       \* runtimeConfigApplyError # ""
  runtimeConfigMu,  \* the applier holding the mutex, or None
  applier,          \* what each applier is doing
  cacheTTL,         \* resultCache.ttl
  entries           \* resultCache.entries

configVars == <<state, applyError, runtimeConfigMu, applier, cacheTTL, entries>>

Away == [at |-> "away", request |-> None, reply |-> None]

\* The stages at which a call holds runtimeConfigMu.
Holding == {"compare", "reset", "publish", "settle", "answer", "unlock"}
Stages  == {"away", "lock"} \cup Holding

Replies == [config : Configs, error : BOOLEAN]

\* Only normalised configurations are published and answered.
ConfigTypeOK ==
  /\ state \in Configs
  /\ applyError \in BOOLEAN
  /\ runtimeConfigMu \in Appliers \cup {None}
  /\ applier \in [Appliers -> [at : Stages, request : Arriving \cup {None},
                               reply : Replies \cup {None}]]
  /\ \A c \in Appliers : applier[c].request = None <=> applier[c].at = "away"
  /\ cacheTTL \in {0} \cup MinTTL..MaxTTL

ConfigInit ==
  /\ state = DefaultConfig
  /\ applyError = FALSE
  /\ runtimeConfigMu = None
  /\ applier = [c \in Appliers |-> Away]
  /\ cacheTTL = DefaultTTL
  /\ entries = NoEntries

Moves(c, from, to) ==
  /\ applier[c].at = from
  /\ applier' = [applier EXCEPT ![c].at = to]

-------------------------------------------------------------------------------
(* The steps of a call *)

Call(c) ==
  /\ applier[c] = Away
  /\ \E r \in Arriving :
       applier' = [applier EXCEPT ![c] = [at |-> "lock", request |-> r, reply |-> None]]
  /\ UNCHANGED <<state, applyError, runtimeConfigMu, cacheTTL, entries>>

\* A bug to be caught: an unreadable request is applied as the default one.
FirstStageOfAll(request) ==
  CASE request.call = "shutdown" -> "reset"
    [] request.body = "empty"    -> "settle"
    [] OTHER                     -> "compare"

\* What follows once the mutex is held.  Shutdown resets the cache whatever
\* its policy was; a request without a configuration leaves the state alone.
FirstStage(request) ==
  CASE request.call = "shutdown"              -> "reset"
    [] request.body \in {"empty", "unreadable"} -> "settle"
    [] OTHER                                  -> "compare"

\* A bug to be caught: applications are not serialised.
LockWithoutWaiting(c) ==
  /\ Moves(c, "lock", FirstStage(applier[c].request))
  /\ runtimeConfigMu' = c
  /\ UNCHANGED <<state, applyError, cacheTTL, entries>>

Lock(c) ==
  /\ runtimeConfigMu = None
  /\ Moves(c, "lock", FirstStage(applier[c].request))
  /\ runtimeConfigMu' = c
  /\ UNCHANGED <<state, applyError, cacheTTL, entries>>

\* publishRuntimeConfigLocked: read the TTL in force ...
Compare(c) ==
  /\ Moves(c, "compare",
           IF state.ttl # Target(applier[c].request).ttl THEN "reset" ELSE "publish")
  /\ UNCHANGED <<state, applyError, runtimeConfigMu, cacheTTL, entries>>

\* ... give the cache the new one and empty it ...
ResetCache(c) ==
  /\ Moves(c, "reset", "publish")
  /\ cacheTTL' = Target(applier[c].request).ttl
  /\ entries' = NoEntries
  /\ UNCHANGED <<state, applyError, runtimeConfigMu>>

\* ... and publish.  Shutdown clears the error in the same critical section.
Publish(c) ==
  LET shutdown == applier[c].request.call = "shutdown"
  IN  /\ Moves(c, "publish", IF shutdown THEN "unlock" ELSE "settle")
      /\ state' = Target(applier[c].request)
      /\ applyError' = (applyError /\ ~shutdown)
      /\ UNCHANGED <<runtimeConfigMu, cacheTTL, entries>>

\* The stage after the outcome is recorded: only a direct call answers with
\* the configuration.
Settled(c) == IF applier[c].request.call = "direct" THEN "answer" ELSE "unlock"

\* A bug to be caught: success does not clear the error of an earlier failure.
SettleStickily(c) ==
  /\ Moves(c, "settle", Settled(c))
  /\ applyError' = (applyError \/ applier[c].request.body = "unreadable")
  /\ UNCHANGED <<state, runtimeConfigMu, cacheTTL, entries>>

\* A bug to be caught: the mutex is released before the answer is composed.
SettleAndUnlock(c) ==
  /\ Moves(c, "settle", Settled(c))
  /\ applyError' = (applier[c].request.body = "unreadable")
  /\ runtimeConfigMu' = None
  /\ UNCHANGED <<state, cacheTTL, entries>>

\* A bug to be caught: the failure path returns with the mutex held.
SettleOrLeave(c) ==
  /\ Moves(c, "settle",
           IF applier[c].request.body = "unreadable" THEN "away" ELSE Settled(c))
  /\ applyError' = (applier[c].request.body = "unreadable")
  /\ UNCHANGED <<state, runtimeConfigMu, cacheTTL, entries>>

\* Record whether the application failed: the deferred function of
\* applyRuntimeConfigLocked, or the end of applyRuntimeConfigDirect.
Settle(c) ==
  /\ Moves(c, "settle", Settled(c))
  /\ applyError' = (applier[c].request.body = "unreadable")
  /\ UNCHANGED <<state, runtimeConfigMu, cacheTTL, entries>>

\* currentConfigState, still under runtimeConfigMu.
Answer(c) ==
  /\ applier[c].at = "answer"
  /\ applier' = [applier EXCEPT ![c].at = "unlock",
                                ![c].reply = [config |-> state, error |-> applyError]]
  /\ UNCHANGED <<state, applyError, runtimeConfigMu, cacheTTL, entries>>

Unlock(c) ==
  /\ applier[c].at = "unlock"
  /\ applier' = [applier EXCEPT ![c] = Away]
  /\ runtimeConfigMu' = None
  /\ UNCHANGED <<state, applyError, cacheTTL, entries>>

Held(c) ==
  \/ Compare(c)
  \/ ResetCache(c)
  \/ Publish(c)
  \/ Settle(c)
  \/ Answer(c)
  \/ Unlock(c)

ConfigNext == \E c \in Appliers : Call(c) \/ Lock(c) \/ Held(c)

ConfigSpec == ConfigInit /\ [][ConfigNext]_configVars

\* A Go mutex hands itself to a waiter that has starved, so a call that keeps
\* finding it free in between gets it; between lock and unlock nothing blocks.
ConfigFairness ==
  \A c \in Appliers : SF_configVars(Lock(c)) /\ WF_configVars(Held(c))

FairConfigSpec == ConfigSpec /\ ConfigFairness

-------------------------------------------------------------------------------
(* Properties *)

\* Between applications the cache keeps results for as long as the published
\* configuration says: the comment in publishRuntimeConfigLocked, and what
\* TestConcurrentRuntimeConfigKeepsCachePolicyAndStateAligned samples.
PolicyAligned == runtimeConfigMu = None => cacheTTL = state.ttl

\* The answer of config-apply is the configuration this call asked for, as
\* normalised, without an error, whoever else applies one meanwhile.
AnswerIsOwn ==
  \A c \in Appliers :
    applier[c].reply # None =>
      applier[c].reply = [config |-> Target(applier[c].request), error |-> FALSE]

\* A call about to release the mutex leaves the error that its own request
\* deserves, whatever earlier calls left.
ErrorIsOfLastCall ==
  \A c \in Appliers :
    applier[c].at = "unlock" =>
      (applyError <=> applier[c].request.body = "unreadable")

\* The state changes only to the target of a request that carries one: a
\* failed reconfigure keeps the last valid configuration.
OnlyTargetsPublished ==
  [][state' # state =>
       \E c \in Appliers :
         /\ applier[c].request # None
         /\ applier[c].request.body = "config"
         /\ state' = Target(applier[c].request)]_configVars

\* Every call of the host or the dashboard returns.
CallsReturn == \A c \in Appliers : applier[c].at # "away" ~> applier[c].at = "away"
===============================================================================
