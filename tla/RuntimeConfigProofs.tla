-------------------------- MODULE RuntimeConfigProofs --------------------------
(***************************************************************************)
(* Proofs that the safety properties of RuntimeConfig hold for every       *)
(* number of concurrent calls, every set of mapping keys and types, and    *)
(* every bounds of the TTL.                                                *)
(***************************************************************************)
EXTENDS RuntimeConfig, TLAPS

\* The mutex belongs to the one call that is past Lock and before its return.
MutexOwned == \A c \in Appliers : applier[c].at \in Holding <=> runtimeConfigMu = c

\* The cache follows the state except between ResetCache and Publish, when it
\* already has the TTL about to be published.
CacheFollows ==
  /\ runtimeConfigMu = None => cacheTTL = state.ttl
  /\ \A c \in Appliers :
       /\ applier[c].at \in Holding \ {"publish"} => cacheTTL = state.ttl
       /\ applier[c].at = "publish" => cacheTTL = Target(applier[c].request).ttl

\* What a call has achieved by each stage.
StageMeans(c) ==
  LET a == applier[c]
  IN  /\ a.at \in {"compare", "reset", "publish"} => a.request.body = "config"
      /\ a.at = "settle" /\ a.request.body = "config" => state = Target(a.request)
      /\ a.at = "answer" =>
           a.request.body = "config" /\ state = Target(a.request) /\ ~applyError
      /\ a.at = "unlock" => (applyError <=> a.request.body = "unreadable")
      /\ a.reply # None =>
           /\ a.at = "unlock"
           /\ a.reply = [config |-> Target(a.request), error |-> FALSE]

StagesMean == \A c \in Appliers : StageMeans(c)

ConfigInv == ConfigTypeOK /\ MutexOwned /\ CacheFollows /\ StagesMean

-------------------------------------------------------------------------------
\* normalizeTTL maps every integer to 0 or into the bounds.
LEMMA TTLNormal ==
  ASSUME NEW ttl \in Int
  PROVE  normalizeTTL(ttl) \in {0} \cup MinTTL..MaxTTL
BY ConfigAssumption DEF normalizeTTL

\* Dropping the unknown types leaves mappings to known ones.
LEMMA MappingsKnown ==
  ASSUME NEW m \in Mappings(KnownTypes \cup UnknownTypes)
  PROVE  KnownOnly(m) \in Mappings(KnownTypes)
<1> DEFINE D == {k \in DOMAIN m : m[k] \in KnownTypes}
<1>1. PICK E \in SUBSET MappingKeys : m \in [E -> KnownTypes \cup UnknownTypes]
  BY DEF Mappings
<1>2. D \in SUBSET MappingKeys
  BY <1>1
<1>3. KnownOnly(m) \in [D -> KnownTypes]
  BY DEF KnownOnly, Restrict
<1> QED
  BY <1>2, <1>3 DEF Mappings

\* A body without a setting is decoded to the defaults.
LEMMA DefaultDecoded == DefaultConfig \in Decoded
<1>1. [k \in {} |-> 0] \in [{} -> KnownTypes \cup UnknownTypes]
  OBVIOUS
<1>2. [k \in {} |-> 0] \in Mappings(KnownTypes \cup UnknownTypes)
  BY <1>1 DEF Mappings
<1> QED
  BY <1>2 DEF DefaultConfig, Decoded

\* The defaults are a normalised configuration.
LEMMA DefaultIsConfig == DefaultConfig \in Configs
<1>1. [k \in {} |-> 0] \in [{} -> KnownTypes]
  OBVIOUS
<1>2. [k \in {} |-> 0] \in Mappings(KnownTypes)
  BY <1>1 DEF Mappings
<1> QED
  BY <1>2, ConfigAssumption DEF DefaultConfig, Configs

\* Which requests there are, and what they ask for.
LEMMA RequestShape ==
  ASSUME NEW r \in Arriving
  PROVE  /\ r # None
         /\ r.call \in {"lifecycle", "direct", "shutdown"}
         /\ r.body \in {"empty", "unreadable", "config"}
         /\ r.call \in {"direct", "shutdown"} => r.body = "config"
         /\ r.config \in Decoded
<1>1. r \in Requests /\ r # None
  BY ConfigAssumption
<1> QED
  BY <1>1, DefaultDecoded
  DEF Requests, EmptyRequest, UnreadableRequest, ShutdownRequest, ConfigRequests

\* What a request asks for is normalised, whatever the request says.
LEMMA TargetIsConfig ==
  ASSUME NEW r \in Arriving
  PROVE  Target(r) \in Configs
<1>1. r.config \in Decoded
  BY RequestShape
<1>2. /\ r.config.ttl \in InputTTLs \cup {DefaultTTL}
      /\ r.config.mappings \in Mappings(KnownTypes \cup UnknownTypes)
  BY <1>1 DEF Decoded
<1>3. InputTTLs \cup {DefaultTTL} \subseteq Int
  BY ConfigAssumption
<1> QED
  BY <1>2, <1>3, TTLNormal, MappingsKnown DEF Target, Configs

\* A call begins where its kind of request lets it.
LEMMA FirstStageHolds ==
  ASSUME NEW r \in Arriving
  PROVE  /\ FirstStage(r) \in {"compare", "reset", "settle"}
         /\ FirstStage(r) \in {"compare", "reset"} => r.body = "config"
         /\ FirstStage(r) = "settle" => r.body # "config"
BY RequestShape DEF FirstStage

-------------------------------------------------------------------------------
\* The plugin starts in a state that satisfies the invariant.
LEMMA InvInit == ConfigInit => ConfigInv
<1> SUFFICES ASSUME ConfigInit PROVE ConfigInv
  OBVIOUS
<1> USE DEF ConfigInit, Away
<1>1. ConfigTypeOK
  <2>1. cacheTTL \in {0} \cup MinTTL..MaxTTL
    BY ConfigAssumption
  <2>2. state \in Configs
    BY DefaultIsConfig
  <2>3. /\ applier \in [Appliers -> [at : Stages, request : Arriving \cup {None},
                                     reply : Replies \cup {None}]]
        /\ \A c \in Appliers : applier[c].request = None <=> applier[c].at = "away"
    BY DEF Stages
  <2> QED
    BY <2>1, <2>2, <2>3 DEF ConfigTypeOK
<1>2. MutexOwned
  BY ConfigAssumption DEF MutexOwned, Holding
<1>3. CacheFollows
  BY DEF CacheFollows, Holding, DefaultConfig
<1>4. StagesMean
  BY DEF StagesMean, StageMeans
<1> QED
  BY <1>1, <1>2, <1>3, <1>4 DEF ConfigInv

\* Every step of a call keeps the invariant.
LEMMA CallKeeps ==
  ASSUME ConfigInv, NEW c \in Appliers, Call(c)
  PROVE  ConfigInv'
<1> USE DEF ConfigInv, Call
<1>1. PICK r \in Arriving :
        applier' = [applier EXCEPT ![c] = [at |-> "lock", request |-> r, reply |-> None]]
  OBVIOUS
<1>2. r # None /\ applier[c] = Away
  BY RequestShape
<1>3. ConfigTypeOK'
  BY <1>1, <1>2 DEF ConfigTypeOK, Stages
<1>4. MutexOwned'
  BY <1>1, <1>2 DEF ConfigTypeOK, MutexOwned, Holding, Away
<1>5. CacheFollows'
  BY <1>1 DEF ConfigTypeOK, CacheFollows, Holding
<1>6. StagesMean'
  BY <1>1 DEF ConfigTypeOK, StagesMean, StageMeans
<1> QED
  BY <1>3, <1>4, <1>5, <1>6

\* Taking the mutex keeps the invariant.
LEMMA LockKeeps ==
  ASSUME ConfigInv, NEW c \in Appliers, Lock(c)
  PROVE  ConfigInv'
<1> USE DEF ConfigInv, Lock, Moves
<1>1. applier[c].request \in Arriving
  BY DEF ConfigTypeOK
<1>2. FirstStage(applier[c].request) \in Holding \ {"publish", "answer", "unlock"}
  BY <1>1, FirstStageHolds DEF Holding
<1>3. ConfigTypeOK'
  BY <1>2 DEF ConfigTypeOK, Stages, Holding
<1>4. MutexOwned'
  BY <1>2, ConfigAssumption DEF ConfigTypeOK, MutexOwned
<1>5. CacheFollows'
  BY <1>2, ConfigAssumption DEF ConfigTypeOK, CacheFollows
<1>6. StagesMean'
  BY <1>1, <1>2, FirstStageHolds DEF ConfigTypeOK, StagesMean, StageMeans
<1> QED
  BY <1>3, <1>4, <1>5, <1>6

\* Comparing durations keeps the invariant.
LEMMA CompareKeeps ==
  ASSUME ConfigInv, NEW c \in Appliers, Compare(c)
  PROVE  ConfigInv'
<1> USE DEF ConfigInv, Compare, Moves
<1>1. ConfigTypeOK'
  BY DEF ConfigTypeOK, Stages, Holding
<1>2. MutexOwned'
  BY DEF ConfigTypeOK, MutexOwned, Holding
<1>3. CacheFollows'
  BY ConfigAssumption DEF ConfigTypeOK, MutexOwned, CacheFollows, Holding
<1>4. StagesMean'
  BY DEF ConfigTypeOK, StagesMean, StageMeans
<1> QED
  BY <1>1, <1>2, <1>3, <1>4

\* Resetting the cache keeps the invariant.
LEMMA ResetKeeps ==
  ASSUME ConfigInv, NEW c \in Appliers, ResetCache(c)
  PROVE  ConfigInv'
<1> USE DEF ConfigInv, ResetCache, Moves
<1>1. Target(applier[c].request) \in Configs
  BY TargetIsConfig DEF ConfigTypeOK
<1>2. ConfigTypeOK'
  BY <1>1 DEF ConfigTypeOK, Stages, Holding, Configs
<1>3. MutexOwned'
  BY DEF ConfigTypeOK, MutexOwned, Holding
<1>4. CacheFollows'
  BY ConfigAssumption DEF ConfigTypeOK, MutexOwned, CacheFollows, Holding
<1>5. StagesMean'
  BY DEF ConfigTypeOK, StagesMean, StageMeans
<1> QED
  BY <1>2, <1>3, <1>4, <1>5

\* Publishing a configuration keeps the invariant.
LEMMA PublishKeeps ==
  ASSUME ConfigInv, NEW c \in Appliers, Publish(c)
  PROVE  ConfigInv'
<1> USE DEF ConfigInv, Publish, Moves
<1>1. applier[c].request \in Arriving /\ Target(applier[c].request) \in Configs
  BY TargetIsConfig DEF ConfigTypeOK
<1>2. ConfigTypeOK'
  BY <1>1 DEF ConfigTypeOK, Stages, Holding
<1>3. MutexOwned'
  BY DEF ConfigTypeOK, MutexOwned, Holding
<1>4. CacheFollows'
  BY ConfigAssumption DEF ConfigTypeOK, MutexOwned, CacheFollows, Holding
<1>5. \A d \in Appliers : d # c => applier[d].at \notin Holding
  BY DEF MutexOwned, Holding
<1>6. StagesMean'
  BY <1>1, <1>5, RequestShape DEF ConfigTypeOK, StagesMean, StageMeans, Holding
<1> QED
  BY <1>2, <1>3, <1>4, <1>6

\* Setting or clearing the configuration error keeps the invariant.
LEMMA SettleKeeps ==
  ASSUME ConfigInv, NEW c \in Appliers, Settle(c)
  PROVE  ConfigInv'
<1> USE DEF ConfigInv, Settle, Moves, Settled
<1>1. ConfigTypeOK'
  BY DEF ConfigTypeOK, Stages, Holding
<1>2. MutexOwned'
  BY DEF ConfigTypeOK, MutexOwned, Holding
<1>3. CacheFollows'
  BY DEF ConfigTypeOK, CacheFollows, Holding
<1>4. \A d \in Appliers : d # c => applier[d].at \notin Holding
  BY DEF MutexOwned, Holding
<1>5. StagesMean'
  BY <1>4, RequestShape DEF ConfigTypeOK, StagesMean, StageMeans, Holding
<1> QED
  BY <1>1, <1>2, <1>3, <1>5

\* Building the answer keeps the invariant.
LEMMA AnswerKeeps ==
  ASSUME ConfigInv, NEW c \in Appliers, Answer(c)
  PROVE  ConfigInv'
<1> USE DEF ConfigInv, Answer
<1>1. ConfigTypeOK'
  BY DEF ConfigTypeOK, Stages, Holding, Replies
<1>2. MutexOwned'
  BY DEF ConfigTypeOK, MutexOwned, Holding
<1>3. CacheFollows'
  BY DEF ConfigTypeOK, CacheFollows, Holding
<1>4. StagesMean'
  BY DEF ConfigTypeOK, StagesMean, StageMeans
<1> QED
  BY <1>1, <1>2, <1>3, <1>4

\* Releasing the mutex keeps the invariant.
LEMMA UnlockKeeps ==
  ASSUME ConfigInv, NEW c \in Appliers, Unlock(c)
  PROVE  ConfigInv'
<1> USE DEF ConfigInv, Unlock, Away
<1>1. ConfigTypeOK'
  BY DEF ConfigTypeOK, Stages
<1>2. MutexOwned'
  BY ConfigAssumption DEF ConfigTypeOK, MutexOwned, Holding
<1>3. CacheFollows'
  BY DEF ConfigTypeOK, CacheFollows, Holding
<1>4. StagesMean'
  BY DEF ConfigTypeOK, StagesMean, StageMeans
<1> QED
  BY <1>1, <1>2, <1>3, <1>4

\* A step that leaves the configuration alone keeps the invariant.
LEMMA StutterKeeps ==
  ASSUME ConfigInv, UNCHANGED configVars
  PROVE  ConfigInv'
BY DEF configVars, ConfigInv, ConfigTypeOK, MutexOwned, CacheFollows, StagesMean, StageMeans

\* Exported to QueryService: the invariant is kept by whatever takes the
\* steps of ConfigNext or leaves the configuration alone.
LEMMA StepKeeps ==
  ASSUME ConfigInv, [ConfigNext]_configVars
  PROVE  ConfigInv'
<1>1. CASE ConfigNext
  BY <1>1, CallKeeps, LockKeeps, CompareKeeps, ResetKeeps, PublishKeeps, SettleKeeps,
     AnswerKeeps, UnlockKeeps DEF ConfigNext, Held
<1>2. CASE UNCHANGED configVars
  BY <1>2, StutterKeeps
<1> QED
  BY <1>1, <1>2

\* The strengthening holds in every reachable state.
THEOREM InvHolds == ConfigSpec => []ConfigInv
<1>1. ConfigInv /\ [ConfigNext]_configVars => ConfigInv'
  BY StepKeeps
<1> QED
  BY <1>1, InvInit, PTL DEF ConfigSpec

-------------------------------------------------------------------------------
\* Only normalised configurations are ever published, answered or given to
\* the cache.
THEOREM TypesCorrect == ConfigSpec => []ConfigTypeOK
<1>1. ConfigInv => ConfigTypeOK
  BY DEF ConfigInv
<1> QED
  BY <1>1, InvHolds, PTL

\* The cache's policy is the published one whenever no call is applying a
\* configuration.
THEOREM PolicyIsAligned == ConfigSpec => []PolicyAligned
<1>1. ConfigInv => PolicyAligned
  BY DEF ConfigInv, CacheFollows, PolicyAligned
<1> QED
  BY <1>1, InvHolds, PTL

\* config-apply answers with the configuration this very call put in force.
THEOREM AnswersAreOwn == ConfigSpec => []AnswerIsOwn
<1>1. ConfigInv => AnswerIsOwn
  BY DEF ConfigInv, StagesMean, StageMeans, AnswerIsOwn
<1> QED
  BY <1>1, InvHolds, PTL

\* A call releases the mutex with the error that its own request deserves.
THEOREM ErrorsAreOfLastCall == ConfigSpec => []ErrorIsOfLastCall
<1>1. ConfigInv => ErrorIsOfLastCall
  BY DEF ConfigInv, StagesMean, StageMeans, ErrorIsOfLastCall
<1> QED
  BY <1>1, InvHolds, PTL

\* The published configuration changes only to the target of a request that
\* carries one, so a failed application keeps the last valid one.
THEOREM OnlyTargetsArePublished == ConfigSpec => OnlyTargetsPublished
<1> DEFINE FromRequest ==
      state' # state =>
        \E c \in Appliers : /\ applier[c].request # None
                            /\ applier[c].request.body = "config"
                            /\ state' = Target(applier[c].request)
<1>1. ConfigInv /\ [ConfigNext]_configVars => [FromRequest]_configVars
  <2> SUFFICES ASSUME ConfigInv, ConfigNext, state' # state
               PROVE  FromRequest
    OBVIOUS
  <2>1. PICK c \in Appliers : Publish(c)
    BY DEF ConfigNext, Call, Lock, Held, Compare, ResetCache, Settle, Answer, Unlock
  <2>2. applier[c].request # None /\ applier[c].request.body = "config"
    BY <2>1 DEF Publish, Moves, ConfigInv, ConfigTypeOK, StagesMean, StageMeans
  <2> QED
    BY <2>1, <2>2 DEF Publish
<1> QED
  BY <1>1, InvHolds, PTL DEF ConfigSpec, OnlyTargetsPublished
===============================================================================
