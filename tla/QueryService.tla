------------------------------ MODULE QueryService ------------------------------
(***************************************************************************)
(* Balance queries (src/main.go) beside the calls that change the          *)
(* configuration.  A query resolves the type of each of its accounts       *)
(* against the published mappings, answers what the cache holds, and       *)
(* starts a goroutine, here a job, for every other account.  Jobs for the  *)
(* same cache key join one fetch; fetches and manual queries share a       *)
(* bounded number of slots; the owner of a fetch files its result in the   *)
(* cache under the policy it finds, then wakes those who joined.           *)
(***************************************************************************)
EXTENDS RuntimeConfig, Sequences

CONSTANTS
  Queries,       \* calls of handleBalanceQuery, each made at most once
  Manuals,       \* calls of handleManualBalanceQuery, each made at most once
  Batches,       \* the sequences of accounts that a query can ask about
  MaxSlots,      \* cap(querySlots), 8 in the code
  CacheLimit,    \* defaultMaxEntries, 1024 in the code
  FailureTTL,    \* how long cacheFetchResult keeps each kind of failure
  MaxTime        \* bound on the clock

\* "ok" is a result without error and without warnings; FailureTTL covers every
\* other kind, a partial result with warnings included.
\* "panic" is the one outcome of a fetch that is not a result; performAccountFetch
\* makes it a failure of the general kind, "other".
Kinds    == {"ok"} \cup DOMAIN FailureTTL
Outcomes == Kinds \cup {"panic"}

\* asked is the query type the page believes in, or None; credential stands
\* for the address, the proxy and the digest of the API key.
IsAccount(a) == {"id", "mappingKey", "asked", "credential"} = DOMAIN a

Accounts == UNION {Range(b) : b \in Batches}
Indices  == UNION {DOMAIN b : b \in Batches}
Jobs     == Queries \X Indices

\* A slot is held by a job or by a manual query: the two are told apart.
ASSUME QueryAssumption ==
  /\ Batches \subseteq Seq(Accounts)
  /\ \A a \in Accounts : IsAccount(a)
  /\ Jobs \cap Manuals = {}
  /\ MaxSlots \in Nat \ {0}
  /\ CacheLimit \in Nat \ {0}
  /\ "other" \in DOMAIN FailureTTL /\ "ok" \notin DOMAIN FailureTTL
  /\ \A kind \in DOMAIN FailureTTL : FailureTTL[kind] \in Nat \ {0}
  /\ MaxTime \in Nat

VARIABLES
  now,          \* the clock
  query,        \* the progress of each query
  job,          \* job[q][i]: the goroutine of account i of query q
  fetchCalls,   \* cache key -> the job that owns the fetch in flight
  slots,        \* who has put a token into querySlots
  manual        \* the progress of each manual query

queryVars == <<now, query, job, fetchCalls, slots, manual>>
vars      == <<configVars, queryVars>>

Job(j) == job[j[1]][j[2]]

Account(j) == query[j[1]].accounts[j[2]]

\* A bug to be caught: the key leaves the query type out.
KeyWithoutType(j) == [type |-> None, credential |-> Account(j).credential]

\* accountCacheKey: jobs that agree on it share a fetch and a cache entry.
KeyOf(j) == [type |-> query[j[1]].types[j[2]], credential |-> Account(j).credential]

\* fetchAccount: a result says what was asked, for whom, and by which fetch.
Fetched(j, kind) ==
  [kind |-> kind, type |-> query[j[1]].types[j[2]],
   credential |-> Account(j).credential, id |-> Account(j).id, by |-> j]

\* decorateAccountResult: a shared result is relabelled for who receives it.
Decorated(result, account) == [result EXCEPT !.id = account.id]

-------------------------------------------------------------------------------
Unasked == [at |-> "new", accounts |-> <<>>, refresh |-> FALSE, types |-> <<>>,
            scanned |-> 0, seen |-> None, settled |-> {}]

Unstarted == [at |-> "none", owner |-> None, result |-> None, policy |-> None,
              seen |-> None]

Answered(result) == [Unstarted EXCEPT !.at = "done", !.result = result]

\* The stages of a job that owns a fetch.
InFlight == {"slot", "fetch", "policy", "store", "probe", "judge", "negative", "finish"}

QueryStages == {"new", "resolve", "scan", "judge", "done", "conflict"}
JobStages   == {"none", "join", "wait", "done"} \cup InFlight

QueryTypeOK ==
  /\ now \in 0..MaxTime
  /\ \A q \in Queries :
       /\ query[q].at \in QueryStages
       /\ query[q].accounts \in Batches \cup {<<>>}
       /\ query[q].types \in Seq(KnownTypes)
       /\ Len(query[q].types) <= Len(query[q].accounts)
       /\ query[q].scanned \in 0..Len(query[q].accounts)
       /\ query[q].settled \subseteq Jobs
  /\ \A j \in Jobs : Job(j).at \in JobStages /\ Job(j).owner \in Jobs \cup {None}
  /\ \A k \in DOMAIN fetchCalls : fetchCalls[k] \in Jobs
  /\ slots \subseteq Jobs \cup Manuals
  /\ manual \in [Manuals -> {"new", "slot", "fetch", "done"}]

QueryInit ==
  /\ now = 0
  /\ query = [q \in Queries |-> Unasked]
  /\ job = [q \in Queries |-> [i \in Indices |-> Unstarted]]
  /\ fetchCalls = [k \in {} |-> None]
  /\ slots = {}
  /\ manual = [m \in Manuals |-> "new"]

Init == ConfigInit /\ QueryInit

SetJob(j, f) == job' = [job EXCEPT ![j[1]][j[2]] = f]

JobMoves(j, from, to) ==
  /\ Job(j).at = from
  /\ SetJob(j, [Job(j) EXCEPT !.at = to])

-------------------------------------------------------------------------------
(* handleBalanceQuery *)

\* A request that can be read and is not too large arrives; any other one is
\* refused before it touches anything.  settled remembers, for RefreshIsNew only, whose
\* fetches are over by then.
Arrive(q) ==
  /\ query[q].at = "new"
  /\ \E b \in Batches, refresh \in BOOLEAN :
       query' = [query EXCEPT ![q].at = "resolve", ![q].accounts = b,
                              ![q].refresh = refresh,
                              ![q].settled = {j \in Jobs : refresh /\ Job(j).at = "done"}]
  /\ UNCHANGED <<now, job, fetchCalls, slots, manual, configVars>>

\* A bug to be caught: a mapping that is missing yields the zero query type.
ResolveAnything(q) ==
  LET a == query[q].accounts[Len(query[q].types) + 1]
      type == IF a.mappingKey \in DOMAIN state.mappings
              THEN state.mappings[a.mappingKey] ELSE None
  IN  /\ query[q].at = "resolve"
      /\ Len(query[q].types) < Len(query[q].accounts)
      /\ query' = [query EXCEPT ![q].types = Append(@, type)]
      /\ UNCHANGED <<now, job, fetchCalls, slots, manual, configVars>>

\* resolveConfiguredQueryType for the next account, under stateMu: the type
\* published for its mapping key must exist and be the one the page asked for.
\* "conflict" stands for every refusal of the whole query: an account that is
\* malformed, or lacks the address its type needs, ends it the same way.
Resolve(q) ==
  LET a == query[q].accounts[Len(query[q].types) + 1]
      mapped == a.mappingKey \in DOMAIN state.mappings
      agreed == mapped /\ a.asked \in {None, state.mappings[a.mappingKey]}
  IN  /\ query[q].at = "resolve"
      /\ Len(query[q].types) < Len(query[q].accounts)
      /\ \/ agreed /\ query' = [query EXCEPT
                                  ![q].types = Append(@, state.mappings[a.mappingKey])]
         \/ ~agreed /\ query' = [query EXCEPT ![q].at = "conflict"]
      /\ UNCHANGED <<now, job, fetchCalls, slots, manual, configVars>>

\* Every account is resolved: fetchAccounts begins.
Resolved(q) ==
  /\ query[q].at = "resolve"
  /\ Len(query[q].types) = Len(query[q].accounts)
  /\ query' = [query EXCEPT ![q].at = "scan"]
  /\ UNCHANGED <<now, job, fetchCalls, slots, manual, configVars>>

NextJob(q) == <<q, query[q].scanned + 1>>

Scanning(q, stage) ==
  /\ query[q].at = stage
  /\ query[q].scanned < Len(query[q].accounts)

Spawn(q) ==
  /\ query' = [query EXCEPT ![q].at = "scan", ![q].scanned = @ + 1, ![q].seen = None]
  /\ SetJob(NextJob(q), [Unstarted EXCEPT !.at = "join"])

\* A bug to be caught: a refresh reads the cache too.
ScanCached(q) ==
  /\ Scanning(q, "scan")
  /\ \/ /\ KeyOf(NextJob(q)) \in DOMAIN entries
        /\ query' = [query EXCEPT ![q].at = "judge",
                                  ![q].seen = entries[KeyOf(NextJob(q))]]
        /\ UNCHANGED job
     \/ KeyOf(NextJob(q)) \notin DOMAIN entries /\ Spawn(q)
  /\ UNCHANGED <<now, fetchCalls, slots, manual, configVars>>

\* The next account: a refresh, or a key the cache does not have, gets a job;
\* otherwise resultCache.Get has read an entry ...
Scan(q) ==
  LET k == KeyOf(NextJob(q))
      hasEntry == ~query[q].refresh /\ k \in DOMAIN entries
  IN  /\ Scanning(q, "scan")
      /\ \/ hasEntry /\ query' = [query EXCEPT ![q].at = "judge", ![q].seen = entries[k]]
                     /\ UNCHANGED job
         \/ ~hasEntry /\ Spawn(q)
      /\ UNCHANGED <<now, fetchCalls, slots, manual, configVars>>

\* ... and looks at the clock: a live entry is the answer, an expired one is
\* swept (see ResultCache) and the account gets a job.
ScanJudge(q) ==
  LET j == NextJob(q)
      seen == query[q].seen
  IN  /\ Scanning(q, "judge")
      /\ \/ /\ Live(seen, now)
            /\ query' = [query EXCEPT ![q].at = "scan", ![q].scanned = @ + 1,
                                      ![q].seen = None]
            /\ SetJob(j, Answered(Decorated(seen.value, Account(j))))
            /\ UNCHANGED entries
         \/ /\ ~Live(seen, now)
            /\ entries' = Swept(entries, KeyOf(j), seen)
            /\ Spawn(q)
      /\ UNCHANGED <<now, fetchCalls, slots, manual,
                     state, applyError, runtimeConfigMu, applier, cacheTTL>>

\* wait.Wait() and the reply.
Reply(q) ==
  /\ query[q].at = "scan"
  /\ query[q].scanned = Len(query[q].accounts)
  /\ \A i \in DOMAIN query[q].accounts : Job(<<q, i>>).at = "done"
  /\ query' = [query EXCEPT ![q].at = "done"]
  /\ UNCHANGED <<now, job, fetchCalls, slots, manual, configVars>>

-------------------------------------------------------------------------------
(* fetchAccountCoalesced *)

Unchanged(rest) == UNCHANGED <<now, query, manual, configVars, rest>>

\* A bug to be caught: nobody looks for a fetch already in flight.
JoinAlone(j) ==
  /\ JobMoves(j, "join", "slot")
  /\ fetchCalls' = Put(fetchCalls, KeyOf(j), j)
  /\ Unchanged(slots)

\* Under fetchMu: wait for the fetch in flight for this key, or own a new one.
Join(j) ==
  LET k == KeyOf(j)
  IN  /\ Job(j).at = "join"
      /\ \/ /\ k \in DOMAIN fetchCalls
            /\ SetJob(j, [Job(j) EXCEPT !.at = "wait", !.owner = fetchCalls[k]])
            /\ UNCHANGED fetchCalls
         \/ /\ k \notin DOMAIN fetchCalls
            /\ JobMoves(j, "join", "slot")
            /\ fetchCalls' = Put(fetchCalls, k, j)
      /\ Unchanged(slots)

\* call.done is closed: take the shared result.
Wake(j) ==
  /\ Job(j).at = "wait"
  /\ Job(Job(j).owner).at = "done"
  /\ SetJob(j, Answered(Decorated(Job(Job(j).owner).result, Account(j))))
  /\ Unchanged(<<fetchCalls, slots>>)

\* performAccountFetch: querySlots <- struct{}{} blocks while it is full.
AcquireSlot(j) ==
  /\ Cardinality(slots) < MaxSlots
  /\ JobMoves(j, "slot", "fetch")
  /\ slots' = slots \cup {j}
  /\ Unchanged(fetchCalls)

\* A bug to be caught: a panic escapes before the slot is given back.
FetchReturnsLeaking(j) ==
  /\ Job(j).at = "fetch"
  /\ \E outcome \in Outcomes :
       LET kind == IF outcome = "panic" THEN "other" ELSE outcome
       IN  /\ SetJob(j, [Job(j) EXCEPT !.at = "policy", !.result = Fetched(j, kind)])
           /\ slots' = IF outcome = "panic" THEN slots ELSE slots \ {j}
  /\ Unchanged(fetchCalls)

\* The fetcher returns or panics; the deferred functions give the slot back
\* and turn a panic into a failure.
FetchReturns(j) ==
  /\ Job(j).at = "fetch"
  /\ \E outcome \in Outcomes :
       LET kind == IF outcome = "panic" THEN "other" ELSE outcome
       IN  SetJob(j, [Job(j) EXCEPT !.at = "policy", !.result = Fetched(j, kind)])
  /\ slots' = slots \ {j}
  /\ Unchanged(fetchCalls)

-------------------------------------------------------------------------------
(* cacheFetchResult *)

\* A bug to be caught: a failure is filed without looking for a success.
ReadPolicyHastily(j) ==
  LET next == CASE state.ttl = 0 -> "finish"
                [] state.ttl # 0 /\ Job(j).result.kind = "ok" -> "store"
                [] OTHER -> "negative"
  IN  /\ Job(j).at = "policy"
      /\ SetJob(j, [Job(j) EXCEPT !.at = next, !.policy = state.ttl])
      /\ Unchanged(<<fetchCalls, slots>>)

\* currentTTL(): nothing is filed while caching is off; a success is stored,
\* a failure first looks for a success to spare.
ReadPolicy(j) ==
  LET next == CASE state.ttl = 0 -> "finish"
                [] state.ttl # 0 /\ Job(j).result.kind = "ok" -> "store"
                [] OTHER -> "probe"
  IN  /\ Job(j).at = "policy"
      /\ SetJob(j, [Job(j) EXCEPT !.at = next, !.policy = state.ttl])
      /\ Unchanged(<<fetchCalls, slots>>)

Files(j, ttl) ==
  /\ entries' \in Stored(entries, CacheLimit, KeyOf(j), Job(j).result, ttl, now)
  /\ UNCHANGED <<now, query, manual, fetchCalls, slots,
                 state, applyError, runtimeConfigMu, applier, cacheTTL>>

\* A bug to be caught: a success is stored for the duration read earlier.
StoreAsRead(j) == JobMoves(j, "store", "finish") /\ Files(j, Job(j).policy)

\* resultCache.Set: the duration is the cache's own, read under its lock.
StoreSuccess(j) == JobMoves(j, "store", "finish") /\ Files(j, cacheTTL)

\* resultCache.Get for the key, as in Scan.
Probe(j) ==
  LET k == KeyOf(j)
  IN  /\ Job(j).at = "probe"
      /\ SetJob(j, IF k \in DOMAIN entries
                   THEN [Job(j) EXCEPT !.at = "judge", !.seen = entries[k]]
                   ELSE [Job(j) EXCEPT !.at = "negative"])
      /\ Unchanged(<<fetchCalls, slots>>)

\* A live success is spared; anything else gives way to the failure.
Judge(j) ==
  LET seen == Job(j).seen
      spared == Live(seen, now) /\ seen.value.kind = "ok"
  IN  /\ JobMoves(j, "judge", IF spared THEN "finish" ELSE "negative")
      /\ entries' = IF Live(seen, now) THEN entries ELSE Swept(entries, KeyOf(j), seen)
      /\ UNCHANGED <<now, query, manual, fetchCalls, slots,
                     state, applyError, runtimeConfigMu, applier, cacheTTL>>

Least(a, b) == IF a < b THEN a ELSE b

\* resultCache.SetWithTTL: as long as the kind of failure lasts, but no
\* longer than the policy read earlier.
StoreFailure(j) ==
  /\ JobMoves(j, "negative", "finish")
  /\ Files(j, Least(FailureTTL[Job(j).result.kind], Job(j).policy))

\* Under fetchMu: leave the result for those who joined, drop the call, wake.
Finish(j) ==
  /\ Job(j).at = "finish"
  /\ SetJob(j, Answered(Decorated(Job(j).result, Account(j))))
  /\ fetchCalls' = Without(fetchCalls, KeyOf(j))
  /\ Unchanged(slots)

-------------------------------------------------------------------------------
(* handleManualBalanceQuery: a fetch outside the mappings and the cache *)

ManualMoves(m, from, to) ==
  /\ manual[m] = from
  /\ manual' = [manual EXCEPT ![m] = to]
  /\ UNCHANGED <<now, query, job, fetchCalls, configVars>>

ManualArrive(m) == ManualMoves(m, "new", "slot") /\ UNCHANGED slots

ManualAcquire(m) ==
  /\ Cardinality(slots) < MaxSlots
  /\ ManualMoves(m, "slot", "fetch")
  /\ slots' = slots \cup {m}

\* A bug to be caught: a manual query keeps its slot.
ManualReturnsLeaking(m) == ManualMoves(m, "fetch", "done") /\ UNCHANGED slots

ManualReturns(m) == ManualMoves(m, "fetch", "done") /\ slots' = slots \ {m}

-------------------------------------------------------------------------------
Tick ==
  /\ now < MaxTime
  /\ now' = now + 1
  /\ UNCHANGED <<query, job, fetchCalls, slots, manual, configVars>>

QueryStep(q) ==
  \/ Resolve(q)
  \/ Resolved(q)
  \/ Scan(q)
  \/ ScanJudge(q)
  \/ Reply(q)

JobStep(j) ==
  \/ Join(j)
  \/ Wake(j)
  \/ FetchReturns(j)
  \/ ReadPolicy(j)
  \/ StoreSuccess(j)
  \/ Probe(j)
  \/ Judge(j)
  \/ StoreFailure(j)
  \/ Finish(j)

ConfigStep == ConfigNext /\ UNCHANGED queryVars

Next ==
  \/ \E q \in Queries : Arrive(q) \/ QueryStep(q)
  \/ \E j \in Jobs : JobStep(j) \/ AcquireSlot(j)
  \/ \E m \in Manuals : ManualArrive(m) \/ ManualAcquire(m) \/ ManualReturns(m)
  \/ ConfigStep
  \/ Tick

Spec == Init /\ [][Next]_vars

\* Goroutines run, fetchers return because every HTTP client has a timeout,
\* and a channel serves blocked senders in the order they came, so a slot
\* that keeps becoming free reaches each of them.
Fairness ==
  /\ \A q \in Queries : WF_vars(QueryStep(q))
  /\ \A j \in Jobs : WF_vars(JobStep(j)) /\ SF_vars(AcquireSlot(j))
  /\ \A m \in Manuals : SF_vars(ManualAcquire(m)) /\ WF_vars(ManualReturns(m))

FairSpec == Spec /\ Fairness

-------------------------------------------------------------------------------
(* Properties *)

\* At any time at most one fetch is under way for a cache key: identical
\* concurrent queries do not multiply the calls to a provider.
SingleFlight ==
  \A j1, j2 \in Jobs :
    /\ j1 # j2
    /\ Job(j1).at \in InFlight
    /\ Job(j2).at \in InFlight
    => KeyOf(j1) # KeyOf(j2)

\* The slots in use are those of the fetches under way, no more than there
\* are: none is lost when a fetcher panics, and nobody fetches without one.
SlotsAreFetches ==
  /\ slots = {j \in Jobs : Job(j).at = "fetch"} \cup {m \in Manuals : manual[m] = "fetch"}
  /\ Cardinality(slots) <= MaxSlots

\* A failed refresh leaves a success that is still valid in place, whatever
\* happened to cache and configuration since it looked (the comment in
\* cacheFetchResult).
SuccessSurvivesFailure ==
  [][\A k \in DOMAIN entries \cap DOMAIN entries' :
       entries[k].value.kind = "ok" /\ entries'[k].value.kind # "ok"
         => ~Live(entries[k], now)]_vars

\* Every answer, fetched, shared or cached, is of the type resolved for the
\* account, for its credential, and labelled with its own id.
AnswerIsForAccount ==
  \A j \in Jobs :
    Job(j).at = "done" =>
      /\ Job(j).result.type = query[j[1]].types[j[2]]
      /\ Job(j).result.credential = Account(j).credential
      /\ Job(j).result.id = Account(j).id

\* No success is kept longer than the cache's present policy allows, not even
\* one whose fetch spanned a change of policy: with caching off there is none.
SuccessWithinPolicy ==
  \A k \in DOMAIN entries :
    entries[k].value.kind = "ok" => entries[k].expiresAt <= now + cacheTTL

\* A refresh is answered by a fetch that was not over when it arrived, never
\* by a stored result.
RefreshIsNew ==
  \A j \in Jobs :
    Job(j).at = "done" => Job(j).result.by \notin query[j[1]].settled

\* Every query and every manual query is answered.
QueriesAnswered ==
  \A q \in Queries : query[q].at # "new" ~> query[q].at \in {"done", "conflict"}

ManualsAnswered == \A m \in Manuals : manual[m] = "slot" ~> manual[m] = "done"

\* README.md: failures are cached briefly and never longer than the duration
\* configured.  The code breaks it: a failure is stored for the duration read
\* before the policy changed.
FailureWithinPolicy ==
  runtimeConfigMu = None =>
    \A k \in DOMAIN entries :
      entries[k].value.kind # "ok" => entries[k].expiresAt <= now + state.ttl

\* README.md: while the cache is valid nothing is queried again unless it is
\* a refresh.  The code breaks it: between the look at the cache and the
\* start of the fetch another query may have stored the answer.
NoRepeatWhileCached ==
  [][\A j \in Jobs :
       Job(j).at = "join" /\ Job(j)'.at = "slot" /\ ~query[j[1]].refresh
         => ~LiveAt(entries, KeyOf(j), now)]_vars
===============================================================================
