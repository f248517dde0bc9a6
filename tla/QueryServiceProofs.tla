-------------------------- MODULE QueryServiceProofs --------------------------
(***************************************************************************)
(* Proofs that the safety properties of QueryService hold for any number   *)
(* of queries, accounts, keys, slots, configuration calls and kinds of     *)
(* failure, and for every size of the cache.                               *)
(***************************************************************************)
EXTENDS QueryService, RuntimeConfigProofs, FiniteSetTheorems

-------------------------------------------------------------------------------
(* The inductive invariant *)

Credentials == {a.credential : a \in Accounts}
Ids         == {a.id : a \in Accounts}
Keys        == [type : KnownTypes, credential : Credentials]

Results ==
  [kind : Kinds, type : KnownTypes, credential : Credentials, id : Ids, by : Jobs]

MaybeEntry == Entry(Results, Int) \cup {None}

QueryRecords ==
  [at : QueryStages, accounts : Batches \cup {<<>>}, refresh : BOOLEAN,
   types : Seq(KnownTypes), scanned : Nat, seen : MaybeEntry, settled : SUBSET Jobs]

JobRecords ==
  [at : JobStages, owner : Jobs \cup {None}, result : Results \cup {None},
   policy : Nat \cup {None}, seen : MaybeEntry]

Shape ==
  /\ now \in 0..MaxTime
  /\ query \in [Queries -> QueryRecords]
  /\ job \in [Queries -> [Indices -> JobRecords]]
  /\ IsContent(entries, Keys, Results, Int)
  /\ DOMAIN fetchCalls \subseteq Keys
  /\ fetchCalls \in [DOMAIN fetchCalls -> Jobs]
  /\ manual \in [Manuals -> {"new", "slot", "fetch", "done"}]

\* A result, or an entry holding one, of a fetch for the key.
IsOf(result, k) ==
  result \in Results /\ result.type = k.type /\ result.credential = k.credential

EntryOf(e, k) == e \in Entry(Results, Int) /\ IsOf(e.value, k)

\* How far a query is: types are complete before the first job starts, and
\* what settled names is over for good.
QueryMeans(q) ==
  LET r == query[q]
  IN  /\ Len(r.types) <= Len(r.accounts)
      /\ r.scanned <= Len(r.accounts)
      /\ r.at = "new" => r.accounts = <<>>
      /\ r.at \in {"new", "resolve", "conflict"} => r.scanned = 0
      /\ r.at \in {"scan", "judge", "done"} => Len(r.types) = Len(r.accounts)
      /\ ~r.refresh => r.settled = {}
      /\ r.at = "judge" =>
           /\ ~r.refresh
           /\ r.scanned < Len(r.accounts)
           /\ EntryOf(r.seen, KeyOf(NextJob(q)))

SettledIsOver == \A q \in Queries : \A j \in query[q].settled : Job(j).at = "done"

\* Only the accounts scanned so far have a job.
Begun(j) == Job(j).at # "none" => j[2] \in 1..query[j[1]].scanned

\* A job that fetches is the one registered for its key, and the other way round.
Owns(j) ==
  Job(j).at \in InFlight =>
    KeyOf(j) \in DOMAIN fetchCalls /\ fetchCalls[KeyOf(j)] = j

CallsAreOwned ==
  \A k \in DOMAIN fetchCalls, i \in Jobs :
    fetchCalls[k] = i => Job(i).at \in InFlight /\ KeyOf(i) = k

\* A job waits for a fetch of its own key that was not over when its query
\* arrived.
Waits(j) ==
  LET owner == Job(j).owner
  IN  Job(j).at = "wait" =>
        /\ owner \in Jobs \ query[j[1]].settled
        /\ Job(owner).at \in InFlight \cup {"done"}
        /\ KeyOf(owner) = KeyOf(j)
        /\ Job(owner).at = "done" => Job(owner).result.by = owner

\* The stages at which a fetch has returned and is not shared yet.
Returned == InFlight \ {"slot", "fetch"}

HasResult(j) ==
  LET result == Job(j).result
  IN  /\ Job(j).at \in Returned \cup {"done"} =>
           IsOf(result, KeyOf(j)) /\ result.id = Account(j).id
      /\ Job(j).at \in Returned => result.by = j
      /\ Job(j).at = "done" => result.by \notin query[j[1]].settled

\* What a job that files its result knows of it and of the cache: nobody else
\* stores under its key, so what Probe and Judge saw only disappears.
FilesRightly(j) ==
  LET r == Job(j)
      k == KeyOf(j)
  IN  /\ r.at \in {"store", "probe", "judge", "negative"} => r.policy \in Nat
      /\ r.at = "store" => r.result.kind = "ok"
      /\ r.at \in {"probe", "judge", "negative"} => r.result.kind # "ok"
      /\ r.at = "judge" =>
           EntryOf(r.seen, k) /\ (k \in DOMAIN entries => entries[k] = r.seen)
      /\ r.at = "negative" =>
           ~(LiveAt(entries, k, now) /\ entries[k].value.kind = "ok")

EntryMeans(k) ==
  /\ IsOf(entries[k].value, k)
  /\ entries[k].value.kind = "ok" => entries[k].expiresAt <= now + cacheTTL

QueriesMean == \A q \in Queries : QueryMeans(q)
JobMeans(j) == Begun(j) /\ Owns(j) /\ Waits(j) /\ HasResult(j) /\ FilesRightly(j)
JobsMean    == \A j \in Jobs : JobMeans(j)
EntriesMean == \A k \in DOMAIN entries : EntryMeans(k)

QueryInv ==
  /\ ConfigInv
  /\ Shape
  /\ QueriesMean
  /\ SettledIsOver
  /\ CallsAreOwned
  /\ JobsMean
  /\ EntriesMean

-------------------------------------------------------------------------------
(* What the operators do *)

\* SetJob gives one job its new record and leaves every other alone.
LEMMA SetJobSets ==
  ASSUME Shape, NEW j \in Jobs, NEW f, SetJob(j, f)
  PROVE  /\ f \in JobRecords => job' \in [Queries -> [Indices -> JobRecords]]
         /\ Job(j)' = f
         /\ \A i \in Jobs : i # j => Job(i)' = Job(i)
<1>1. PICK q \in Queries, n \in Indices : j = <<q, n>>
  BY DEF Jobs
<1>2. job' = [job EXCEPT ![q][n] = f]
  BY <1>1 DEF SetJob
<1>3. job \in [Queries -> [Indices -> JobRecords]]
  BY DEF Shape
<1>4. ASSUME NEW i \in Jobs, i # j PROVE Job(i)' = Job(i)
  <2>1. PICK p \in Queries, m \in Indices : i = <<p, m>>
    BY DEF Jobs
  <2> QED
    BY <1>1, <1>2, <1>3, <1>4, <2>1 DEF Job
<1> QED
  BY <1>1, <1>2, <1>3, <1>4 DEF Job

\* The record of a job is one.
LEMMA JobTyped ==
  ASSUME Shape, NEW j \in Jobs
  PROVE  Job(j) \in JobRecords
BY DEF Shape, Job, Jobs

\* The record of a query is one.
LEMMA QueryTyped ==
  ASSUME Shape, NEW q \in Queries
  PROVE  /\ query[q] \in QueryRecords
         /\ query[q].at \in QueryStages
         /\ query[q].accounts \in Seq(Accounts)
         /\ query[q].types \in Seq(KnownTypes)
         /\ query[q].scanned \in Nat
         /\ query[q].settled \subseteq Jobs
<1>1. query[q] \in QueryRecords
  BY DEF Shape
<1>2. <<>> \in Seq(Accounts) /\ Batches \subseteq Seq(Accounts)
  BY QueryAssumption
<1>3. query[q].accounts \in Batches \cup {<<>>}
  BY <1>1 DEF QueryRecords
<1>4. query[q].accounts \in Seq(Accounts)
  BY <1>2, <1>3
<1> QED
  BY <1>1, <1>4 DEF QueryRecords

\* A job knows its account and its key once the types are resolved.
LEMMA KeyTyped ==
  ASSUME Shape, NEW j \in Jobs, j[2] \in 1..Len(query[j[1]].accounts),
         Len(query[j[1]].types) = Len(query[j[1]].accounts)
  PROVE  /\ KeyOf(j) \in Keys
         /\ Account(j) \in Accounts
         /\ KeyOf(j).type = query[j[1]].types[j[2]]
         /\ KeyOf(j).credential = Account(j).credential
<1> DEFINE r == query[j[1]]
<1>1. j[1] \in Queries
  BY DEF Jobs
<1>2. r.accounts \in Seq(Accounts) /\ r.types \in Seq(KnownTypes)
  BY <1>1, QueryTyped
<1>3. Account(j) \in Accounts /\ r.types[j[2]] \in KnownTypes
  BY <1>2 DEF Account
<1> QED
  BY <1>3 DEF KeyOf, Keys, Credentials

\* A job that has begun has an account, and a key whose type is resolved.
LEMMA BegunTyped ==
  ASSUME Shape, QueriesMean, NEW j \in Jobs, j[2] \in 1..query[j[1]].scanned
  PROVE  /\ query[j[1]].at \in {"scan", "judge", "done"}
         /\ j[2] \in 1..Len(query[j[1]].accounts)
         /\ Len(query[j[1]].types) = Len(query[j[1]].accounts)
         /\ KeyOf(j) \in Keys
         /\ Account(j) \in Accounts
<1> DEFINE r == query[j[1]]
<1>1. r \in QueryRecords /\ j[1] \in Queries
  BY DEF Shape, Jobs
<1>2. QueryMeans(j[1])
  BY <1>1 DEF QueriesMean
<1>3. r.scanned # 0 /\ r.scanned \in Nat /\ r.at \in QueryStages
  BY <1>1 DEF QueryRecords
<1>4. /\ r.at \in {"scan", "judge", "done"}
      /\ Len(r.types) = Len(r.accounts)
      /\ r.scanned <= Len(r.accounts)
  BY <1>2, <1>3 DEF QueryMeans, QueryStages
<1>5. r.accounts \in Seq(Accounts)
  BY <1>1, QueryTyped
<1>6. j[2] \in 1..Len(r.accounts)
  BY <1>3, <1>4, <1>5
<1> QED
  BY <1>4, <1>6, KeyTyped

\* At most one job fetches for a key.
LEMMA OneOwner ==
  ASSUME JobsMean, NEW i \in Jobs, NEW j \in Jobs, i # j,
         Job(i).at \in InFlight, Job(j).at \in InFlight
  PROVE  KeyOf(i) # KeyOf(j)
BY DEF JobsMean, JobMeans, Owns

\* Keys and accounts follow from the queries alone.
LEMMA KeysKept ==
  ASSUME UNCHANGED query
  PROVE  \A j \in Jobs : KeyOf(j)' = KeyOf(j) /\ Account(j)' = Account(j)
BY DEF KeyOf, Account

\* A step of one job leaves what the invariant says of the others alone, when
\* it keeps their calls and does not store under their keys.
LEMMA OthersKeep ==
  ASSUME QueryInv, NEW j \in Jobs, NEW f \in JobRecords, SetJob(j, f),
         UNCHANGED <<now, query>>,
         Job(j).at # "done",
         Job(j).at \in InFlight =>
           f.at \in InFlight \cup {"done"} /\ (f.at = "done" => f.result.by = j),
         \A i \in Jobs : i # j /\ Job(i).at \in InFlight =>
           /\ KeyOf(i) \in DOMAIN fetchCalls'
           /\ fetchCalls'[KeyOf(i)] = fetchCalls[KeyOf(i)],
         \A i \in Jobs : i # j /\ Job(i).at \in InFlight /\ KeyOf(i) \in DOMAIN entries' =>
           /\ KeyOf(i) \in DOMAIN entries
           /\ entries'[KeyOf(i)] = entries[KeyOf(i)]
  PROVE  /\ QueriesMean'
         /\ SettledIsOver'
         /\ \A i \in Jobs : i # j => JobMeans(i)'
<1> USE DEF QueryInv
<1>1. /\ Job(j)' = f
      /\ \A i \in Jobs : i # j => Job(i)' = Job(i)
  BY SetJobSets
<1>2. \A i \in Jobs : KeyOf(i)' = KeyOf(i) /\ Account(i)' = Account(i)
  BY KeysKept
<1>3. QueriesMean'
  <2> SUFFICES ASSUME NEW q \in Queries PROVE QueryMeans(q)'
    BY DEF QueriesMean
  <2> QED
    BY DEF QueriesMean, QueryMeans, KeyOf, NextJob, Account
<1>4. SettledIsOver'
  <2> SUFFICES ASSUME NEW q \in Queries, NEW i \in query[q].settled
               PROVE  Job(i)'.at = "done"
    BY DEF SettledIsOver
  <2>1. i \in Jobs /\ Job(i).at = "done"
    BY QueryTyped DEF SettledIsOver
  <2> QED
    BY <1>1, <2>1
<1>5. ASSUME NEW i \in Jobs, i # j PROVE JobMeans(i)'
  <2>1. JobMeans(i) /\ Job(i)' = Job(i) /\ KeyOf(i)' = KeyOf(i) /\ Account(i)' = Account(i)
    BY <1>1, <1>2, <1>5 DEF JobsMean
  <2>2. Begun(i)'
    BY <2>1 DEF Begun, JobMeans
  <2>3. Owns(i)'
    BY <1>5, <2>1 DEF Owns, JobMeans
  <2>4. Waits(i)'
    <3> SUFFICES ASSUME Job(i).at = "wait" PROVE Waits(i)'
      BY <2>1 DEF Waits
    <3>1. PICK owner \in Jobs \ query[i[1]].settled :
            /\ Job(i).owner = owner
            /\ Job(owner).at \in InFlight \cup {"done"}
            /\ KeyOf(owner) = KeyOf(i)
            /\ Job(owner).at = "done" => Job(owner).result.by = owner
      BY <2>1 DEF JobMeans, Waits
    <3>2. KeyOf(owner)' = KeyOf(owner)
      BY <1>2
    <3>3. CASE owner = j
      BY <1>1, <2>1, <3>1, <3>2, <3>3 DEF Waits
    <3>4. CASE owner # j
      BY <1>1, <2>1, <3>1, <3>2, <3>4 DEF Waits
    <3> QED
      BY <3>3, <3>4
  <2>5. HasResult(i)'
    BY <2>1 DEF HasResult, JobMeans, IsOf
  <2>6. FilesRightly(i)'
    <3>1. CASE Job(i).at \in InFlight
      <4> DEFINE k == KeyOf(i)
      <4>1. k \in DOMAIN entries' => k \in DOMAIN entries /\ entries'[k] = entries[k]
        BY <1>5, <3>1
      <4>2. FilesRightly(i)
        BY <2>1 DEF JobMeans
      <4> QED
        BY <2>1, <4>1, <4>2 DEF FilesRightly, EntryOf, IsOf, LiveAt, Live
    <3>2. CASE Job(i).at \notin InFlight
      BY <2>1, <3>2 DEF FilesRightly, InFlight
    <3> QED
      BY <3>1, <3>2
  <2> QED
    BY <2>2, <2>3, <2>4, <2>5, <2>6 DEF JobMeans
<1> QED
  BY <1>3, <1>4, <1>5

\* Storing under a key leaves of the other keys only what was there, and what
\* it leaves under its own is the new entry.
LEMMA StoredEffect ==
  ASSUME NEW e, IsContent(e, Keys, Results, Int), NEW max, NEW k \in Keys,
         NEW v \in Results, NEW ttl \in Int, NEW t \in Int,
         NEW r \in Stored(e, max, k, v, ttl, t)
  PROVE  /\ IsContent(r, Keys, Results, Int)
         /\ \A i \in DOMAIN r : i # k => i \in DOMAIN e /\ r[i] = e[i]
         /\ k \in DOMAIN r => r[k] = [value |-> v, expiresAt |-> t + ttl]
<1> DEFINE new == [value |-> v, expiresAt |-> t + ttl]
<1>1. CASE ttl <= 0
  BY <1>1 DEF Stored, Without, Restrict, IsContent
<1>2. CASE ~(ttl <= 0)
  <2>1. PICK m \in MadeRoom(Fresh(e, t), max, k) : r = Put(m, k, new)
    BY <1>2 DEF Stored
  <2>2. DOMAIN m \subseteq DOMAIN e /\ \A i \in DOMAIN m : m[i] = e[i]
    BY DEF MadeRoom, Fresh, Without, Restrict
  <2>3. new \in Entry(Results, Int)
    BY DEF Entry
  <2>4. DOMAIN r = DOMAIN m \cup {k} /\ r = [i \in DOMAIN m \cup {k} |-> IF i = k THEN new ELSE m[i]]
    BY <2>1 DEF Put
  <2>5. \A i \in DOMAIN r : r[i] \in Entry(Results, Int)
    BY <2>2, <2>3, <2>4 DEF IsContent
  <2> QED
    BY <2>2, <2>4, <2>5 DEF IsContent
<1> QED
  BY <1>1, <1>2

\* Sweeping removes at most the key.
LEMMA SweptEffect ==
  ASSUME NEW e, IsContent(e, Keys, Results, Int), NEW k, NEW x
  PROVE  /\ DOMAIN Swept(e, k, x) \subseteq DOMAIN e
         /\ Swept(e, k, x) = [i \in DOMAIN Swept(e, k, x) |-> e[i]]
         /\ k \in DOMAIN e /\ e[k].expiresAt = x.expiresAt => k \notin DOMAIN Swept(e, k, x)
BY DEF Swept, Without, Restrict, IsContent

\* Entries that only disappear keep what the invariant says of them.
LEMMA FewerEntries ==
  ASSUME Shape, EntriesMean, now' \in Int, now <= now', cacheTTL \in Int,
         cacheTTL' = cacheTTL,
         DOMAIN entries' \subseteq DOMAIN entries,
         entries' = [k \in DOMAIN entries' |-> entries[k]]
  PROVE  EntriesMean' /\ IsContent(entries', Keys, Results, Int)
<1>1. IsContent(entries', Keys, Results, Int)
  BY DEF Shape, IsContent
<1>2. ASSUME NEW k \in DOMAIN entries' PROVE EntryMeans(k)'
  <2>1. EntryMeans(k) /\ k \in DOMAIN entries /\ entries'[k] = entries[k]
    BY <1>2 DEF EntriesMean
  <2>2. entries[k].expiresAt \in Int /\ now \in Int
    BY <2>1 DEF Shape, IsContent, Entry
  <2> QED
    BY <2>1, <2>2 DEF EntryMeans, IsOf
<1> QED
  BY <1>1, <1>2 DEF EntriesMean

\* The configuration is none of the queries' business: they change no more of
\* it than the entries, which ConfigInv does not speak of.
LEMMA ConfigKept ==
  ASSUME ConfigInv, UNCHANGED <<state, applyError, runtimeConfigMu, applier, cacheTTL>>
  PROVE  ConfigInv'
BY DEF ConfigInv, ConfigTypeOK, MutexOwned, CacheFollows, StagesMean, StageMeans

\* The steps of a job between owning a call and leaving it: the job alone
\* changes, and the cache under its own key at most.
LEMMA OwnerStepKeeps ==
  ASSUME QueryInv, NEW j \in Jobs, NEW f \in JobRecords, SetJob(j, f),
         UNCHANGED <<now, query, manual, fetchCalls,
                     state, applyError, runtimeConfigMu, applier, cacheTTL>>,
         Job(j).at \in InFlight, f.at \in InFlight,
         f.at \in Returned =>
           IsOf(f.result, KeyOf(j)) /\ f.result.id = Account(j).id /\ f.result.by = j,
         IsContent(entries', Keys, Results, Int),
         EntriesMean',
         \A k \in DOMAIN entries' :
           k # KeyOf(j) => k \in DOMAIN entries /\ entries'[k] = entries[k],
         FilesRightly(j)'
  PROVE  QueryInv'
<1> USE DEF QueryInv
<1>1. /\ job' \in [Queries -> [Indices -> JobRecords]]
      /\ Job(j)' = f
      /\ \A i \in Jobs : i # j => Job(i)' = Job(i)
  BY SetJobSets
<1>2. \A i \in Jobs : KeyOf(i)' = KeyOf(i) /\ Account(i)' = Account(i)
  BY KeysKept
<1>3. QueriesMean' /\ SettledIsOver' /\ \A i \in Jobs : i # j => JobMeans(i)'
  <2>1. \A i \in Jobs : i # j /\ Job(i).at \in InFlight => KeyOf(i) # KeyOf(j)
    BY OneOwner
  <2>2. \A i \in Jobs : Job(i).at \in InFlight => KeyOf(i) \in DOMAIN fetchCalls
    BY DEF JobsMean, JobMeans, Owns
  <2>3. Job(j).at # "done" /\ f.at # "done"
    BY DEF InFlight
  <2> QED
    BY <2>1, <2>2, <2>3, OthersKeep
<1>4. JobMeans(j)'
  <2>1. JobMeans(j)
    BY DEF JobsMean
  <2>2. f.at \notin {"none", "wait", "done"} /\ Job(j).at # "none"
    BY DEF InFlight
  <2>3. Begun(j)'
    BY <1>1, <2>1, <2>2 DEF JobMeans, Begun
  <2>4. Owns(j)'
    BY <1>1, <1>2, <2>1 DEF JobMeans, Owns
  <2>5. Waits(j)'
    BY <1>1, <2>2 DEF Waits
  <2>6. HasResult(j)'
    BY <1>1, <1>2, <2>2 DEF HasResult, IsOf
  <2> QED
    BY <2>3, <2>4, <2>5, <2>6 DEF JobMeans
<1>5. CallsAreOwned'
  <2> SUFFICES ASSUME NEW k \in DOMAIN fetchCalls, NEW i \in Jobs, fetchCalls[k] = i
               PROVE  Job(i)'.at \in InFlight /\ KeyOf(i)' = k
    BY DEF CallsAreOwned
  <2>1. Job(i).at \in InFlight /\ KeyOf(i) = k
    BY DEF CallsAreOwned
  <2> QED
    BY <1>1, <1>2, <2>1
<1>6. Shape'
  BY <1>1 DEF Shape
<1>7. JobsMean'
  BY <1>3, <1>4 DEF JobsMean
<1> QED
  BY <1>3, <1>5, <1>6, <1>7, ConfigKept

-------------------------------------------------------------------------------
(* The steps of a job *)

\* A step that leaves cache and clock alone keeps what the invariant says of
\* the entries.
LEMMA EntriesStay ==
  ASSUME Shape, EntriesMean, UNCHANGED <<now, entries, cacheTTL>>
  PROVE  EntriesMean' /\ IsContent(entries', Keys, Results, Int)
BY DEF Shape, EntriesMean, EntryMeans, IsOf

\* A job in flight has an account, a key, and after the fetch a result.
LEMMA OwnerKnows ==
  ASSUME QueryInv, NEW j \in Jobs, Job(j).at \in InFlight
  PROVE  /\ Job(j) \in JobRecords
         /\ j[1] \in Queries
         /\ KeyOf(j) \in Keys /\ Account(j) \in Accounts
         /\ KeyOf(j) \in DOMAIN fetchCalls /\ fetchCalls[KeyOf(j)] = j
         /\ HasResult(j)
         /\ FilesRightly(j)
<1>1. JobMeans(j) /\ Job(j).at # "none"
  BY DEF QueryInv, JobsMean, InFlight
<1>2. j[2] \in 1..query[j[1]].scanned
  BY <1>1 DEF JobMeans, Begun
<1> QED
  BY <1>1, <1>2, BegunTyped, JobTyped DEF QueryInv, JobMeans, Owns, Jobs

\* Each step of the owner of a fetch keeps the invariant: it takes a slot, ...
LEMMA AcquireKeeps ==
  ASSUME QueryInv, NEW j \in Jobs, AcquireSlot(j)
  PROVE  QueryInv'
<1> DEFINE f == [Job(j) EXCEPT !.at = "fetch"]
<1> USE DEF AcquireSlot, JobMoves, Unchanged, configVars, QueryInv
<1>1. Job(j).at \in InFlight /\ Job(j).at = "slot"
  BY DEF InFlight
<1>2. f \in JobRecords /\ f.at = "fetch"
  BY <1>1, OwnerKnows DEF JobRecords, JobStages, InFlight
<1>3. EntriesMean' /\ IsContent(entries', Keys, Results, Int)
  BY EntriesStay
<1>4. FilesRightly(j)'
  BY <1>2, SetJobSets DEF FilesRightly
<1> QED
  BY <1>1, <1>2, <1>3, <1>4, OwnerStepKeeps DEF InFlight, Returned

\* ... has the result of its own account, of the kind "other" after a panic,
LEMMA FetchReturnsKeeps ==
  ASSUME QueryInv, NEW j \in Jobs, FetchReturns(j)
  PROVE  QueryInv'
<1> USE DEF FetchReturns, Unchanged, configVars, QueryInv
<1>1. PICK kind \in Kinds : SetJob(j, [Job(j) EXCEPT !.at = "policy", !.result = Fetched(j, kind)])
  BY QueryAssumption DEF Outcomes, Kinds
<1> DEFINE f == [Job(j) EXCEPT !.at = "policy", !.result = Fetched(j, kind)]
<1>2. Job(j).at \in InFlight
  BY DEF InFlight
<1>3. Job(j) \in JobRecords /\ KeyOf(j) \in Keys /\ Account(j) \in Accounts
  BY <1>2, OwnerKnows
<1>4. Fetched(j, kind) \in Results
  BY <1>3 DEF Fetched, Results, KeyOf, Keys, Ids
<1>5. IsOf(Fetched(j, kind), KeyOf(j))
  BY <1>4 DEF IsOf, Fetched, KeyOf
<1>6. f \in JobRecords /\ f.at = "policy" /\ f.result = Fetched(j, kind)
  BY <1>3, <1>4 DEF JobRecords, JobStages, InFlight
<1>7. EntriesMean' /\ IsContent(entries', Keys, Results, Int)
  BY EntriesStay
<1>8. FilesRightly(j)'
  BY <1>1, <1>6, SetJobSets DEF FilesRightly
<1>9. f.result.id = Account(j).id /\ f.result.by = j
  BY <1>6 DEF Fetched
<1> QED
  BY <1>1, <1>2, <1>5, <1>6, <1>7, <1>8, <1>9, OwnerStepKeeps DEF InFlight

\* ... decides by the policy and the result what to do with it,
LEMMA ReadPolicyKeeps ==
  ASSUME QueryInv, NEW j \in Jobs, ReadPolicy(j)
  PROVE  QueryInv'
<1> USE DEF ReadPolicy, Unchanged, configVars, QueryInv
<1> DEFINE next == CASE state.ttl = 0 -> "finish"
                     [] state.ttl # 0 /\ Job(j).result.kind = "ok" -> "store"
                     [] OTHER -> "probe"
           f == [Job(j) EXCEPT !.at = next, !.policy = state.ttl]
<1>1. Job(j).at \in Returned /\ Job(j).at \in InFlight
  BY DEF InFlight, Returned
<1>2. Job(j) \in JobRecords /\ HasResult(j)
  BY <1>1, OwnerKnows
<1>3. state.ttl \in Nat
  BY ConfigAssumption DEF ConfigInv, ConfigTypeOK, Configs
<1>4. next \in {"finish", "store", "probe"}
  OBVIOUS
<1>5. /\ f \in JobRecords /\ f.at = next
      /\ f.policy = state.ttl /\ f.result = Job(j).result
  BY <1>2, <1>3, <1>4 DEF JobRecords, JobStages, InFlight
<1>6. /\ next = "store" => Job(j).result.kind = "ok"
      /\ next = "probe" => Job(j).result.kind # "ok"
  OBVIOUS
<1>7. EntriesMean' /\ IsContent(entries', Keys, Results, Int)
  BY EntriesStay
<1>8. SetJob(j, f)
  OBVIOUS
<1> HIDE DEF next
<1>9. FilesRightly(j)'
  <2>1. Job(j)' = f
    BY <1>5, <1>8, SetJobSets
  <2> QED
    BY <2>1, <1>3, <1>4, <1>5, <1>6 DEF FilesRightly
<1> HIDE DEF f
<1> QED
  BY <1>1, <1>2, <1>4, <1>5, <1>7, <1>8, <1>9, OwnerStepKeeps DEF InFlight, HasResult

\* ... and before it files a failure, looks at what the cache has.
LEMMA ProbeKeeps ==
  ASSUME QueryInv, NEW j \in Jobs, Probe(j)
  PROVE  QueryInv'
<1> USE DEF Probe, Unchanged, configVars, QueryInv
<1> DEFINE k == KeyOf(j)
           f == IF k \in DOMAIN entries
                THEN [Job(j) EXCEPT !.at = "judge", !.seen = entries[k]]
                ELSE [Job(j) EXCEPT !.at = "negative"]
<1>1. Job(j).at \in Returned /\ Job(j).at \in InFlight
  BY DEF InFlight, Returned
<1>2. Job(j) \in JobRecords /\ HasResult(j) /\ FilesRightly(j)
  BY <1>1, OwnerKnows
<1>3. Job(j).result.kind # "ok" /\ Job(j).policy \in Nat
  BY <1>2 DEF FilesRightly
<1>4. k \in DOMAIN entries => EntryOf(entries[k], k)
  BY DEF EntriesMean, EntryMeans, EntryOf, Shape, IsContent
<1>5. /\ f \in JobRecords /\ f.at \in {"judge", "negative"}
      /\ f.policy = Job(j).policy /\ f.result = Job(j).result
      /\ f.at = "judge" => k \in DOMAIN entries /\ f.seen = entries[k]
      /\ f.at = "negative" => k \notin DOMAIN entries
  BY <1>2, <1>4 DEF JobRecords, JobStages, InFlight, MaybeEntry, EntryOf
<1>6. EntriesMean' /\ IsContent(entries', Keys, Results, Int)
  BY EntriesStay
<1>7. SetJob(j, f)
  OBVIOUS
<1> HIDE DEF f
<1>8. FilesRightly(j)'
  <2>1. Job(j)' = f /\ KeyOf(j)' = KeyOf(j)
    BY <1>5, <1>7, SetJobSets, KeysKept
  <2> QED
    BY <2>1, <1>3, <1>4, <1>5 DEF FilesRightly, EntryOf, LiveAt, IsOf
<1> QED
  BY <1>1, <1>2, <1>5, <1>6, <1>7, <1>8, OwnerStepKeeps DEF InFlight, HasResult

\* Judging sweeps an entry that has expired: what remains under the key is no
\* live success, unless the job gives up its failure.
LEMMA JudgeKeeps ==
  ASSUME QueryInv, NEW j \in Jobs, Judge(j)
  PROVE  QueryInv'
<1> USE DEF Judge, JobMoves, QueryInv
<1> DEFINE k == KeyOf(j)
           seen == Job(j).seen
           spared == Live(seen, now) /\ seen.value.kind = "ok"
           f == [Job(j) EXCEPT !.at = IF spared THEN "finish" ELSE "negative"]
<1>1. Job(j).at \in Returned /\ Job(j).at \in InFlight
  BY DEF InFlight, Returned
<1>2. Job(j) \in JobRecords /\ HasResult(j) /\ FilesRightly(j)
  BY <1>1, OwnerKnows
<1>3. /\ Job(j).result.kind # "ok" /\ Job(j).policy \in Nat
      /\ k \in DOMAIN entries => entries[k] = seen
  BY <1>2 DEF FilesRightly
<1>4. /\ f \in JobRecords /\ f.at \in {"finish", "negative"}
      /\ f.policy = Job(j).policy /\ f.result = Job(j).result
      /\ f.at = "negative" => ~spared
  BY <1>2 DEF JobRecords, JobStages, InFlight
<1>5. IsContent(entries, Keys, Results, Int)
  BY DEF Shape
<1>6. DOMAIN entries' \subseteq DOMAIN entries /\ entries' = [i \in DOMAIN entries' |-> entries[i]]
  <2>1. CASE Live(seen, now)
    BY <2>1, <1>5 DEF IsContent
  <2>2. CASE ~Live(seen, now)
    BY <2>2, <1>5, SweptEffect
  <2> QED
    BY <2>1, <2>2
<1>7. now \in Int /\ cacheTTL \in Int
  BY ConfigAssumption DEF Shape, ConfigInv, ConfigTypeOK
<1>8. EntriesMean' /\ IsContent(entries', Keys, Results, Int)
  BY <1>6, <1>7, FewerEntries
<1>9. ~spared => ~(LiveAt(entries', k, now) /\ entries'[k].value.kind = "ok")
  <2>1. CASE Live(seen, now)
    BY <2>1, <1>3 DEF LiveAt
  <2>2. CASE ~Live(seen, now)
    <3>1. k \notin DOMAIN entries'
      BY <2>2, <1>3, <1>5, <1>6, SweptEffect
    <3> QED
      BY <3>1 DEF LiveAt
  <2> QED
    BY <2>1, <2>2
<1>10. SetJob(j, f)
  OBVIOUS
<1> HIDE DEF f, spared
<1>11. FilesRightly(j)'
  <2>1. Job(j)' = f /\ KeyOf(j)' = k /\ now' = now
    BY <1>4, <1>10, SetJobSets, KeysKept
  <2>2. f.at = "negative" => ~(LiveAt(entries', k, now) /\ entries'[k].value.kind = "ok")
    BY <1>4, <1>9
  <2> QED
    BY <2>1, <2>2, <1>3, <1>4 DEF FilesRightly, LiveAt, Live
<1> QED
  BY <1>1, <1>2, <1>4, <1>6, <1>8, <1>10, <1>11, OwnerStepKeeps DEF InFlight, HasResult

\* Filing a result, a success for no longer than the cache's own duration.
LEMMA FilesKeep ==
  ASSUME QueryInv, NEW j \in Jobs, Job(j).at \in {"store", "negative"},
         NEW ttl \in Int, Job(j).result.kind = "ok" => ttl <= cacheTTL,
         JobMoves(j, Job(j).at, "finish"), Files(j, ttl)
  PROVE  QueryInv'
<1> USE DEF JobMoves, Files, QueryInv
<1> DEFINE k == KeyOf(j)
           f == [Job(j) EXCEPT !.at = "finish"]
<1>1. Job(j).at \in Returned /\ Job(j).at \in InFlight
  BY DEF InFlight, Returned
<1>2. Job(j) \in JobRecords /\ HasResult(j) /\ k \in Keys
  BY <1>1, OwnerKnows
<1>3. IsOf(Job(j).result, k)
  BY <1>1, <1>2 DEF HasResult
<1>4. now \in Int /\ cacheTTL \in Int /\ IsContent(entries, Keys, Results, Int)
  BY ConfigAssumption DEF Shape, ConfigInv, ConfigTypeOK
<1>5. /\ IsContent(entries', Keys, Results, Int)
      /\ \A i \in DOMAIN entries' : i # k => i \in DOMAIN entries /\ entries'[i] = entries[i]
      /\ k \in DOMAIN entries' => entries'[k] = [value |-> Job(j).result, expiresAt |-> now + ttl]
  BY <1>2, <1>3, <1>4, StoredEffect DEF IsOf
<1>6. EntriesMean'
  <2> SUFFICES ASSUME NEW i \in DOMAIN entries' PROVE EntryMeans(i)'
    BY DEF EntriesMean
  <2>1. CASE i = k
    BY <2>1, <1>3, <1>4, <1>5 DEF EntryMeans, IsOf
  <2>2. CASE i # k
    BY <2>2, <1>4, <1>5 DEF EntriesMean, EntryMeans, IsOf
  <2> QED
    BY <2>1, <2>2
<1>7. f \in JobRecords /\ f.at = "finish" /\ f.result = Job(j).result
  BY <1>2 DEF JobRecords, JobStages, InFlight
<1>8. SetJob(j, f)
  OBVIOUS
<1>9. FilesRightly(j)'
  BY <1>7, <1>8, SetJobSets DEF FilesRightly
<1> HIDE DEF f
<1> QED
  BY <1>1, <1>2, <1>5, <1>6, <1>7, <1>8, <1>9, OwnerStepKeeps DEF InFlight, HasResult

\* A success is filed for the cache's own duration.
LEMMA StoreSuccessKeeps ==
  ASSUME QueryInv, NEW j \in Jobs, StoreSuccess(j)
  PROVE  QueryInv'
<1>1. cacheTTL \in Int
  BY ConfigAssumption DEF QueryInv, ConfigInv, ConfigTypeOK
<1>2. Job(j).at = "store"
  BY DEF StoreSuccess, JobMoves
<1> QED
  BY <1>1, <1>2, FilesKeep DEF StoreSuccess

\* The duration of a failure is a number.
LEMMA FailureLasts ==
  ASSUME QueryInv, NEW j \in Jobs, Job(j).at = "negative"
  PROVE  /\ Least(FailureTTL[Job(j).result.kind], Job(j).policy) \in Int
         /\ Job(j).result.kind # "ok"
<1>1. /\ Job(j).at \in InFlight /\ HasResult(j) /\ FilesRightly(j)
  BY OwnerKnows DEF InFlight
<1>2. Job(j).result \in Results /\ Job(j).policy \in Nat /\ Job(j).result.kind # "ok"
  BY <1>1 DEF HasResult, IsOf, FilesRightly, Returned, InFlight
<1>3. Job(j).result.kind \in DOMAIN FailureTTL
  BY <1>2 DEF Results, Kinds
<1> QED
  BY <1>2, <1>3, QueryAssumption DEF Least

\* A failure is filed only where Judge or Probe found no live success.
LEMMA StoreFailureKeeps ==
  ASSUME QueryInv, NEW j \in Jobs, StoreFailure(j)
  PROVE  QueryInv'
<1>1. Job(j).at = "negative"
  BY DEF StoreFailure, JobMoves
<1> QED
  BY <1>1, FailureLasts, FilesKeep DEF StoreFailure

\* A job that has its account's answer.
LEMMA AnsweredRightly ==
  ASSUME NEW r \in Results, NEW j \in Jobs, Account(j) \in Accounts
  PROVE  LET f == Answered(Decorated(r, Account(j)))
         IN  /\ f \in JobRecords
             /\ f.at = "done"
             /\ f.result = [r EXCEPT !.id = Account(j).id]
             /\ f.result \in Results
<1>1. [r EXCEPT !.id = Account(j).id] \in Results
  BY DEF Results, Ids
<1> QED
  BY <1>1 DEF Answered, Decorated, Unstarted, JobRecords, JobStages, MaybeEntry

\* A job joins the fetch registered for its key, or registers its own.
LEMMA JoinKeeps ==
  ASSUME QueryInv, NEW j \in Jobs, Join(j)
  PROVE  QueryInv'
<1> USE DEF Join, JobMoves, Unchanged, configVars, QueryInv
<1> DEFINE k == KeyOf(j)
<1>1. /\ Job(j) \in JobRecords /\ Job(j).at = "join" /\ JobMeans(j)
      /\ j[1] \in Queries
  BY JobTyped DEF JobsMean, Jobs
<1>2. j[2] \in 1..query[j[1]].scanned
  BY <1>1 DEF JobMeans, Begun
<1>3. k \in Keys
  BY <1>2, BegunTyped
<1>4. EntriesMean' /\ IsContent(entries', Keys, Results, Int) /\ ConfigInv'
  BY EntriesStay, ConfigKept
<1>5. /\ \A i \in Jobs : KeyOf(i)' = KeyOf(i) /\ Account(i)' = Account(i)
      /\ \A i \in Jobs : Job(i).at \in InFlight => i # j /\ Owns(i)
  BY <1>1, KeysKept DEF JobsMean, JobMeans, InFlight
<1>6. CASE k \in DOMAIN fetchCalls
  <2>1. PICK owner \in Jobs : /\ fetchCalls[k] = owner
                              /\ Job(owner).at \in InFlight /\ KeyOf(owner) = k
    BY <1>6 DEF Shape, CallsAreOwned
  <2> DEFINE f == [Job(j) EXCEPT !.at = "wait", !.owner = owner]
  <2>2. f \in JobRecords /\ f.at = "wait" /\ f.owner = owner
    BY <1>1 DEF JobRecords, JobStages
  <2>3. SetJob(j, f) /\ fetchCalls' = fetchCalls
    BY <1>6, <2>1
  <2> HIDE DEF f
  <2>4. /\ job' \in [Queries -> [Indices -> JobRecords]] /\ Job(j)' = f
        /\ \A i \in Jobs : i # j => Job(i)' = Job(i)
    BY <2>2, <2>3, SetJobSets
  <2>5. QueriesMean' /\ SettledIsOver' /\ \A i \in Jobs : i # j => JobMeans(i)'
    <3>1. \A i \in Jobs : Job(i).at \in InFlight => KeyOf(i) \in DOMAIN fetchCalls
      BY <1>5 DEF Owns
    <3>2. Job(j).at \notin InFlight /\ Job(j).at # "done"
      BY <1>1 DEF InFlight
    <3> QED
      BY <2>2, <2>3, <3>1, <3>2, OthersKeep
  <2>6. owner \notin query[j[1]].settled
    BY <1>1, <2>1 DEF SettledIsOver, InFlight
  <2>7. JobMeans(j)'
    <3>1. Begun(j)' /\ Owns(j)' /\ HasResult(j)' /\ FilesRightly(j)'
      BY <1>2, <2>2, <2>4 DEF Begun, Owns, HasResult, FilesRightly, InFlight, Returned
    <3>2. owner # j /\ Job(owner)' = Job(owner) /\ KeyOf(owner)' = KeyOf(j)'
      BY <1>5, <2>1, <2>4
    <3>3. Waits(j)'
      BY <2>1, <2>2, <2>4, <2>6, <3>2 DEF Waits, InFlight
    <3> QED
      BY <3>1, <3>3 DEF JobMeans
  <2>8. CallsAreOwned'
    BY <1>5, <2>3, <2>4 DEF CallsAreOwned
  <2> QED
    BY <1>4, <2>3, <2>4, <2>5, <2>7, <2>8 DEF JobsMean, Shape
<1>7. CASE k \notin DOMAIN fetchCalls
  <2> DEFINE f == [Job(j) EXCEPT !.at = "slot"]
  <2>2. f \in JobRecords /\ f.at = "slot"
    BY <1>1 DEF JobRecords, JobStages, InFlight
  <2>3. /\ SetJob(j, f) /\ fetchCalls' = Put(fetchCalls, k, j)
    BY <1>7
  <2> HIDE DEF f
  <2>4. /\ job' \in [Queries -> [Indices -> JobRecords]] /\ Job(j)' = f
        /\ \A i \in Jobs : i # j => Job(i)' = Job(i)
    BY <2>2, <2>3, SetJobSets
  <2>5. /\ DOMAIN fetchCalls' = DOMAIN fetchCalls \cup {k}
        /\ fetchCalls'[k] = j
        /\ \A c \in DOMAIN fetchCalls : fetchCalls'[c] = fetchCalls[c]
        /\ fetchCalls' \in [DOMAIN fetchCalls' -> Jobs]
    BY <1>7, <2>3 DEF Put, Shape
  <2>6. QueriesMean' /\ SettledIsOver' /\ \A i \in Jobs : i # j => JobMeans(i)'
    <3>1. \A i \in Jobs : Job(i).at \in InFlight => KeyOf(i) \in DOMAIN fetchCalls
      BY <1>5 DEF Owns
    <3>2. Job(j).at \notin InFlight /\ Job(j).at # "done"
      BY <1>1 DEF InFlight
    <3> QED
      BY <2>2, <2>3, <2>5, <3>1, <3>2, OthersKeep
  <2>7. JobMeans(j)'
    BY <1>2, <1>5, <2>2, <2>4, <2>5
    DEF JobMeans, Begun, Owns, Waits, HasResult, FilesRightly, InFlight, Returned
  <2>8. CallsAreOwned'
    <3> SUFFICES ASSUME NEW c \in DOMAIN fetchCalls', NEW i \in Jobs, fetchCalls'[c] = i
                 PROVE  Job(i)'.at \in InFlight /\ KeyOf(i)' = c
      BY DEF CallsAreOwned
    <3>1. CASE c = k
      BY <1>5, <2>2, <2>4, <2>5, <3>1 DEF InFlight
    <3>2. CASE c # k
      BY <1>5, <2>4, <2>5, <3>2 DEF CallsAreOwned
    <3> QED
      BY <3>1, <3>2
  <2> QED
    BY <1>3, <1>4, <2>4, <2>5, <2>6, <2>7, <2>8 DEF JobsMean, Shape
<1> QED
  BY <1>6, <1>7

\* Who waited takes the result of a fetch that is over, under its own id.
LEMMA WakeKeeps ==
  ASSUME QueryInv, NEW j \in Jobs, Wake(j)
  PROVE  QueryInv'
<1> USE DEF Wake, Unchanged, configVars, QueryInv
<1>1. Job(j).at = "wait" /\ JobMeans(j)
  BY DEF JobsMean
<1>2. PICK owner \in Jobs \ query[j[1]].settled :
        /\ Job(j).owner = owner
        /\ KeyOf(owner) = KeyOf(j)
        /\ Job(owner).at = "done" => Job(owner).result.by = owner
  BY <1>1 DEF JobMeans, Waits
<1> DEFINE r == Job(owner).result
           f == Answered(Decorated(r, Account(j)))
<1>3. /\ SetJob(j, f) /\ fetchCalls' = fetchCalls
      /\ Job(owner).at = "done" /\ r.by = owner
  BY <1>2
<1>4. j[2] \in 1..query[j[1]].scanned
  BY <1>1 DEF JobMeans, Begun
<1>5. Account(j) \in Accounts
  BY <1>4, BegunTyped
<1>6. IsOf(r, KeyOf(j))
  BY <1>2, <1>3 DEF JobsMean, JobMeans, HasResult
<1>7. /\ f \in JobRecords /\ f.at = "done"
      /\ f.result \in Results /\ f.result = [r EXCEPT !.id = Account(j).id]
  BY <1>5, <1>6, AnsweredRightly DEF IsOf
<1>8. /\ f.result.id = Account(j).id /\ f.result.by = owner /\ IsOf(f.result, KeyOf(j))
  BY <1>6, <1>7, <1>3 DEF IsOf, Results
<1>9. EntriesMean' /\ IsContent(entries', Keys, Results, Int) /\ ConfigInv'
  BY EntriesStay, ConfigKept
<1>10. /\ \A i \in Jobs : KeyOf(i)' = KeyOf(i) /\ Account(i)' = Account(i)
       /\ Job(j).at \notin InFlight /\ Job(j).at # "done"
       /\ \A i \in Jobs : Job(i).at \in InFlight => KeyOf(i) \in DOMAIN fetchCalls
  BY <1>1, KeysKept DEF InFlight, JobsMean, JobMeans, Owns
<1> HIDE DEF f, r
<1>11. /\ job' \in [Queries -> [Indices -> JobRecords]] /\ Job(j)' = f
       /\ \A i \in Jobs : i # j => Job(i)' = Job(i)
  BY <1>3, <1>7, SetJobSets
<1>12. QueriesMean' /\ SettledIsOver' /\ \A i \in Jobs : i # j => JobMeans(i)'
  BY <1>3, <1>7, <1>10, OthersKeep
<1>13. JobMeans(j)'
  <2>1. Begun(j)' /\ Owns(j)' /\ Waits(j)' /\ FilesRightly(j)'
    BY <1>4, <1>7, <1>11 DEF Begun, Owns, Waits, FilesRightly, InFlight
  <2>2. HasResult(j)'
    BY <1>7, <1>8, <1>10, <1>11 DEF HasResult, Returned, InFlight, IsOf
  <2> QED
    BY <2>1, <2>2 DEF JobMeans
<1>14. CallsAreOwned'
  BY <1>3, <1>10, <1>11 DEF CallsAreOwned
<1> QED
  BY <1>3, <1>9, <1>11, <1>12, <1>13, <1>14 DEF JobsMean, Shape

\* The owner of a fetch leaves: its call goes, and no other.
LEMMA FinishKeeps ==
  ASSUME QueryInv, NEW j \in Jobs, Finish(j)
  PROVE  QueryInv'
<1> USE DEF Finish, Unchanged, configVars, QueryInv
<1> DEFINE k == KeyOf(j)
           r == Job(j).result
           f == Answered(Decorated(r, Account(j)))
<1>1. Job(j).at \in Returned /\ Job(j).at \in InFlight /\ Job(j).at # "done"
  BY DEF InFlight, Returned
<1>2. /\ HasResult(j) /\ JobMeans(j) /\ Account(j) \in Accounts /\ j[1] \in Queries
      /\ k \in DOMAIN fetchCalls /\ fetchCalls[k] = j
  BY <1>1, OwnerKnows DEF JobsMean
<1>3. IsOf(r, k) /\ r.by = j
  BY <1>1, <1>2 DEF HasResult
<1>4. /\ f \in JobRecords /\ f.at = "done"
      /\ f.result \in Results /\ f.result = [r EXCEPT !.id = Account(j).id]
  BY <1>2, <1>3, AnsweredRightly DEF IsOf
<1>5. f.result.id = Account(j).id /\ f.result.by = j /\ IsOf(f.result, k)
  BY <1>3, <1>4 DEF IsOf, Results
<1>6. SetJob(j, f)
  OBVIOUS
<1>7. /\ DOMAIN fetchCalls' = DOMAIN fetchCalls \ {k}
      /\ \A c \in DOMAIN fetchCalls' : fetchCalls'[c] = fetchCalls[c]
      /\ fetchCalls' \in [DOMAIN fetchCalls' -> Jobs]
  BY DEF Without, Restrict, Shape
<1>8. EntriesMean' /\ IsContent(entries', Keys, Results, Int) /\ ConfigInv'
  BY EntriesStay, ConfigKept
<1>9. \A i \in Jobs : KeyOf(i)' = KeyOf(i) /\ Account(i)' = Account(i)
  BY KeysKept
<1>10. j \notin query[j[1]].settled
  BY <1>1, <1>2 DEF SettledIsOver
<1>11. \A i \in Jobs : i # j /\ Job(i).at \in InFlight =>
         KeyOf(i) \in DOMAIN fetchCalls' /\ fetchCalls'[KeyOf(i)] = fetchCalls[KeyOf(i)]
  BY <1>1, <1>7, OneOwner DEF JobsMean, JobMeans, Owns
<1>12. \A i \in Jobs : i # j /\ Job(i).at \in InFlight /\ KeyOf(i) \in DOMAIN entries' =>
         KeyOf(i) \in DOMAIN entries /\ entries'[KeyOf(i)] = entries[KeyOf(i)]
  OBVIOUS
<1> HIDE DEF f, r
<1>13. /\ job' \in [Queries -> [Indices -> JobRecords]] /\ Job(j)' = f
       /\ \A i \in Jobs : i # j => Job(i)' = Job(i)
  BY <1>4, <1>6, SetJobSets
<1>14. QueriesMean' /\ SettledIsOver' /\ \A i \in Jobs : i # j => JobMeans(i)'
  BY <1>1, <1>4, <1>5, <1>6, <1>11, <1>12, OthersKeep
<1>15. JobMeans(j)'
  <2>1. Begun(j)' /\ Owns(j)' /\ Waits(j)' /\ FilesRightly(j)'
    BY <1>1, <1>2, <1>4, <1>13
    DEF JobMeans, Begun, Owns, Waits, FilesRightly, InFlight
  <2>2. HasResult(j)'
    BY <1>4, <1>5, <1>9, <1>10, <1>13 DEF HasResult, Returned, InFlight, IsOf
  <2> QED
    BY <2>1, <2>2 DEF JobMeans
<1>16. CallsAreOwned'
  BY <1>2, <1>7, <1>9, <1>13 DEF CallsAreOwned
<1> QED
  BY <1>7, <1>8, <1>13, <1>14, <1>15, <1>16 DEF JobsMean, Shape

-------------------------------------------------------------------------------
(* The steps of a query *)

\* The account that a scan has reached is a job that has not begun.
LEMMA NextIsNew ==
  ASSUME QueryInv, NEW q \in Queries, query[q].at \in {"scan", "judge"},
         query[q].scanned < Len(query[q].accounts)
  PROVE  /\ NextJob(q) \in Jobs
         /\ NextJob(q)[1] = q /\ NextJob(q)[2] = query[q].scanned + 1
         /\ Job(NextJob(q)).at = "none"
         /\ KeyOf(NextJob(q)) \in Keys
         /\ Account(NextJob(q)) \in Accounts
<1> USE DEF QueryInv
<1> DEFINE n == query[q].scanned + 1
<1>1. /\ query[q].accounts \in Seq(Accounts) /\ query[q].scanned \in Nat
      /\ query[q].accounts \in Batches \cup {<<>>}
      /\ QueryMeans(q)
  BY QueryTyped DEF QueryRecords, QueriesMean
<1>2. n \in 1..Len(query[q].accounts)
  BY <1>1
<1>3. query[q].accounts \in Batches /\ n \in DOMAIN query[q].accounts
  <2>1. Len(query[q].accounts) # 0 /\ n \in DOMAIN query[q].accounts
    BY <1>1, <1>2
  <2>2. query[q].accounts # <<>>
    BY <2>1
  <2> QED
    BY <1>1, <2>1, <2>2
<1>4. PICK j \in Jobs : j = NextJob(q) /\ j[1] = q /\ j[2] = n
  <2>1. n \in Indices
    BY <1>3 DEF Indices
  <2>2. <<q, n>> \in Jobs
    BY <2>1 DEF Jobs
  <2> QED
    BY <2>2 DEF NextJob
<1>5. Job(j).at = "none"
  BY <1>1, <1>4 DEF JobsMean, JobMeans, Begun
<1>6. Len(query[q].types) = Len(query[q].accounts)
  BY <1>1 DEF QueryMeans
<1> QED
  BY <1>2, <1>4, <1>5, <1>6, KeyTyped

\* A step of a query leaves its jobs alone once they have begun: by then its
\* accounts and their types are fixed.
LEMMA QueryStepKeeps ==
  ASSUME QueryInv, NEW q \in Queries, NEW r \in QueryRecords,
         query' = [query EXCEPT ![q] = r],
         r.scanned >= query[q].scanned,
         \/ query[q].scanned = 0
         \/ /\ r.accounts = query[q].accounts
            /\ r.types = query[q].types
            /\ r.settled = query[q].settled,
         \A i \in r.settled : Job(i).at = "done",
         QueryMeans(q)',
         job' \in [Queries -> [Indices -> JobRecords]],
         \A i \in Jobs : Job(i)' # Job(i) => Job(i).at = "none" /\ JobMeans(i)',
         IsContent(entries', Keys, Results, Int),
         EntriesMean',
         \A k \in DOMAIN entries' : k \in DOMAIN entries /\ entries'[k] = entries[k],
         UNCHANGED <<now, fetchCalls, manual,
                     state, applyError, runtimeConfigMu, applier, cacheTTL>>
  PROVE  QueryInv'
<1> USE DEF QueryInv
<1>1. Shape'
  BY DEF Shape
<1>2. query[q].scanned \in Nat /\ r.scanned \in Nat
  BY QueryTyped DEF QueryRecords
<1>3. ASSUME NEW i \in Jobs, Job(i).at # "none"
      PROVE  /\ KeyOf(i)' = KeyOf(i) /\ Account(i)' = Account(i)
             /\ query'[i[1]].settled = query[i[1]].settled
             /\ i[2] \in 1..query'[i[1]].scanned
             /\ Job(i)' = Job(i)
  <2>1. i[2] \in 1..query[i[1]].scanned /\ i[1] \in Queries
    BY <1>3 DEF JobsMean, JobMeans, Begun, Jobs
  <2>2. CASE i[1] = q
    <3>1. /\ query'[i[1]] = r /\ r.accounts = query[q].accounts
          /\ r.types = query[q].types /\ r.settled = query[q].settled
      BY <1>2, <2>1, <2>2 DEF Shape
    <3> QED
      BY <1>2, <1>3, <2>1, <2>2, <3>1 DEF KeyOf, Account
  <2>3. CASE i[1] # q
    <3>1. query'[i[1]] = query[i[1]]
      BY <2>1, <2>3
    <3> QED
      BY <1>3, <2>1, <3>1 DEF KeyOf, Account
  <2> QED
    BY <2>2, <2>3
<1>4. ASSUME NEW i \in Jobs PROVE JobMeans(i)'
  <2>1. CASE Job(i)' # Job(i)
    BY <2>1
  <2>2. CASE Job(i)' = Job(i) /\ Job(i).at = "none"
    BY <2>2 DEF JobMeans, Begun, Owns, Waits, HasResult, FilesRightly, InFlight, Returned
  <2>3. CASE Job(i)' = Job(i) /\ Job(i).at # "none"
    <3>1. /\ KeyOf(i)' = KeyOf(i) /\ Account(i)' = Account(i)
          /\ query'[i[1]].settled = query[i[1]].settled
          /\ i[2] \in 1..query'[i[1]].scanned
          /\ JobMeans(i)
      BY <1>3, <2>3 DEF JobsMean
    <3>2. Begun(i)' /\ Owns(i)'
      BY <2>3, <3>1 DEF JobMeans, Begun, Owns
    <3>3. Waits(i)'
      <4> SUFFICES ASSUME Job(i).at = "wait" PROVE Waits(i)'
        BY <2>3 DEF Waits
      <4>1. PICK owner \in Jobs \ query[i[1]].settled :
              /\ Job(i).owner = owner
              /\ Job(owner).at \in InFlight \cup {"done"}
              /\ KeyOf(owner) = KeyOf(i)
              /\ Job(owner).at = "done" => Job(owner).result.by = owner
        BY <3>1 DEF JobMeans, Waits
      <4>2. Job(owner)' = Job(owner) /\ KeyOf(owner)' = KeyOf(owner)
        BY <1>3, <4>1 DEF InFlight
      <4> QED
        BY <2>3, <3>1, <4>1, <4>2 DEF Waits
    <3>4. HasResult(i)'
      BY <2>3, <3>1 DEF JobMeans, HasResult, IsOf
    <3>5. FilesRightly(i)'
      BY <2>3, <3>1 DEF JobMeans, FilesRightly, EntryOf, IsOf, LiveAt, Live
    <3> QED
      BY <3>2, <3>3, <3>4, <3>5 DEF JobMeans
  <2> QED
    BY <2>1, <2>2, <2>3
<1>5. CallsAreOwned'
  BY <1>3 DEF CallsAreOwned, InFlight
<1>6. SettledIsOver'
  <2> SUFFICES ASSUME NEW p \in Queries, NEW i \in query'[p].settled
               PROVE  Job(i)'.at = "done"
    BY DEF SettledIsOver
  <2>1. Job(i).at = "done" /\ i \in Jobs
    BY QueryTyped DEF SettledIsOver, QueryRecords
  <2> QED
    BY <1>3, <2>1
<1>7. QueriesMean'
  <2> SUFFICES ASSUME NEW p \in Queries, p # q PROVE QueryMeans(p)'
    BY DEF QueriesMean
  <2>1. query'[p] = query[p] /\ QueryMeans(p)
    BY DEF QueriesMean
  <2>2. KeyOf(NextJob(p))' = KeyOf(NextJob(p))
    BY <2>1 DEF KeyOf, Account, NextJob
  <2> QED
    BY <2>1, <2>2 DEF QueryMeans, EntryOf, IsOf
<1> QED
  BY <1>1, <1>4, <1>5, <1>6, <1>7, ConfigKept DEF JobsMean

\* A step that only moves a query.
LEMMA QueryMovesKeeps ==
  ASSUME QueryInv, NEW q \in Queries, NEW r \in QueryRecords,
         query' = [query EXCEPT ![q] = r],
         r.scanned = query[q].scanned,
         \/ query[q].scanned = 0
         \/ /\ r.accounts = query[q].accounts
            /\ r.types = query[q].types
            /\ r.settled = query[q].settled,
         \A i \in r.settled : Job(i).at = "done",
         QueryMeans(q)',
         UNCHANGED <<now, job, fetchCalls, manual, configVars>>
  PROVE  QueryInv'
<1> USE DEF QueryInv, configVars
<1>1. EntriesMean' /\ IsContent(entries', Keys, Results, Int)
  BY EntriesStay
<1>2. job' \in [Queries -> [Indices -> JobRecords]] /\ \A i \in Jobs : Job(i)' = Job(i)
  BY DEF Shape, Job
<1>3. r.scanned >= query[q].scanned
  BY QueryTyped
<1>4. \A k \in DOMAIN entries' : k \in DOMAIN entries /\ entries'[k] = entries[k]
  OBVIOUS
<1>5. \A i \in Jobs : Job(i)' # Job(i) => Job(i).at = "none" /\ JobMeans(i)'
  BY <1>2
<1> QED
  BY <1>1, <1>2, <1>3, <1>4, <1>5, QueryStepKeeps

\* A query that arrives has no job yet, so it may change its accounts.
LEMMA ArriveKeeps ==
  ASSUME QueryInv, NEW q \in Queries, Arrive(q)
  PROVE  QueryInv'
<1> USE DEF Arrive, QueryInv
<1>1. PICK b \in Batches, refresh \in BOOLEAN :
        query' = [query EXCEPT ![q].at = "resolve", ![q].accounts = b,
                               ![q].refresh = refresh,
                               ![q].settled = {j \in Jobs : refresh /\ Job(j).at = "done"}]
  OBVIOUS
<1> DEFINE over == {j \in Jobs : refresh /\ Job(j).at = "done"}
           r == [query[q] EXCEPT !.at = "resolve", !.accounts = b, !.refresh = refresh,
                                 !.settled = over]
<1>2. /\ query[q] \in QueryRecords /\ QueryMeans(q) /\ query[q].at = "new"
      /\ query[q].types \in Seq(KnownTypes)
  BY QueryTyped DEF QueriesMean
<1>3. query[q].scanned = 0 /\ Len(query[q].types) = 0
  BY <1>2 DEF QueryMeans
<1>4. b \in Seq(Accounts)
  BY QueryAssumption
<1>5. r \in QueryRecords /\ query' = [query EXCEPT ![q] = r]
  BY <1>1, <1>2 DEF QueryRecords, QueryStages, Shape
<1>6. query'[q] = r
  BY <1>5 DEF Shape
<1>7. /\ r.at = "resolve" /\ r.accounts = b /\ r.refresh = refresh /\ r.scanned = 0
      /\ r.types = query[q].types /\ r.settled = over
  BY <1>2, <1>3 DEF QueryRecords
<1> HIDE DEF r
<1>8. QueryMeans(q)'
  <2>1. Len(b) \in Nat /\ (~refresh => over = {})
    BY <1>4
  <2>2. /\ query'[q].types = query[q].types /\ query'[q].accounts = b
        /\ query'[q].at = "resolve" /\ query'[q].scanned = 0
        /\ query'[q].refresh = refresh /\ query'[q].settled = over
    BY <1>6, <1>7
  <2>3. 0 <= Len(b)
    BY <2>1
  <2> HIDE DEF over, Arrive, QueryInv
  <2> QED
    BY <2>1, <2>2, <2>3, <1>3 DEF QueryMeans
<1> QED
  BY <1>3, <1>5, <1>7, <1>8, QueryMovesKeeps

\* Only types of published mappings, which are known ones, are appended.
LEMMA ResolveKeeps ==
  ASSUME QueryInv, NEW q \in Queries, Resolve(q)
  PROVE  QueryInv'
<1> USE DEF Resolve, QueryInv
<1> DEFINE a == query[q].accounts[Len(query[q].types) + 1]
           mapped == a.mappingKey \in DOMAIN state.mappings
           type == state.mappings[a.mappingKey]
<1>1. /\ query[q] \in QueryRecords /\ QueryMeans(q) /\ query[q].at = "resolve"
      /\ query[q].types \in Seq(KnownTypes) /\ query[q].accounts \in Seq(Accounts)
      /\ Len(query[q].types) < Len(query[q].accounts)
  BY QueryTyped DEF QueriesMean
<1>2. query[q].scanned = 0 /\ \A i \in query[q].settled : Job(i).at = "done"
  BY <1>1 DEF QueryMeans, SettledIsOver
<1>3. mapped => type \in KnownTypes
  BY DEF ConfigInv, ConfigTypeOK, Configs, Mappings
<1>4. CASE mapped /\ query' = [query EXCEPT ![q].types = Append(@, type)]
  <2> DEFINE r == [query[q] EXCEPT !.types = Append(query[q].types, type)]
  <2>1. Append(query[q].types, type) \in Seq(KnownTypes)
    BY <1>1, <1>3, <1>4
  <2>2. Len(Append(query[q].types, type)) <= Len(query[q].accounts)
    BY <1>1, <1>3, <1>4
  <2>3. r \in QueryRecords /\ query' = [query EXCEPT ![q] = r]
    BY <1>1, <1>4, <2>1 DEF QueryRecords, Shape
  <2>4. query'[q] = r
    BY <2>3 DEF Shape
  <2>5. /\ r.at = "resolve" /\ r.accounts = query[q].accounts /\ r.refresh = query[q].refresh
        /\ r.scanned = 0 /\ r.types = Append(query[q].types, type)
        /\ r.settled = query[q].settled
    BY <1>1, <1>2 DEF QueryRecords
  <2> HIDE DEF r
  <2>6. QueryMeans(q)'
    BY <1>1, <2>2, <2>4, <2>5 DEF QueryMeans
  <2> QED
    BY <1>2, <2>3, <2>5, <2>6, QueryMovesKeeps
<1>5. CASE query' = [query EXCEPT ![q].at = "conflict"]
  <2> DEFINE r == [query[q] EXCEPT !.at = "conflict"]
  <2>1. r \in QueryRecords /\ query' = [query EXCEPT ![q] = r]
    BY <1>1, <1>5 DEF QueryRecords, QueryStages, Shape
  <2>2. query'[q] = r
    BY <2>1 DEF Shape
  <2>3. /\ r.at = "conflict" /\ r.accounts = query[q].accounts /\ r.refresh = query[q].refresh
        /\ r.scanned = 0 /\ r.types = query[q].types /\ r.settled = query[q].settled
    BY <1>1, <1>2 DEF QueryRecords
  <2> HIDE DEF r
  <2>4. QueryMeans(q)'
    BY <1>1, <2>2, <2>3 DEF QueryMeans
  <2> QED
    BY <1>2, <2>1, <2>3, <2>4, QueryMovesKeeps
<1> QED
  BY <1>4, <1>5

\* The scan begins with a type for every account.
LEMMA ResolvedKeeps ==
  ASSUME QueryInv, NEW q \in Queries, Resolved(q)
  PROVE  QueryInv'
<1> USE DEF Resolved, QueryInv
<1> DEFINE r == [query[q] EXCEPT !.at = "scan"]
<1>1. /\ query[q] \in QueryRecords /\ QueryMeans(q) /\ query[q].at = "resolve"
      /\ \A i \in query[q].settled : Job(i).at = "done"
  BY QueryTyped DEF QueriesMean, SettledIsOver
<1>2. r \in QueryRecords /\ query' = [query EXCEPT ![q] = r]
  BY <1>1 DEF QueryRecords, QueryStages, Shape
<1>3. query'[q] = r
  BY <1>2 DEF Shape
<1>4. /\ r.at = "scan" /\ r.accounts = query[q].accounts /\ r.refresh = query[q].refresh
      /\ r.scanned = query[q].scanned /\ r.types = query[q].types
      /\ r.settled = query[q].settled
  BY <1>1 DEF QueryRecords
<1> HIDE DEF r
<1>5. QueryMeans(q)'
  BY <1>1, <1>3, <1>4 DEF QueryMeans
<1> QED
  BY <1>1, <1>2, <1>4, <1>5, QueryMovesKeeps

\* The reply changes nothing but the stage of the query.
LEMMA ReplyKeeps ==
  ASSUME QueryInv, NEW q \in Queries, Reply(q)
  PROVE  QueryInv'
<1> USE DEF Reply, QueryInv
<1> DEFINE r == [query[q] EXCEPT !.at = "done"]
<1>1. /\ query[q] \in QueryRecords /\ QueryMeans(q) /\ query[q].at = "scan"
      /\ \A i \in query[q].settled : Job(i).at = "done"
  BY QueryTyped DEF QueriesMean, SettledIsOver
<1>2. r \in QueryRecords /\ query' = [query EXCEPT ![q] = r]
  BY <1>1 DEF QueryRecords, QueryStages, Shape
<1>3. query'[q] = r
  BY <1>2 DEF Shape
<1>4. /\ r.at = "done" /\ r.accounts = query[q].accounts /\ r.refresh = query[q].refresh
      /\ r.scanned = query[q].scanned /\ r.types = query[q].types
      /\ r.settled = query[q].settled
  BY <1>1 DEF QueryRecords
<1> HIDE DEF r
<1>5. QueryMeans(q)'
  BY <1>1, <1>3, <1>4 DEF QueryMeans
<1> QED
  BY <1>1, <1>2, <1>4, <1>5, QueryMovesKeeps

\* A step that gives the account that the scan has reached a job, which is
\* fresh or has the answer already.
LEMMA ScannedKeeps ==
  ASSUME QueryInv, NEW q \in Queries, query[q].at \in {"scan", "judge"},
         query[q].scanned < Len(query[q].accounts),
         query' = [query EXCEPT ![q].at = "scan", ![q].scanned = @ + 1, ![q].seen = None],
         NEW f \in JobRecords, SetJob(NextJob(q), f),
         f.at \in {"join", "done"},
         f.at = "done" =>
           /\ IsOf(f.result, KeyOf(NextJob(q)))
           /\ f.result.id = Account(NextJob(q)).id
           /\ query[q].settled = {},
         IsContent(entries', Keys, Results, Int),
         EntriesMean',
         \A k \in DOMAIN entries' : k \in DOMAIN entries /\ entries'[k] = entries[k],
         UNCHANGED <<now, fetchCalls, manual,
                     state, applyError, runtimeConfigMu, applier, cacheTTL>>
  PROVE  QueryInv'
<1> USE DEF QueryInv
<1>1. PICK j \in Jobs :
        /\ j = NextJob(q) /\ j[1] = q /\ j[2] = query[q].scanned + 1
        /\ Job(j).at = "none"
  BY NextIsNew
<1>2. /\ query[q] \in QueryRecords /\ QueryMeans(q)
      /\ query[q].scanned \in Nat /\ query[q].accounts \in Seq(Accounts)
      /\ \A i \in query[q].settled : Job(i).at = "done"
  BY QueryTyped DEF QueriesMean, SettledIsOver
<1> DEFINE r == [query[q] EXCEPT !.at = "scan", !.scanned = query[q].scanned + 1,
                                 !.seen = None]
<1>3. r \in QueryRecords /\ query' = [query EXCEPT ![q] = r]
  <2>1. query[q].scanned + 1 \in Nat
    BY <1>2
  <2>2. r \in QueryRecords
    BY <1>2, <2>1 DEF QueryRecords, QueryStages, MaybeEntry
  <2>3. query' = [query EXCEPT ![q] = r]
    BY DEF Shape
  <2> QED
    BY <2>2, <2>3
<1>4. query'[q] = r
  BY <1>3 DEF Shape
<1>5. /\ r.at = "scan" /\ r.accounts = query[q].accounts /\ r.refresh = query[q].refresh
      /\ r.scanned = query[q].scanned + 1 /\ r.types = query[q].types
      /\ r.settled = query[q].settled
  BY <1>2 DEF QueryRecords
<1> HIDE DEF r
<1>6. r.scanned <= Len(r.accounts) /\ r.scanned >= query[q].scanned
  BY <1>2, <1>5
<1>7. QueryMeans(q)'
  BY <1>2, <1>4, <1>5, <1>6 DEF QueryMeans
<1>8. /\ job' \in [Queries -> [Indices -> JobRecords]] /\ Job(j)' = f
      /\ \A i \in Jobs : i # j => Job(i)' = Job(i)
  BY <1>1, SetJobSets
<1>9. KeyOf(j)' = KeyOf(j) /\ Account(j)' = Account(j)
  BY <1>1, <1>4, <1>5 DEF KeyOf, Account
<1>10. JobMeans(j)'
  <2>1. Begun(j)'
    BY <1>1, <1>2, <1>4, <1>5 DEF Begun
  <2>2. Owns(j)' /\ Waits(j)' /\ FilesRightly(j)'
    BY <1>8 DEF Owns, Waits, FilesRightly, InFlight
  <2>3. HasResult(j)'
    BY <1>1, <1>4, <1>5, <1>8, <1>9 DEF HasResult, Returned, InFlight, IsOf
  <2> QED
    BY <2>1, <2>2, <2>3 DEF JobMeans
<1>11. \A i \in Jobs : Job(i)' # Job(i) => Job(i).at = "none" /\ JobMeans(i)'
  BY <1>1, <1>8, <1>10
<1> HIDE DEF QueryInv
<1> QED
  BY <1>2, <1>3, <1>5, <1>6, <1>7, <1>8, <1>11, QueryStepKeeps

\* A job that a scan starts.
LEMMA FreshJob ==
  LET f == [Unstarted EXCEPT !.at = "join"]
  IN  f \in JobRecords /\ f.at = "join"
BY DEF Unstarted, JobRecords, JobStages, MaybeEntry

\* The scan starts a job, or remembers the entry it read for the key.
LEMMA ScanKeeps ==
  ASSUME QueryInv, NEW q \in Queries, Scan(q)
  PROVE  QueryInv'
<1> DEFINE k == KeyOf(NextJob(q))
           hasEntry == ~query[q].refresh /\ k \in DOMAIN entries
<1>1. /\ query[q].at = "scan" /\ query[q].scanned < Len(query[q].accounts)
      /\ UNCHANGED <<now, fetchCalls, manual, configVars>>
      /\ \/ hasEntry /\ query' = [query EXCEPT ![q].at = "judge", ![q].seen = entries[k]]
                     /\ UNCHANGED job
         \/ ~hasEntry /\ Spawn(q)
  BY DEF Scan, Scanning
<1>2. EntriesMean' /\ IsContent(entries', Keys, Results, Int)
  BY <1>1, EntriesStay DEF QueryInv, configVars
<1>3. CASE ~hasEntry
  <2>1. /\ Spawn(q)
        /\ UNCHANGED <<state, applyError, runtimeConfigMu, applier, cacheTTL, entries>>
    BY <1>1, <1>3 DEF configVars
  <2> DEFINE f == [Unstarted EXCEPT !.at = "join"]
  <2>2. f \in JobRecords /\ f.at = "join" /\ f.at # "done"
    BY FreshJob
  <2> HIDE DEF f
  <2>3. SetJob(NextJob(q), f)
    BY <2>1 DEF Spawn, f
  <2> QED
    BY <1>1, <1>2, <2>1, <2>2, <2>3, ScannedKeeps DEF Spawn
<1>4. CASE hasEntry
  <2> DEFINE r == [query[q] EXCEPT !.at = "judge", !.seen = entries[k]]
  <2>1. /\ query[q] \in QueryRecords /\ QueryMeans(q)
        /\ \A i \in query[q].settled : Job(i).at = "done"
    BY QueryTyped DEF QueryInv, QueriesMean, SettledIsOver
  <2>2. EntryOf(entries[k], k)
    BY <1>4 DEF QueryInv, EntriesMean, EntryMeans, EntryOf, Shape, IsContent
  <2>3. r \in QueryRecords
    BY <2>1, <2>2 DEF QueryRecords, QueryStages, MaybeEntry, EntryOf
  <2>4. query' = [query EXCEPT ![q] = r] /\ query'[q] = r
    BY <1>1, <1>4 DEF QueryInv, Shape
  <2>5. /\ r.at = "judge" /\ r.accounts = query[q].accounts /\ r.refresh = query[q].refresh
        /\ r.scanned = query[q].scanned /\ r.types = query[q].types
        /\ r.settled = query[q].settled /\ r.seen = entries[k]
    BY <2>1 DEF QueryRecords
  <2> HIDE DEF r
  <2>6. KeyOf(NextJob(q))' = k
    BY <2>4, <2>5 DEF KeyOf, NextJob, Account
  <2>7. QueryMeans(q)'
    BY <1>1, <1>4, <2>1, <2>2, <2>4, <2>5, <2>6 DEF QueryMeans, EntryOf, IsOf
  <2> QED
    BY <1>1, <1>4, <2>1, <2>3, <2>4, <2>5, <2>7, QueryMovesKeeps
<1> QED
  BY <1>3, <1>4

\* What was read is an answer while it is live; otherwise a job starts.
LEMMA ScanJudgeKeeps ==
  ASSUME QueryInv, NEW q \in Queries, ScanJudge(q)
  PROVE  QueryInv'
<1> DEFINE j == NextJob(q)
           seen == query[q].seen
<1>1. /\ query[q].at = "judge" /\ query[q].scanned < Len(query[q].accounts)
      /\ UNCHANGED <<now, fetchCalls, manual,
                     state, applyError, runtimeConfigMu, applier, cacheTTL>>
  BY DEF ScanJudge, Scanning
<1>2. /\ QueryMeans(q) /\ j \in Jobs /\ Account(j) \in Accounts
      /\ IsContent(entries, Keys, Results, Int) /\ Shape /\ EntriesMean
      /\ now \in Int /\ cacheTTL \in Int
  BY <1>1, NextIsNew, ConfigAssumption DEF QueryInv, QueriesMean, Shape, ConfigInv, ConfigTypeOK
<1>3. EntryOf(seen, KeyOf(j)) /\ query[q].settled = {}
  BY <1>1, <1>2 DEF QueryMeans
<1>4. CASE Live(seen, now)
  <2> DEFINE f == Answered(Decorated(seen.value, Account(j)))
  <2>1. /\ query' = [query EXCEPT ![q].at = "scan", ![q].scanned = @ + 1, ![q].seen = None]
        /\ SetJob(j, f) /\ UNCHANGED entries
    BY <1>4 DEF ScanJudge
  <2>2. seen.value \in Results /\ IsOf(seen.value, KeyOf(j))
    BY <1>3 DEF EntryOf, IsOf
  <2>3. /\ f \in JobRecords /\ f.at = "done" /\ f.result \in Results
        /\ f.result = [seen.value EXCEPT !.id = Account(j).id]
    BY <1>2, <2>2, AnsweredRightly
  <2>4. IsOf(f.result, KeyOf(j)) /\ f.result.id = Account(j).id
    BY <2>2, <2>3 DEF IsOf, Results
  <2>5. EntriesMean' /\ IsContent(entries', Keys, Results, Int)
    BY <1>1, <1>2, <2>1, EntriesStay
  <2> HIDE DEF f
  <2> QED
    BY <1>1, <1>3, <2>1, <2>3, <2>4, <2>5, ScannedKeeps
<1>5. CASE ~Live(seen, now)
  <2>1. entries' = Swept(entries, KeyOf(j), seen) /\ Spawn(q)
    BY <1>5 DEF ScanJudge
  <2>2. /\ DOMAIN entries' \subseteq DOMAIN entries
        /\ entries' = [i \in DOMAIN entries' |-> entries[i]]
    BY <1>2, <2>1, SweptEffect
  <2>3. EntriesMean' /\ IsContent(entries', Keys, Results, Int)
    BY <1>1, <1>2, <2>2, FewerEntries
  <2> QED
    <3> DEFINE f == [Unstarted EXCEPT !.at = "join"]
    <3>1. f \in JobRecords /\ f.at = "join" /\ f.at # "done"
      BY FreshJob
    <3>2. SetJob(NextJob(q), f)
      BY <2>1 DEF Spawn
    <3> HIDE DEF f
    <3> QED
      BY <1>1, <2>1, <2>2, <2>3, <3>1, <3>2, ScannedKeeps DEF Spawn
<1> QED
  BY <1>4, <1>5

-------------------------------------------------------------------------------
(* The other steps *)

\* The configuration calls keep the entries or drop them all.
LEMMA ConfigEffect ==
  ASSUME ConfigNext
  PROVE  entries' = NoEntries \/ UNCHANGED <<entries, cacheTTL>>
BY DEF ConfigNext, Call, Lock, Held, Compare, ResetCache, Publish, Settle, Answer, Unlock

\* Steps that are no query's and no job's: they let time pass, or empty the
\* cache.
LEMMA OutsideKeeps ==
  ASSUME QueryInv, UNCHANGED <<query, job, fetchCalls>>,
         now' \in 0..MaxTime, now <= now',
         manual' \in [Manuals -> {"new", "slot", "fetch", "done"}],
         ConfigInv',
         entries' = NoEntries \/ UNCHANGED <<entries, cacheTTL>>
  PROVE  QueryInv'
<1> USE DEF QueryInv
<1>1. /\ \A i \in Jobs : KeyOf(i)' = KeyOf(i) /\ Account(i)' = Account(i)
      /\ \A i \in Jobs : Job(i)' = Job(i)
  BY KeysKept DEF Job
<1>2. now \in Int /\ now' \in Int /\ IsContent(entries, Keys, Results, Int)
  BY DEF Shape
<1>3. IsContent(entries', Keys, Results, Int) /\ EntriesMean'
  <2>1. CASE entries' = NoEntries
    <3>1. DOMAIN entries' = {} /\ entries' \in [{} -> Entry(Results, Int)]
      BY <2>1 DEF NoEntries
    <3> QED
      BY <3>1 DEF IsContent, EntriesMean
  <2>2. CASE UNCHANGED <<entries, cacheTTL>>
    <3>1. cacheTTL \in Int /\ entries' = [k \in DOMAIN entries' |-> entries[k]]
      BY <1>2, <2>2, ConfigAssumption DEF ConfigInv, ConfigTypeOK, IsContent
    <3> QED
      BY <1>2, <2>2, <3>1, FewerEntries
  <2> QED
    BY <2>1, <2>2
<1>4. Shape'
  BY <1>3 DEF Shape
<1>5. QueriesMean'
  <2> SUFFICES ASSUME NEW p \in Queries PROVE QueryMeans(p)'
    BY DEF QueriesMean
  <2>1. KeyOf(NextJob(p))' = KeyOf(NextJob(p)) /\ QueryMeans(p)
    BY DEF KeyOf, Account, NextJob, QueriesMean
  <2> QED
    BY <2>1 DEF QueryMeans, EntryOf, IsOf
<1>6. SettledIsOver'
  <2> SUFFICES ASSUME NEW p \in Queries, NEW i \in query[p].settled
               PROVE  Job(i)'.at = "done"
    BY DEF SettledIsOver
  <2> QED
    BY <1>1, QueryTyped DEF SettledIsOver
<1>7. CallsAreOwned'
  BY <1>1 DEF CallsAreOwned
<1>8. ASSUME NEW i \in Jobs PROVE JobMeans(i)'
  <2>1. JobMeans(i) /\ Job(i)' = Job(i) /\ KeyOf(i)' = KeyOf(i) /\ Account(i)' = Account(i)
    BY <1>1 DEF JobsMean
  <2>2. Begun(i)' /\ Owns(i)' /\ HasResult(i)'
    BY <2>1 DEF JobMeans, Begun, Owns, HasResult, IsOf
  <2>3. Waits(i)'
    <3> SUFFICES ASSUME Job(i).at = "wait" PROVE Waits(i)'
      BY <2>1 DEF Waits
    <3>1. PICK owner \in Jobs \ query[i[1]].settled :
            /\ Job(i).owner = owner
            /\ Job(owner).at \in InFlight \cup {"done"}
            /\ KeyOf(owner) = KeyOf(i)
            /\ Job(owner).at = "done" => Job(owner).result.by = owner
      BY <2>1 DEF JobMeans, Waits
    <3> QED
      BY <1>1, <2>1, <3>1 DEF Waits
  <2>4. FilesRightly(i)'
    <3>1. CASE entries' = NoEntries
      BY <2>1, <3>1 DEF JobMeans, FilesRightly, EntryOf, IsOf, LiveAt, NoEntries
    <3>2. CASE UNCHANGED entries
      <4> DEFINE k == KeyOf(i)
      <4>1. LiveAt(entries', k, now') => LiveAt(entries, k, now)
        BY <1>2, <3>2 DEF LiveAt, Live, IsContent, Entry
      <4>2. FilesRightly(i)
        BY <2>1 DEF JobMeans
      <4> QED
        BY <2>1, <3>2, <4>1, <4>2 DEF FilesRightly, EntryOf, IsOf
    <3> QED
      BY <3>1, <3>2
  <2> QED
    BY <2>2, <2>3, <2>4 DEF JobMeans
<1> QED
  BY <1>4, <1>3, <1>5, <1>6, <1>7, <1>8 DEF JobsMean

\* Time only takes entries' lives.
LEMMA TickKeeps ==
  ASSUME QueryInv, Tick
  PROVE  QueryInv'
<1>1. now' \in 0..MaxTime /\ now <= now'
  BY QueryAssumption DEF QueryInv, Shape, Tick
<1>2. ConfigInv'
  BY ConfigKept DEF QueryInv, Tick, configVars
<1> QED
  BY <1>1, <1>2, OutsideKeeps DEF Tick, configVars, QueryInv, Shape

\* Manual queries touch neither jobs nor cache.
LEMMA ManualKeeps ==
  ASSUME QueryInv, NEW m \in Manuals, ManualArrive(m) \/ ManualAcquire(m) \/ ManualReturns(m)
  PROVE  QueryInv'
<1>1. /\ UNCHANGED <<now, query, job, fetchCalls, configVars>>
      /\ \E s \in {"slot", "fetch", "done"} : manual' = [manual EXCEPT ![m] = s]
  BY DEF ManualArrive, ManualAcquire, ManualReturns, ManualMoves
<1>2. manual' \in [Manuals -> {"new", "slot", "fetch", "done"}]
  BY <1>1 DEF QueryInv, Shape
<1>3. ConfigInv'
  BY <1>1, ConfigKept DEF QueryInv, configVars
<1>4. now' \in 0..MaxTime /\ now <= now'
  BY <1>1, QueryAssumption DEF QueryInv, Shape
<1> QED
  BY <1>1, <1>2, <1>3, <1>4, OutsideKeeps DEF configVars

\* Neither do configuration calls, except that they empty the cache.
LEMMA ConfigStepKeeps ==
  ASSUME QueryInv, ConfigStep
  PROVE  QueryInv'
<1>1. ConfigInv'
  BY StepKeeps DEF QueryInv, ConfigStep
<1>2. now' \in 0..MaxTime /\ now <= now'
  BY QueryAssumption DEF QueryInv, Shape, ConfigStep, queryVars
<1> QED
  BY <1>1, <1>2, ConfigEffect, OutsideKeeps DEF ConfigStep, queryVars, QueryInv, Shape

\* Nothing has begun in the initial state.
LEMMA QueryInvInit == Init => QueryInv
<1> SUFFICES ASSUME Init PROVE QueryInv
  OBVIOUS
<1> USE DEF Init, QueryInit
<1>1. ConfigInv
  BY InvInit
<1>2. Unasked \in QueryRecords
  <2>1. <<>> \in Seq(KnownTypes)
    OBVIOUS
  <2> QED
    BY <2>1 DEF Unasked, QueryRecords, QueryStages, MaybeEntry
<1>3. Unstarted \in JobRecords
  BY DEF Unstarted, JobRecords, JobStages, MaybeEntry
<1>4. DOMAIN entries = {} /\ IsContent(entries, Keys, Results, Int)
  BY DEF ConfigInit, NoEntries, IsContent
<1>5. Shape
  BY <1>2, <1>3, <1>4, QueryAssumption DEF Shape
<1>6. \A j \in Jobs : Job(j) = Unstarted
  BY DEF Job, Jobs
<1>7. JobsMean
  BY <1>6 DEF JobsMean, JobMeans, Begun, Owns, Waits, HasResult, FilesRightly,
              InFlight, Returned, Unstarted
<1>8. QueriesMean
  BY DEF QueriesMean, QueryMeans, Unasked
<1>9. SettledIsOver /\ CallsAreOwned /\ EntriesMean
  BY <1>4 DEF SettledIsOver, CallsAreOwned, EntriesMean, Unasked
<1> QED
  BY <1>1, <1>5, <1>7, <1>8, <1>9 DEF QueryInv

\* Every step keeps the invariant.
LEMMA QueryInvStep == QueryInv /\ [Next]_vars => QueryInv'
<1> SUFFICES ASSUME QueryInv, [Next]_vars PROVE QueryInv'
  OBVIOUS
<1>1. ASSUME NEW q \in Queries, Arrive(q) \/ QueryStep(q) PROVE QueryInv'
  BY <1>1, ArriveKeeps, ResolveKeeps, ResolvedKeeps, ScanKeeps, ScanJudgeKeeps, ReplyKeeps
  DEF QueryStep
<1>2. ASSUME NEW j \in Jobs, JobStep(j) \/ AcquireSlot(j) PROVE QueryInv'
  BY <1>2, JoinKeeps, WakeKeeps, AcquireKeeps, FetchReturnsKeeps, ReadPolicyKeeps,
     StoreSuccessKeeps, ProbeKeeps, JudgeKeeps, StoreFailureKeeps, FinishKeeps
  DEF JobStep
<1>3. CASE UNCHANGED vars
  <2>1. now' \in 0..MaxTime /\ now <= now'
    BY <1>3 DEF QueryInv, Shape, vars, queryVars
  <2> QED
    BY <1>3, <2>1, ConfigKept, OutsideKeeps DEF QueryInv, Shape, vars, queryVars, configVars
<1> QED
  BY <1>1, <1>2, <1>3, ManualKeeps, ConfigStepKeeps, TickKeeps DEF Next

\* The invariant holds in every reachable state.
THEOREM QueryInvHolds == Spec => []QueryInv
BY QueryInvInit, QueryInvStep, PTL DEF Spec

-------------------------------------------------------------------------------
(* The slots *)

SlotsMean == IsFiniteSet(slots) /\ SlotsAreFetches

\* Steps after which the same jobs and manual queries fetch as before.
LEMMA SlotsStay ==
  ASSUME SlotsMean, UNCHANGED slots,
         \A j \in Jobs : Job(j)'.at = "fetch" <=> Job(j).at = "fetch",
         \A m \in Manuals : manual'[m] = "fetch" <=> manual[m] = "fetch"
  PROVE  SlotsMean'
BY DEF SlotsMean, SlotsAreFetches

\* Taking a free slot, and giving one back.
LEMMA SlotTaken ==
  ASSUME SlotsMean, NEW s, s \notin slots, Cardinality(slots) < MaxSlots,
         slots' = slots \cup {s}
  PROVE  IsFiniteSet(slots') /\ Cardinality(slots') <= MaxSlots
<1>1. IsFiniteSet(slots) /\ Cardinality(slots) \in Nat
  BY FS_CardinalityType DEF SlotsMean
<1>2. IsFiniteSet(slots') /\ Cardinality(slots') = Cardinality(slots) + 1
  BY <1>1, FS_AddElement
<1> QED
  BY <1>1, <1>2, QueryAssumption

\* Giving a slot back leaves no more of them taken than there are.
LEMMA SlotGiven ==
  ASSUME SlotsMean, NEW s, slots' = slots \ {s}
  PROVE  IsFiniteSet(slots') /\ Cardinality(slots') <= MaxSlots
<1>1. IsFiniteSet(slots) /\ Cardinality(slots) \in Nat /\ Cardinality(slots) <= MaxSlots
  BY FS_CardinalityType DEF SlotsMean, SlotsAreFetches
<1>2. IsFiniteSet(slots') /\ Cardinality(slots') <= Cardinality(slots) /\ Cardinality(slots') \in Nat
  BY <1>1, FS_Subset, FS_CardinalityType
<1> QED
  BY <1>1, <1>2, QueryAssumption

\* A step of a job outside its fetch has nothing to do with the slots.
LEMMA JobMovesOutside ==
  ASSUME QueryInv, SlotsMean, NEW j \in Jobs, NEW f, SetJob(j, f),
         Job(j).at # "fetch", f.at # "fetch", UNCHANGED <<slots, manual>>
  PROVE  SlotsMean'
<1>1. Job(j)' = f /\ \A i \in Jobs : i # j => Job(i)' = Job(i)
  BY SetJobSets DEF QueryInv
<1>2. \A i \in Jobs : Job(i)'.at = "fetch" <=> Job(i).at = "fetch"
  BY <1>1
<1> QED
  BY <1>2, SlotsStay

\* A job takes a slot as it begins to fetch, and gives it back with the
\* result: the two sets change together.
LEMMA AcquireSlotSlots ==
  ASSUME QueryInv, SlotsMean, NEW j \in Jobs, AcquireSlot(j)
  PROVE  SlotsMean'
<1> DEFINE f == [Job(j) EXCEPT !.at = "fetch"]
<1>1. Job(j).at = "slot" /\ SetJob(j, f) /\ slots' = slots \cup {j} /\ manual' = manual
  BY DEF AcquireSlot, JobMoves, Unchanged
<1>2. f.at = "fetch"
  BY JobTyped DEF QueryInv, JobRecords
<1>3. Job(j)' = f /\ \A i \in Jobs : i # j => Job(i)' = Job(i)
  BY <1>1, SetJobSets DEF QueryInv
<1> HIDE DEF f
<1>4. j \notin slots
  BY <1>1, QueryAssumption DEF SlotsMean, SlotsAreFetches
<1>5. IsFiniteSet(slots') /\ Cardinality(slots') <= MaxSlots
  BY <1>1, <1>4, SlotTaken DEF AcquireSlot
<1>6. {i \in Jobs : Job(i)'.at = "fetch"} = {i \in Jobs : Job(i).at = "fetch"} \cup {j}
  BY <1>2, <1>3
<1>7. slots' = {i \in Jobs : Job(i)'.at = "fetch"} \cup {m \in Manuals : manual'[m] = "fetch"}
  BY <1>1, <1>6 DEF SlotsMean, SlotsAreFetches
<1> QED
  BY <1>5, <1>7 DEF SlotsMean, SlotsAreFetches

\* The deferred release runs whatever the outcome is.
LEMMA FetchReturnsSlots ==
  ASSUME QueryInv, SlotsMean, NEW j \in Jobs, FetchReturns(j)
  PROVE  SlotsMean'
<1>1. /\ Job(j).at = "fetch" /\ slots' = slots \ {j} /\ manual' = manual
      /\ \E kind : SetJob(j, [Job(j) EXCEPT !.at = "policy", !.result = Fetched(j, kind)])
  BY DEF FetchReturns, Unchanged
<1>2. PICK kind : SetJob(j, [Job(j) EXCEPT !.at = "policy", !.result = Fetched(j, kind)])
  BY <1>1
<1> DEFINE f == [Job(j) EXCEPT !.at = "policy", !.result = Fetched(j, kind)]
<1>3. f.at = "policy"
  BY JobTyped DEF QueryInv, JobRecords
<1>4. Job(j)' = f /\ \A i \in Jobs : i # j => Job(i)' = Job(i)
  BY <1>2, SetJobSets DEF QueryInv
<1> HIDE DEF f
<1>5. IsFiniteSet(slots') /\ Cardinality(slots') <= MaxSlots
  BY <1>1, SlotGiven
<1>6. {i \in Jobs : Job(i)'.at = "fetch"} = {i \in Jobs : Job(i).at = "fetch"} \ {j}
  BY <1>3, <1>4
<1>7. slots' = {i \in Jobs : Job(i)'.at = "fetch"} \cup {m \in Manuals : manual'[m] = "fetch"}
  BY <1>1, <1>6, QueryAssumption DEF SlotsMean, SlotsAreFetches
<1> QED
  BY <1>5, <1>7 DEF SlotsMean, SlotsAreFetches

\* Manual queries take from the same slots, and give back likewise.
LEMMA ManualSlots ==
  ASSUME QueryInv, SlotsMean, NEW m \in Manuals,
         ManualArrive(m) \/ ManualAcquire(m) \/ ManualReturns(m)
  PROVE  SlotsMean'
<1> DEFINE Fetching == {i \in Jobs : Job(i).at = "fetch"}
           Asking == {i \in Manuals : manual[i] = "fetch"}
<1>1. \A i \in Jobs : Job(i)' = Job(i)
  BY DEF ManualArrive, ManualAcquire, ManualReturns, ManualMoves, Job
<1>2. manual \in [Manuals -> {"new", "slot", "fetch", "done"}]
  BY DEF QueryInv, Shape
<1>3. slots = Fetching \cup Asking
  BY DEF SlotsMean, SlotsAreFetches
<1>4. Fetching' = Fetching
  BY <1>1
<1>5. CASE ManualArrive(m)
  BY <1>1, <1>2, <1>5, SlotsStay DEF ManualArrive, ManualMoves
<1>6. CASE ManualAcquire(m)
  <2>1. /\ manual[m] = "slot" /\ manual' = [manual EXCEPT ![m] = "fetch"]
        /\ slots' = slots \cup {m} /\ Cardinality(slots) < MaxSlots
    BY <1>6 DEF ManualAcquire, ManualMoves
  <2>2. m \notin slots
    BY <1>3, <2>1, QueryAssumption
  <2>3. IsFiniteSet(slots') /\ Cardinality(slots') <= MaxSlots
    BY <2>1, <2>2, SlotTaken
  <2>4. Asking' = Asking \cup {m}
    BY <1>2, <2>1
  <2>5. slots' = Fetching' \cup Asking'
    BY <1>3, <1>4, <2>1, <2>4
  <2> QED
    BY <2>3, <2>5 DEF SlotsMean, SlotsAreFetches
<1>7. CASE ManualReturns(m)
  <2>1. /\ manual[m] = "fetch" /\ manual' = [manual EXCEPT ![m] = "done"]
        /\ slots' = slots \ {m}
    BY <1>7 DEF ManualReturns, ManualMoves
  <2>2. IsFiniteSet(slots') /\ Cardinality(slots') <= MaxSlots
    BY <2>1, SlotGiven
  <2>3. Asking' = Asking \ {m}
    BY <1>2, <2>1
  <2>4. slots' = Fetching' \cup Asking'
    BY <1>3, <1>4, <2>1, <2>3, QueryAssumption
  <2> QED
    BY <2>2, <2>4 DEF SlotsMean, SlotsAreFetches
<1> QED
  BY <1>5, <1>6, <1>7

\* The other steps of a job neither begin nor end a fetch.
LEMMA JobStepSlots ==
  ASSUME QueryInv, SlotsMean, NEW j \in Jobs,
         \/ Join(j) \/ Wake(j) \/ ReadPolicy(j) \/ StoreSuccess(j) \/ Probe(j)
         \/ Judge(j) \/ StoreFailure(j) \/ Finish(j)
  PROVE  SlotsMean'
<1>1. Job(j) \in JobRecords
  BY JobTyped DEF QueryInv
<1>2. ASSUME NEW s, s # "fetch", JobMoves(j, Job(j).at, s), Job(j).at # "fetch",
             UNCHANGED <<slots, manual>>
      PROVE  SlotsMean'
  <2> DEFINE f == [Job(j) EXCEPT !.at = s]
  <2>1. f.at = s
    BY <1>1 DEF JobRecords
  <2>2. SetJob(j, f)
    BY <1>2 DEF JobMoves
  <2> HIDE DEF f
  <2> QED
    BY <1>2, <2>1, <2>2, JobMovesOutside
<1>3. ASSUME NEW r, SetJob(j, Answered(r)), Job(j).at # "fetch", UNCHANGED <<slots, manual>>
      PROVE  SlotsMean'
  <2>1. Answered(r).at = "done"
    BY DEF Answered, Unstarted
  <2> QED
    BY <1>3, <2>1, JobMovesOutside
<1>4. CASE Join(j)
  <2>1. Job(j).at = "join" /\ UNCHANGED <<slots, manual>>
    BY <1>4 DEF Join, Unchanged
  <2>2. CASE JobMoves(j, "join", "slot")
    BY <1>2, <2>1, <2>2
  <2>3. CASE SetJob(j, [Job(j) EXCEPT !.at = "wait", !.owner = fetchCalls[KeyOf(j)]])
    <3> DEFINE f == [Job(j) EXCEPT !.at = "wait", !.owner = fetchCalls[KeyOf(j)]]
    <3>1. f.at = "wait"
      BY <1>1 DEF JobRecords
    <3> HIDE DEF f
    <3> QED
      BY <2>1, <2>3, <3>1, JobMovesOutside DEF f
  <2> QED
    BY <1>4, <2>2, <2>3 DEF Join
<1>5. CASE Wake(j) \/ Finish(j)
  BY <1>3, <1>5 DEF Wake, Finish, Unchanged
<1>6. CASE ReadPolicy(j)
  <2> DEFINE next == CASE state.ttl = 0 -> "finish"
                       [] state.ttl # 0 /\ Job(j).result.kind = "ok" -> "store"
                       [] OTHER -> "probe"
             f == [Job(j) EXCEPT !.at = next, !.policy = state.ttl]
  <2>1. next # "fetch" /\ f.at = next
    BY <1>1 DEF JobRecords
  <2>2. Job(j).at = "policy" /\ SetJob(j, f) /\ UNCHANGED <<slots, manual>>
    BY <1>6 DEF ReadPolicy, Unchanged
  <2> HIDE DEF f, next
  <2> QED
    BY <2>1, <2>2, JobMovesOutside
<1>7. CASE StoreSuccess(j) \/ StoreFailure(j)
  BY <1>2, <1>7 DEF StoreSuccess, StoreFailure, Files, JobMoves
<1>8. CASE Probe(j)
  <2> DEFINE f == IF KeyOf(j) \in DOMAIN entries
                  THEN [Job(j) EXCEPT !.at = "judge", !.seen = entries[KeyOf(j)]]
                  ELSE [Job(j) EXCEPT !.at = "negative"]
  <2>1. f.at # "fetch"
    BY <1>1 DEF JobRecords
  <2>2. Job(j).at = "probe" /\ SetJob(j, f) /\ UNCHANGED <<slots, manual>>
    BY <1>8 DEF Probe, Unchanged
  <2> HIDE DEF f
  <2> QED
    BY <2>1, <2>2, JobMovesOutside
<1>9. CASE Judge(j)
  <2>1. \E s \in {"finish", "negative"} : JobMoves(j, "judge", s)
    BY <1>9 DEF Judge
  <2> QED
    BY <1>2, <1>9, <2>1 DEF Judge, JobMoves
<1> QED
  BY <1>4, <1>5, <1>6, <1>7, <1>8, <1>9

\* Neither does the scan of a query: the jobs it starts have no slot yet.
LEMMA QueryStepSlots ==
  ASSUME QueryInv, SlotsMean, NEW q \in Queries, Arrive(q) \/ QueryStep(q)
  PROVE  SlotsMean'
<1>1. UNCHANGED <<slots, manual>>
  BY DEF Arrive, QueryStep, Resolve, Resolved, Scan, ScanJudge, Reply
<1>2. CASE UNCHANGED job
  BY <1>1, <1>2, SlotsStay DEF Job
<1>3. CASE \E f : SetJob(NextJob(q), f) /\ f.at # "fetch" /\ (Scan(q) \/ ScanJudge(q))
  <2>1. PICK f : SetJob(NextJob(q), f) /\ f.at # "fetch"
    BY <1>3
  <2>2. NextJob(q) \in Jobs /\ Job(NextJob(q)).at = "none"
    BY <1>3, NextIsNew DEF Scan, ScanJudge, Scanning
  <2> QED
    BY <1>1, <2>1, <2>2, JobMovesOutside
<1>4. CASE Scan(q)
  BY <1>2, <1>3, <1>4, FreshJob DEF Scan, Spawn
<1>5. CASE ScanJudge(q)
  <2>1. CASE Spawn(q)
    BY <1>3, <1>5, <2>1, FreshJob DEF Spawn
  <2>2. CASE ~Spawn(q)
    <3> DEFINE f == Answered(Decorated(query[q].seen.value, Account(NextJob(q))))
    <3>1. f.at = "done"
      BY DEF Answered, Unstarted
    <3>2. SetJob(NextJob(q), f)
      BY <1>5, <2>2 DEF ScanJudge
    <3> HIDE DEF f
    <3> QED
      BY <1>3, <1>5, <3>1, <3>2
  <2> QED
    BY <2>1, <2>2
<1> QED
  BY <1>2, <1>4, <1>5 DEF Arrive, QueryStep, Resolve, Resolved, Reply

\* No slot is taken at first.
LEMMA SlotsInit == Init => SlotsMean
<1> SUFFICES ASSUME Init PROVE SlotsMean
  OBVIOUS
<1>1. slots = {} /\ \A j \in Jobs : Job(j).at = "none"
  BY DEF Init, QueryInit, Job, Jobs, Unstarted
<1>2. \A m \in Manuals : manual[m] = "new"
  BY DEF Init, QueryInit
<1> QED
  BY <1>1, <1>2, FS_EmptySet, QueryAssumption DEF SlotsMean, SlotsAreFetches

\* Every step keeps the slots those of the fetches.
LEMMA SlotsStep == QueryInv /\ SlotsMean /\ [Next]_vars => SlotsMean'
<1> SUFFICES ASSUME QueryInv, SlotsMean, [Next]_vars PROVE SlotsMean'
  OBVIOUS
<1>1. ASSUME NEW j \in Jobs, JobStep(j) \/ AcquireSlot(j) PROVE SlotsMean'
  BY <1>1, AcquireSlotSlots, FetchReturnsSlots, JobStepSlots DEF JobStep
<1>2. CASE ConfigStep \/ Tick \/ UNCHANGED vars
  BY <1>2, SlotsStay DEF ConfigStep, Tick, vars, queryVars, Job
<1> QED
  BY <1>1, <1>2, QueryStepSlots, ManualSlots DEF Next

\* The slots in use are those of the fetches under way, and no more than
\* there are, however many queries run: none is lost to a fetcher that panics.
THEOREM SlotsAreTheFetches == Spec => []SlotsAreFetches
<1>1. SlotsMean => SlotsAreFetches
  BY DEF SlotsMean
<1> QED
  BY <1>1, SlotsInit, SlotsStep, QueryInvHolds, PTL DEF Spec

-------------------------------------------------------------------------------
(* The properties *)

\* Queries, jobs and slots have their types.
THEOREM QueryTypesCorrect == Spec => []QueryTypeOK
<1>1. QueryInv /\ SlotsMean => QueryTypeOK
  <2> SUFFICES ASSUME QueryInv, SlotsMean PROVE QueryTypeOK
    OBVIOUS
  <2>1. ASSUME NEW q \in Queries
        PROVE  /\ query[q].at \in QueryStages
               /\ query[q].accounts \in Batches \cup {<<>>}
               /\ query[q].types \in Seq(KnownTypes)
               /\ Len(query[q].types) <= Len(query[q].accounts)
               /\ query[q].scanned \in 0..Len(query[q].accounts)
               /\ query[q].settled \subseteq Jobs
    <3>1. query[q] \in QueryRecords /\ QueryMeans(q)
      BY DEF QueryInv, Shape, QueriesMean
    <3>2. query[q].accounts \in Seq(Accounts)
      BY QueryTyped DEF QueryInv
    <3> QED
      BY <3>1, <3>2 DEF QueryRecords, QueryMeans
  <2>2. \A j \in Jobs : Job(j).at \in JobStages /\ Job(j).owner \in Jobs \cup {None}
    BY JobTyped DEF QueryInv, JobRecords
  <2>3. slots \subseteq Jobs \cup Manuals
    BY DEF SlotsMean, SlotsAreFetches
  <2>4. /\ now \in 0..MaxTime
        /\ \A k \in DOMAIN fetchCalls : fetchCalls[k] \in Jobs
        /\ manual \in [Manuals -> {"new", "slot", "fetch", "done"}]
    BY DEF QueryInv, Shape
  <2> QED
    BY <2>1, <2>2, <2>3, <2>4 DEF QueryTypeOK
<1> QED
  BY <1>1, SlotsInit, SlotsStep, QueryInvHolds, PTL DEF Spec

\* However many queries ask for the same key at once, one fetch is under way.
THEOREM FlightsAreSingle == Spec => []SingleFlight
<1>1. QueryInv => SingleFlight
  BY OneOwner DEF QueryInv, SingleFlight
<1> QED
  BY <1>1, QueryInvHolds, PTL

\* Whatever way an answer came, by a fetch, from a fetch of another query or
\* from the cache, it is of the account's type and credential, under its id.
THEOREM AnswersAreForAccounts == Spec => []AnswerIsForAccount
<1>1. QueryInv => AnswerIsForAccount
  BY DEF QueryInv, JobsMean, JobMeans, HasResult, IsOf, KeyOf, AnswerIsForAccount
<1> QED
  BY <1>1, QueryInvHolds, PTL

\* No change of policy leaves a success behind for longer than it allows.
THEOREM SuccessesAreWithinPolicy == Spec => []SuccessWithinPolicy
<1>1. QueryInv => SuccessWithinPolicy
  BY DEF QueryInv, EntriesMean, EntryMeans, SuccessWithinPolicy
<1> QED
  BY <1>1, QueryInvHolds, PTL

\* A refresh gets the result of a fetch that was not over when it arrived.
THEOREM RefreshesAreNew == Spec => []RefreshIsNew
<1>1. QueryInv => RefreshIsNew
  BY DEF QueryInv, JobsMean, JobMeans, HasResult, RefreshIsNew
<1> QED
  BY <1>1, QueryInvHolds, PTL

\* A failure never takes the place of a success that is still valid, though
\* cache and clock and configuration move between the look and the store.
THEOREM SuccessesSurviveFailures == Spec => SuccessSurvivesFailure
<1> DEFINE Survives ==
      \A k \in DOMAIN entries \cap DOMAIN entries' :
        entries[k].value.kind = "ok" /\ entries'[k].value.kind # "ok"
          => ~Live(entries[k], now)
<1>1. QueryInv /\ [Next]_vars => [Survives]_vars
  <2> SUFFICES ASSUME QueryInv, Next, NEW k \in DOMAIN entries \cap DOMAIN entries',
                      entries'[k].value.kind # "ok", entries[k].value.kind = "ok"
               PROVE  ~Live(entries[k], now)
    OBVIOUS
  <2>1. IsContent(entries, Keys, Results, Int)
    BY DEF QueryInv, Shape
  <2>2. ASSUME NEW j \in Jobs, NEW ttl \in Int, Job(j).at \in {"store", "negative"},
               Files(j, ttl)
        PROVE  k = KeyOf(j) /\ entries'[k].value = Job(j).result
    <3>1. /\ Job(j).at \in InFlight /\ Job(j).at \in Returned
          /\ KeyOf(j) \in Keys /\ Job(j).result \in Results
      BY <2>2, OwnerKnows DEF InFlight, Returned, HasResult, IsOf
    <3>2. now \in Int
      BY DEF QueryInv, Shape
    <3>3. entries' \in Stored(entries, CacheLimit, KeyOf(j), Job(j).result, ttl, now)
      BY <2>2 DEF Files
    <3>4. /\ \A i \in DOMAIN entries' :
               i # KeyOf(j) => i \in DOMAIN entries /\ entries'[i] = entries[i]
          /\ KeyOf(j) \in DOMAIN entries' =>
               entries'[KeyOf(j)] = [value |-> Job(j).result, expiresAt |-> now + ttl]
      BY <2>1, <3>1, <3>2, <3>3, StoredEffect
    <3>5. k = KeyOf(j)
      BY <3>4
    <3> QED
      BY <3>4, <3>5
  <2>3. CASE \E j \in Jobs : StoreSuccess(j)
    <3>1. PICK j \in Jobs : StoreSuccess(j)
      BY <2>3
    <3>2. cacheTTL \in Int /\ Job(j).at = "store" /\ Files(j, cacheTTL)
      BY <3>1, ConfigAssumption DEF QueryInv, ConfigInv, ConfigTypeOK, StoreSuccess, JobMoves
    <3>3. Job(j).result.kind = "ok"
      BY <3>2 DEF QueryInv, JobsMean, JobMeans, FilesRightly
    <3> QED
      BY <2>2, <3>2, <3>3
  <2>4. CASE \E j \in Jobs : StoreFailure(j)
    <3>1. PICK j \in Jobs : StoreFailure(j)
      BY <2>4
    <3>2. Job(j).at = "negative"
      BY <3>1 DEF StoreFailure, JobMoves
    <3>3. k = KeyOf(j)
      BY <2>2, <3>1, <3>2, FailureLasts DEF StoreFailure
    <3>4. ~(LiveAt(entries, k, now) /\ entries[k].value.kind = "ok")
      BY <3>2, <3>3 DEF QueryInv, JobsMean, JobMeans, FilesRightly
    <3> QED
      BY <3>4 DEF LiveAt
  <2>5. CASE ~\E j \in Jobs : StoreSuccess(j) \/ StoreFailure(j)
    <3>1. entries'[k] = entries[k]
      <4>1. CASE \E q \in Queries : ScanJudge(q)
        BY <2>1, <4>1, SweptEffect DEF ScanJudge
      <4>2. CASE \E j \in Jobs : Judge(j)
        BY <2>1, <4>2, SweptEffect DEF Judge
      <4>3. CASE ConfigStep
        BY <4>3, ConfigEffect DEF ConfigStep, NoEntries
      <4>4. CASE UNCHANGED entries
        BY <4>4
      <4> QED
        BY <2>5, <4>1, <4>2, <4>3, <4>4
        DEF Next, Arrive, QueryStep, Resolve, Resolved, Scan, Reply, JobStep, Join, Wake,
            FetchReturns, ReadPolicy, Probe, Finish, AcquireSlot, Unchanged,
            ManualArrive, ManualAcquire, ManualReturns, ManualMoves, Tick, configVars
    <3> QED
      BY <3>1
  <2> QED
    BY <2>3, <2>4, <2>5
<1> QED
  BY <1>1, QueryInvHolds, PTL DEF Spec, SuccessSurvivesFailure

-------------------------------------------------------------------------------
(* The refinement: the cache that queries and configuration calls share    *)
(* moves as BoundedTTLMap does                                             *)

\* What the queries find live, as the map of BoundedTTLMap.  A failure is kept
\* for a duration of its own, so a duration is any number.
Kept == INSTANCE BoundedTTLMap
        WITH live <- Fresh(entries, now), ttl <- cacheTTL, Values <- Results,
             TTLs <- Nat, MaxEntries <- CacheLimit

\* Contents whose expiries can be compared.
Timed(e) == \A k \in DOMAIN e : e[k].expiresAt \in Int

\* Removing a key and looking at what is live commute.
LEMMA FreshWithout ==
  ASSUME NEW e, NEW k, NEW t
  PROVE  Fresh(Without(e, k), t) = Restrict(Fresh(e, t), DOMAIN Fresh(e, t) \ {k})
<1>1. DOMAIN Fresh(Without(e, k), t) = DOMAIN Fresh(e, t) \ {k}
  BY DEF Fresh, Without, Restrict
<1> QED
  BY <1>1 DEF Fresh, Without, Restrict

\* Sweeping an entry that has expired leaves what is live alone.
LEMMA FreshSwept ==
  ASSUME NEW e, Timed(e), NEW k, NEW x, NEW t \in Int,
         x.expiresAt \in Int, ~Live(x, t)
  PROVE  Fresh(Swept(e, k, x), t) = Fresh(e, t)
<1>1. CASE k \in DOMAIN e /\ e[k].expiresAt = x.expiresAt
  <2>1. DOMAIN Fresh(Without(e, k), t) = DOMAIN Fresh(e, t)
    BY <1>1 DEF Fresh, Without, Restrict, Live, Timed
  <2>2. Fresh(Without(e, k), t) = Fresh(e, t)
    BY <2>1 DEF Fresh, Without, Restrict
  <2> QED
    BY <1>1, <2>2 DEF Swept
<1>2. CASE ~(k \in DOMAIN e /\ e[k].expiresAt = x.expiresAt)
  BY <1>2 DEF Swept
<1> QED
  BY <1>1, <1>2

\* An empty cache has nothing live.
LEMMA FreshNone ==
  ASSUME NEW t
  PROVE  Fresh(NoEntries, t) = NoEntries
<1>1. DOMAIN Fresh(NoEntries, t) = {}
  BY DEF Fresh, Restrict, NoEntries
<1> QED
  BY <1>1 DEF Fresh, Restrict, NoEntries

\* All of a content that has just been purged and written to is live.
LEMMA FreshPut ==
  ASSUME NEW e, NEW t, NEW k, NEW x, Live(x, t), \A j \in DOMAIN e : Live(e[j], t)
  PROVE  Fresh(Put(e, k, x), t) = Put(e, k, x)
<1> DEFINE r == Put(e, k, x)
<1>1. \A j \in DOMAIN r : Live(r[j], t)
  BY DEF Put
<1>2. r = [j \in DOMAIN r |-> r[j]]
  BY DEF Put
<1> HIDE DEF r
<1>3. Fresh(r, t) = [j \in DOMAIN r |-> r[j]]
  BY <1>1 DEF Fresh, Restrict
<1> QED
  BY <1>2, <1>3 DEF r

\* BoundedTTLMap uses the operators of CacheOps too.
LEMMA SameOperators ==
  /\ Kept!NoEntries = NoEntries
  /\ \A f, S : Kept!Restrict(f, S) = Restrict(f, S)
  /\ \A e, k : Kept!Without(e, k) = Without(e, k)
  /\ \A e, k, x : Kept!Put(e, k, x) = Put(e, k, x)
  /\ \A e : Kept!Oldest(e) = Oldest(e)
  /\ \A S : Kept!Cardinality(S) = Cardinality(S)
BY DEF Kept!NoEntries, NoEntries, Kept!Restrict, Restrict, Kept!Without, Without,
       Kept!Put, Put, Kept!Oldest, Oldest, Kept!Cardinality, Cardinality

\* A result filed for a while is kept by the map, one filed for no time is
\* removed from it.
LEMMA FilesRefine ==
  ASSUME QueryInv, NEW j \in Jobs, Job(j).at \in {"store", "negative"},
         NEW ttl \in Nat, Files(j, ttl)
  PROVE  Kept!Keep \/ Kept!Remove
<1> DEFINE k == KeyOf(j)
           v == Job(j).result
           F == Fresh(entries, now)
           x == [value |-> v, expiresAt |-> now + ttl]
<1>1. now \in Int /\ k \in Keys /\ v \in Results
  BY OwnerKnows DEF QueryInv, Shape, InFlight, Returned, HasResult, IsOf
<1>2. /\ entries' \in Stored(entries, CacheLimit, k, v, ttl, now)
      /\ now' = now /\ cacheTTL' = cacheTTL
  BY DEF Files
<1> HIDE DEF k, v
<1>3. CASE ttl = 0
  <2>1. entries' = Without(entries, k)
    BY <1>2, <1>3 DEF Stored
  <2>2. Fresh(entries', now') = Restrict(F, DOMAIN F \ {k})
    BY <1>2, <2>1, FreshWithout
  <2> QED
    BY <1>1, <1>2, <2>2, SameOperators DEF Kept!Remove, Kept!Forget
<1>4. CASE ttl # 0
  <2>1. PICK m \in MadeRoom(F, CacheLimit, k) : entries' = Put(m, k, x)
    BY <1>2, <1>4 DEF Stored
  <2>2. \A i \in DOMAIN F : Live(F[i], now)
    BY DEF Fresh, Restrict
  <2>3. \A i \in DOMAIN m : Live(m[i], now)
    BY <2>2 DEF MadeRoom, Without, Restrict
  <2>4. Live(x, now)
    BY <1>1, <1>4 DEF Live
  <2>5. Fresh(entries', now') = Put(m, k, x)
    BY <1>2, <2>1, <2>3, <2>4, FreshPut
  <2>6. \/ (k \in DOMAIN F \/ Cardinality(DOMAIN F) < CacheLimit) /\ m = F
        \/ /\ ~(k \in DOMAIN F \/ Cardinality(DOMAIN F) < CacheLimit)
           /\ \E o \in Oldest(F) : m = Without(F, o)
    BY DEF MadeRoom
  <2>7. \/ /\ k \in DOMAIN F \/ Kept!Cardinality(DOMAIN F) < CacheLimit
           /\ Fresh(entries', now') = Kept!Put(F, k, x)
        \/ /\ ~(k \in DOMAIN F \/ Kept!Cardinality(DOMAIN F) < CacheLimit)
           /\ \E o \in Kept!Oldest(F) :
                Fresh(entries', now') = Kept!Put(Kept!Without(F, o), k, x)
    BY <2>5, <2>6, SameOperators
  <2>8. ttl \in Nat \ {0}
    BY <1>4
  <2>9. Kept!Keep
    BY <1>1, <1>2, <2>7, <2>8 DEF Kept!Keep
  <2> QED
    BY <2>9
<1> QED
  BY <1>3, <1>4

\* The durations filed for are never below zero.
LEMMA DurationsCount ==
  ASSUME QueryInv
  PROVE  /\ cacheTTL \in Nat
         /\ \A j \in Jobs : Job(j).at = "negative" =>
              Least(FailureTTL[Job(j).result.kind], Job(j).policy) \in Nat
<1>1. cacheTTL \in Nat
  BY ConfigAssumption DEF QueryInv, ConfigInv, ConfigTypeOK
<1>2. ASSUME NEW j \in Jobs, Job(j).at = "negative"
      PROVE  Least(FailureTTL[Job(j).result.kind], Job(j).policy) \in Nat
  <2>1. HasResult(j) /\ FilesRightly(j)
    BY <1>2 DEF QueryInv, JobsMean, JobMeans
  <2>2. Job(j).result \in Results /\ Job(j).policy \in Nat /\ Job(j).result.kind # "ok"
    BY <1>2, <2>1 DEF HasResult, IsOf, FilesRightly, Returned, InFlight
  <2>3. Job(j).result.kind \in DOMAIN FailureTTL
    BY <2>2 DEF Results, Kinds
  <2> QED
    BY <2>2, <2>3, QueryAssumption DEF Least
<1> QED
  BY <1>1, <1>2

\* The look at the cache that finds an expired entry sweeps nothing that is live,
\* however much later than the look the sweep comes.
LEMMA SweepsRefine ==
  ASSUME QueryInv,
         \/ \E q \in Queries : ScanJudge(q)
         \/ \E j \in Jobs : Judge(j)
  PROVE  UNCHANGED Kept!absVars
<1>1. now \in Int /\ Timed(entries)
  BY DEF QueryInv, Shape, IsContent, Entry, Timed
<1>2. ASSUME NEW q \in Queries, ScanJudge(q)
      PROVE  Fresh(entries', now) = Fresh(entries, now)
  <2>1. EntryOf(query[q].seen, KeyOf(NextJob(q)))
    BY <1>2 DEF ScanJudge, Scanning, QueryInv, QueriesMean, QueryMeans
  <2>2. query[q].seen.expiresAt \in Int
    BY <2>1 DEF EntryOf, Entry
  <2>3. \/ entries' = entries
        \/ /\ ~Live(query[q].seen, now)
           /\ entries' = Swept(entries, KeyOf(NextJob(q)), query[q].seen)
    BY <1>2, Zenon DEF ScanJudge
  <2> QED
    BY <1>1, <2>2, <2>3, FreshSwept
<1>3. ASSUME NEW j \in Jobs, Judge(j)
      PROVE  Fresh(entries', now) = Fresh(entries, now)
  <2>1. EntryOf(Job(j).seen, KeyOf(j))
    BY <1>3 DEF Judge, JobMoves, QueryInv, JobsMean, JobMeans, FilesRightly
  <2>2. Job(j).seen.expiresAt \in Int
    BY <2>1 DEF EntryOf, Entry
  <2> QED
    BY <1>1, <1>3, <2>2, FreshSwept DEF Judge
<1>4. UNCHANGED <<now, cacheTTL>>
  BY DEF ScanJudge, Judge
<1> QED
  BY <1>2, <1>3, <1>4 DEF Kept!absVars

\* A configuration call changes the policy and empties the map in one step, or
\* leaves both alone.
LEMMA ConfigRefines ==
  ASSUME QueryInv, ConfigStep
  PROVE  Kept!SetPolicy \/ UNCHANGED Kept!absVars
<1>1. now' = now
  BY DEF ConfigStep, queryVars
<1>2. CASE UNCHANGED <<entries, cacheTTL>>
  BY <1>1, <1>2 DEF Kept!absVars
<1>3. CASE entries' = NoEntries
  <2>1. Fresh(entries', now') = Kept!NoEntries
    BY <1>3, FreshNone, SameOperators
  <2>2. QueryInv'
    BY ConfigStepKeeps
  <2>3. cacheTTL' \in Nat
    BY <2>2, ConfigAssumption DEF QueryInv, ConfigInv, ConfigTypeOK
  <2> QED
    BY <1>1, <2>1, <2>3 DEF Kept!SetPolicy
<1> QED
  BY <1>2, <1>3, ConfigEffect DEF ConfigStep

\* Time takes from the map what expires, though the cache still holds it.
LEMMA TickRefines ==
  ASSUME QueryInv, Tick
  PROVE  Kept!Pass
<1> DEFINE F == Fresh(entries, now)
<1>1. now \in Int /\ Timed(entries)
  BY DEF QueryInv, Shape, IsContent, Entry, Timed
<1>2. now' = now + 1 /\ entries' = entries /\ cacheTTL' = cacheTTL /\ now < MaxTime
  BY DEF Tick, configVars
<1>3. DOMAIN Fresh(entries', now') =
        DOMAIN F \ {k \in DOMAIN F : F[k].expiresAt <= now'}
  BY <1>1, <1>2 DEF Fresh, Restrict, Live, Timed
<1>4. Fresh(entries', now') =
        Restrict(F, DOMAIN F \ {k \in DOMAIN F : F[k].expiresAt <= now'})
  BY <1>2, <1>3 DEF Fresh, Restrict
<1> QED
  BY <1>2, <1>4, SameOperators DEF Kept!Pass, Kept!Forget

\* Every step of the plugin is a step of the map, or none.
LEMMA QueryStepRefines ==
  ASSUME QueryInv, [Next]_vars
  PROVE  [Kept!AbsNext]_Kept!absVars
<1>1. ASSUME NEW j \in Jobs, StoreSuccess(j)
      PROVE  Kept!Keep \/ Kept!Remove
  BY <1>1, DurationsCount, FilesRefine DEF StoreSuccess, JobMoves
<1>2. ASSUME NEW j \in Jobs, StoreFailure(j)
      PROVE  Kept!Keep \/ Kept!Remove
  BY <1>2, DurationsCount, FilesRefine DEF StoreFailure, JobMoves
<1>3. CASE (\E q \in Queries : ScanJudge(q)) \/ (\E j \in Jobs : Judge(j))
  BY <1>3, SweepsRefine
<1>4. CASE ConfigStep
  BY <1>4, ConfigRefines DEF Kept!AbsNext
<1>5. CASE Tick
  BY <1>5, TickRefines DEF Kept!AbsNext
<1>6. CASE UNCHANGED <<entries, now, cacheTTL>>
  BY <1>6 DEF Kept!absVars
<1> QED
  BY <1>1, <1>2, <1>3, <1>4, <1>5, <1>6
  DEF Kept!AbsNext, Next, Arrive, QueryStep, Resolve, Resolved, Scan, Reply, JobStep, Join,
      Wake, FetchReturns, ReadPolicy, Probe, Finish, AcquireSlot, Unchanged,
      ManualArrive, ManualAcquire, ManualReturns, ManualMoves, vars, queryVars, configVars

\* For queries, too, the cache is a map that forgets only what has expired, what
\* is filed for no time, what a change of policy drops, and, for a key that is
\* new to a full map, the least durable entry: no interleaving of the looks,
\* sweeps and stores of jobs with the steps of configuration calls costs a
\* live result otherwise, or brings back one that is gone.
THEOREM QueriesKeepThePromise == Spec => Kept!AbsSpec
<1>1. Init => Kept!AbsInit
  <2> SUFFICES ASSUME Init PROVE Kept!AbsInit
    OBVIOUS
  <2>1. now = 0 /\ entries = NoEntries /\ cacheTTL = DefaultTTL
    BY DEF Init, ConfigInit, QueryInit
  <2>2. Fresh(entries, now) = Kept!NoEntries
    BY <2>1, FreshNone, SameOperators
  <2> QED
    BY <2>1, <2>2, ConfigAssumption DEF Kept!AbsInit
<1>2. QueryInv /\ [Next]_vars => [Kept!AbsNext]_Kept!absVars
  BY QueryStepRefines
<1> QED
  BY <1>1, <1>2, QueryInvHolds, PTL DEF Spec, Kept!AbsSpec
===============================================================================
