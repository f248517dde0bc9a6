# Verification of balance-query

balance-query is a plugin of CLIProxyAPI (CPA): a shared library in Go that asks
providers for the balance and the quota of API keys, and a dashboard page that
the library serves and that drives it. This directory holds TLA+ modules that
model the program, TLC instances of them, and theorems about them with proofs
checked by TLAPS.

## The system

| Component | Code | State it keeps | Operations |
|---|---|---|---|
| result cache | `internal/cache` | entries with an expiry, one policy duration, a cap; one RWMutex | Get, Set, SetWithTTL, SetTTL, Reset, Delete, Flush, Keys |
| runtime configuration | `main.go` 160-386, 479-531 | published configuration and last error (stateMu), serialised by runtimeConfigMu; the cache's policy follows it | register, reconfigure, config-apply, shutdown, config-state |
| balance queries | `main.go` 533-1034 | fetches in flight by cache key (fetchMu), eight slots (a channel) | query, manual-query |
| provider fetchers | `internal/providers/*.go` | none, apart from a pool of HTTP clients; within a Fetch, the answers so far | one Fetch per provider: several requests, some concurrent, other credential styles, fallbacks, pages, partial failures; the quota rows a parser makes |
| HTTP transport | `internal/providers/http.go` | client pool | one GET: proxy, redirects, error bodies, Retry-After, kind of a failure |
| failure classification | `main.go` 1007-1187, 1360-1380 | none | the kind, the retry hint and the status a caller is told |
| dashboard: saving settings | `internal/ui/dashboard.go` 3761-4145 | ticket records in localStorage, shared by tabs; draft and loaded settings | lock, read-merge-write-apply |
| dashboard: session | `internal/ui/dashboard.go` 795-1386, 3349-3602, 4147-4384 | accounts, results, snapshot in sessionStorage, generation counters, AbortControllers | load, query, manual query, cancel, drafts |
| dashboard: aggregation | `internal/ui/dashboard.go` 2206-2286, 2756-2983 | none | quota rows read, quota and balance of several keys put together |
| presentation, build files | the rest | | |

The host calls the library from any number of threads. A query reads the
configuration and the cache, starts a goroutine per account that the cache
cannot answer, merges goroutines that want the same key, and files each result
under the policy it finds. The goroutine calls the provider's Fetch, which sends one
to some forty requests (GLM's three and Claude's two reports concurrently) and
turns their answers into rows and balances, or into one failure, whose kind
`main.go` settles. The page draws one summary from the results of all keys of a
service. Configuration calls run beside it and empty the
cache when the duration changes. Several dashboard tabs share one browser
storage and one CPA configuration, which each of them rewrites.

What is hard about it: steps of queries and configuration calls in any order;
values read under one lock and used under another (the policy that a failed
fetch is filed under, the entry that an expired Get sweeps); shared results;
panicking fetchers; slots at their limit; requests
of which some fail, are paged or must be repeated; figures that are absent,
zero or contradictory and pass through a format that drops zeros; tabs that race to save, whose locks
expire and whose pages close. The list with lines is `hazards` in
`PROJECT.json`.

## Modules

| Module | Models | Correspondence |
|---|---|---|
| `CacheOps` | what the cache's critical sections do to its map | pure operators; `Stored` is setLocked, `Swept` the second half of Get |
| `ResultCache` | `internal/cache.Cache` used concurrently | one action per method; Get is read, judge, sweep, and Keys is clock, purge, as the code releases its lock in between |
| `BoundedTTLMap` | what that cache promises: a map without expired entries | abstract; `ResultCache` and the cache inside `QueryService` implement it with `live <- Fresh(entries, now)` |
| `RuntimeConfig` | configuration calls | one action per critical section: lock, compare, reset the cache, publish, settle the error, answer, unlock |
| `QueryService` | queries, coalescing, slots, filing results; extends `RuntimeConfig` | one action per critical section or blocking operation of handleBalanceQuery, fetchAccountCoalesced, performAccountFetch, cacheFetchResult; also manual queries |
| `SaveLock` | `withLocalConfigSaveLock`, the save lock of browsers without Web Locks | one action per call of localStorage; an attempt is a call of the function, in whatever tab |
| `SettingsSync` | pages that load, edit and save the configuration against CPA and the plugin's runtime | one action per request served and per continuation that follows; the lock is one variable here, its inside is `SaveLock` |
| `DashboardSession` | one page: connecting, loading, querying, results in view, the snapshot in sessionStorage | one action per event handler and per continuation after a request or a digest; a save is its outcome only |
| `Failures` | one GET and its verdict (`http.go`), the classification of failures in `http.go` and again in `main.go` | pure operators; the code tables are sequences searched in order, as the `switch`es are |
| `ProviderFetch` | the Fetch of every provider, with what each asks next and what it makes of the answers | one action for sending a request, one for its end, one for the start and the return; concurrent requests are a set |
| `FetchPromise` | what a Fetcher promises its caller: one return, with data and warnings or with one failure | abstract; `ProviderFetch` implements it (`KeepsPromise`) |
| `QuotaRows` | the quota rows the parsers make of a provider's figures | one operator per function of `glm.go`, `minimax.go`, `sub2api.go`, `newapi.go`, `kimi.go` |
| `QuotaAggregation` | what the page reads in a row, and the sums over the keys of a service | pure operators, named as the functions of `dashboard.go` |
| `ProviderView` | the composition: a query, the rows of its data, the summary drawn of it and of the other keys | `ProviderFetch`'s steps, then `Draw` |
| `ResultCacheProofs`, `RuntimeConfigProofs`, `QueryServiceProofs`, `SaveLockProofs`, `SettingsSyncProofs`, `DashboardSessionProofs`, `ProviderFetchProofs`, `ProviderViewProofs` | theorems about the module of that name | |
| `MC...` | the instances for TLC | |

Definitions whose comment begins "A bug to be caught" are not part of the
model: each is a plausible wrong version of the definition after it, and
replacing that definition by it must break the property `PROJECT.json` names
under `mutants`.

Abstractions. A cached value is opaque in `ResultCache`; in `QueryService` it is
the kind of outcome, for whom and by which fetch. Address, proxy and digest of
the API key are one value, the credential (the key is a hash of these and of
the query type, and hashes are taken not to collide). A lifecycle request is
empty, unreadable, or carries a configuration. A fetcher is the set of its
outcomes: a success, a failure of some kind, a panic. Time is a counter that
may advance between any two steps; durations keep their order only.

`SaveLock`. Nothing holds up the clock: it may move between any two calls of
localStorage, because a tab may be suspended there, and each reading of
`Date.now()` is kept (`asOf`) until the call that uses it. localStorage is atomic per
call and no more: calls of several tabs interleave inside blocks of script. Reading
and writing may throw; removing an item does not. `missed` and `lapsed` are history:
a scan that lost an item to the shifting of the listing, and a record that was written
when the one before had expired. Where Web Locks exist the
browser's own exclusive lock is used and nothing is left to model. The whole save
times out after 10 s (`dashboard.go:810`), so that `SettingsSync` may take the lock as
held for the length of a save, except where a loss of it is one of its events.

`SettingsSync`. A configuration is a function on items: the cache duration and
one item per provider (its mapping, under whichever of its two keys). A save
that is superseded has no further steps: its requests are aborted and each of
its continuations begins with a generation check. A request that was sent may
still be served later (`LateRequest`). The load's post to the runtime takes no
lock, as in the code. CPA's store, its reload of the plugin and its other
clients are external. `wish` is history: what the user typed and neither a save
nor a load settled. A page without results shows those of the session's snapshot while
it loads, and takes the configuration of that time for saved; because a load that
succeeds replaces it, this happens here in the step in which a load fails, and the
configuration is any.

`DashboardSession`. An account stands for a provider key with a configuration
source of its own. The digest of an account contains its query type
(`dashboard.go:1017`), so a result matches an account when the types agree. A
digest that is superseded is dropped (`NewGeneration`): what is computed with it carries
its generation and has no effect in a later one.
The snapshot's age is the action `SnapshotExpires`; fresh or not is a free
choice. The query of a key typed in is one exchange whose answer is only known
by the connection it was sent over. A load has its data in view, and the buttons work, before the digests are
done that select the results to keep (`dashboard.go:4251`-4258): this is its stage
`read`, in which clicks, answers and saves are as free as in any other. The stage may
also be interrupted where the code has no record to compare and goes on within the
same turn of the event loop's microtasks; the model allows more there. Two pieces of
history name the cases in which such an interruption breaks what holds otherwise:
`overtaken` (the load was superseded by a reconnect, or its results by a save, while it
waited) and `query.restored` (a load has put other results in view since the query
began).

`Failures` and `ProviderFetch`. An exchange is how it ended (whole, lost, cut,
too large, no JSON), its status, redirects, Retry-After and the places where a
code or a message stands. A text is the set of the words that some table looks
for; Chinese phrases are glossed by an English word. Only codes that a table
names occur, and `WordsOfCode` gives the words that other codes contain, because
code and message are searched together. A body is what the parser tests: the
business code, the success flag, the message, a nested error, whether the
expected rows are there, for Claude the tokens and whether there is another page.
Left out: the failure to build a request (an address that gets there can be
parsed), the cut of messages at 240 characters, waits beyond the bounds of an
integer, and the time that concurrent requests take. Scaled down: `MaxPages` (20 in the
code), `MaxCount` (the 63 bits of a token sum) and `NoHardLimit` (the amount by
which New API says unlimited). Costs are floats in the code and have no limit to
overflow. `QueryService` takes all of this as its one step `FetchReturns`, whose
set of outcomes is what `FetchPromise` allows, and a panic.

`QuotaRows` and `QuotaAggregation`. Figures are integers, and `None` is an absent
one; percentages are whole. `ShareOf`, the share of a part in a whole, rounds down but
never to nothing while something is left, because the page asks of its floats whether
anything is left. A row has the fields that reading and adding
use; a zero is the same as absent for the page, as `omitempty` makes it
(`types.go:116`), and every operator of the page is written that way. A bucket's
key keeps scope and unit, which the aggregation keys of the code contain. `MaxFloat`
(the largest float64 in the code) and `NoHardLimit` are scaled down.

`ProviderView`. The data of an answer are chosen when Fetch has succeeded, not
with the exchange: none of the fetchers lets the figures decide what is asked. New
API's parsers fail on figures that a conversion takes out of range (`Parsed`); the key
then counts as failed in `ProviderView`, while the `result` of `ProviderFetch`, which
does not know the figures, stays a success.
`Draw` empties `answers`, which nothing reads afterwards, to keep the states few.

## Runs

| Run | Instance | Shows |
|---|---|---|
| `result_cache` | 2 callers, 3 keys, 2 values, cap 2, clock to 3, symmetric | capacity; no racy sweep or purge costs a live entry; refinement of `BoundedTTLMap` |
| `runtime_config` | 2 concurrent calls of every kind, durations beyond both bounds, unknown type | policy and state agree, answers and errors belong to their call, every call returns; no deadlock |
| `query_racing` | 2 queries of one account each for one credential, a call that turns caching off or on and changes the type, 1 slot | single flight, slots, labels, policy of successes, refreshes, successes survive failures |
| `query_batches` | 1 query of two accounts (one key or two), 1 manual query, 1 slot, cap 1 | with coalescing in a batch and a fetcher that may panic, every query and every manual query is answered |
| `save_lock` | 2 attempts, 1 item of another script, lease of 2 ticks, clock to 2 | two tabs overlap only if a scan missed a key or a record was written when its lease had ended; nothing is left behind; a lease ends once |
| `save_lock_overlap` | the same with a clock to 1, less than the lease, so that only a missed key can be the cause | expected violation, see Findings |
| `settings_sync` | 2 pages, 2 providers with 2 values each, a duration that may be typed invalid, 2 edits, 2 loads, up to 2 of fault, foreign write, lost lock, and 1 late request | saves keep what others saved and what users typed, and report success only for what CPA stores |
| `settings_in_effect` | the same without mishaps, 1 edit, 2 loads | expected violation, see Findings |
| `dashboard_session` | 2 CPAs, 2 accounts, 2 types, 3 loads, 1 refresh or 1 query of a key typed in, 1 change of the mapping, 2 failures | results belong to the connection and the mapping; successes stay; no account is forgotten |
| `provider_view` | a query of each provider, every kind of answer to each request in every order, 3 pages, some hundred sets of figures, up to 2 other keys of the service | credentials are retried only after a rejection; the outcome tells what the answers told; every query returns; what the page shows of a row is what the parser meant; a summary counts every key once and adds no shared allowance |
| `failure_outlives_policy` | as `query_racing` | expected violation, see Findings |
| `repeat_while_cached` | as `query_racing` | expected violation, see Findings |

Why the bounds are enough. Every cache race is between two callers and one key;
a third key is needed for eviction beside the key that is raced for. Two
configuration calls are all that can overlap pairwise, as the mutex admits one
at a time. Two jobs are enough for coalescing and its absence, and one slot
makes every job wait for every other. Clock bounds (`MaxTime`) let each entry
live and expire. `Arriving` holds the requests that occur in an instance.
The lock protocol compares tickets pairwise, so two attempts and a foreign item
whose removal shifts the listing are the smallest complete instance; a lease of two
ticks and a clock to two let a lease end between any two calls and let a clock be
read before its end and used after. In
`SettingsSync` two pages suffice to be the saver and everyone else; `Bound`
counts events by kind and `MaxMishaps` those that are not any page's doing: two,
because one may hide behind another (a timeout, then a late request). In
`DashboardSession` three loads allow one to supersede another and a third to
read what they left; two failures (`MaxFaults`), because one may hide behind another (a
failed query, then a failed load); the other counters (`MaxChanges`,
`MaxQueries`) are one, because each property names one query or one change; a manual query counts as a query, since it shares nothing with a refresh
but the connection.
In `provider_view` the exchanges of an endpoint are those its code tells apart:
each way to fail, each place of an error code, a code of each table, each form
of a wait; providers of one plain request share them, so that the rare ones
(redirect chains, unusual statuses) are tried with one. Three pages make a first, a
middle and a last one, and `MaxCount` is only exceeded by the sum of all three. Two other
keys suffice for sums, in which every kind of key meets every other: `Others` has keys that
failed, lack the row, are unlimited, used up or partly used, or say nothing.

Fairness. `QueryService` assumes that goroutines run (weak fairness), that a
fetcher returns (`KeepsPromise` of `ProviderFetch`), and strong
fairness for taking a slot: the Go runtime serves senders that block on a
channel in their order. `ProviderFetch`
assumes that some step is taken while one is possible: goroutines run, and every request ends
(each HTTP client has a timeout, `http.go:495`, and a Claude report one of 75 s
over its pages, `anthropic.go:18`). `RuntimeConfig` assumes strong fairness for its mutex,
which Go hands to a waiter that starves. Nothing is assumed of the callers: a
host need not call at all, and no user need click: the dashboard modules state
safety only. Runs with `CHECK_DEADLOCK FALSE` are those whose
clock, loads or queries run out.

## Proofs

`ResultCacheProofs`: the type invariant is inductive; capacity needs the
lemma `StoredWithinCap` about setLocked (the purge never adds, one eviction
suffices because at most one key is added). The refinement maps each step to
the abstract step it stands for: sweeps and purges stutter, because what they
remove expired at the instant the caller read, and time does not go back; a
tick maps to `Pass`, which forgets exactly what expires. `ReadsAreHarmless` proves the action property
`ReadsLoseNothing`: a Get or Keys that raced a Set removes nothing that is still
live. The inductive
invariant holds only types and "a caller never has a clock reading from the
future" (`InvHolds`).

`RuntimeConfigProofs`: the inductive invariant `ConfigInv` says who owns the
mutex (`MutexOwned`: a call between lock and unlock is its owner, so there is
at most one), what the cache's policy is at each stage (`CacheFollows`) and what
each stage of the owner already achieved (`StagesMean`). The properties follow
from it without a further induction.

`QueryServiceProofs`: none of the properties of `QueryService` is inductive alone.
`QueryInv` adds to `ConfigInv` who is in flight and why: a job between slot and finish
is the one registered in `fetchCalls` under its key and the other way round
(`Owns`, `CallsAreOwned`; `FlightsAreSingle` follows), a job that waits has an owner
of its own key that was not over when its query arrived (`Waits`), a result is of its
key, of its account and not of a fetch that was `settled` (`HasResult`), and what the
filing of a failure saw in the cache can only have disappeared since, because nobody
else stores under its key (`FilesRightly`); that last part is what
`SuccessesSurviveFailures` rests on. `EntriesMean` bounds the expiry of each success by
the policy of the cache, not of the job. Configuration steps are taken over from
`StepKeeps` of `RuntimeConfigProofs`. `SlotsMean` is a second invariant, with the
cardinality of the slots. `QueriesKeepThePromise` carries the refinement of
`BoundedTTLMap` over to the composition: `ResultCache` shows it for a cache whose
callers are arbitrary, this theorem for the cache as queries, fetches and
configuration calls use it. A stored result is `Keep` or `Remove`, a reset is
`SetPolicy`, a sweep is a stutter because the entry that a query or a job read had
expired by the instant it judged (`SweepsRefine`, from `EntryOf` in `QueryInv`), and
a failure's duration is a number because its policy was read (`DurationsCount`).
No run checks this refinement: it is a theorem only.

`SaveLockProofs`: `LockInv` says for each attempt what its stage lets it have in
storage (`StageMeans`), bounds tickets (`Bounded`), has no clock reading from the
future (`Shape`), and relates any two attempts (`Apart`): if one is
past choosing, the other has not given up and both are neither missed nor lapsed, the
first can still find the other in its second scan, or the other finds its ticket in the
first scan, or the other's ticket, drawn or written, comes after it. Nothing is assumed of the clock. What remains true of a record while time passes
is the subject of two lemmas: nobody but its owner removes a live record that never
lapsed, however old the reading of the clock it is judged by (`TakenAwayByOwner`), and a
record that is gone or dead comes back only by the write of its own attempt, which shows
as `lapsed` (`DeadStaysDead`). `HoldersAreAlone` ends the argument: two attempts through
at once, neither missed nor lapsed, would each have to come after the other.
`NothingIsLeftBehind` follows from `StageMeans`, and `LeasesEndOnce` from the two lemmas.

`SettingsSyncProofs`: `SyncInv` is one invariant per page (`PageInv`: what a save at
each stage has read, merged and noted, what a wish is, `saving` exactly during a save)
and one across pages (`LockProtects`): without outsiders a save past its lock holds
it, and at the stages that rely on it only one configuration has been stored since.
Every step is one of a page, which leaves the invariants of the other pages alone
(`PageStands`), or of CPA, the plugin and other clients. `SuccessesAreNotOutdated` and
`WritesAreWhatUsersSaw` are action properties from it.

`DashboardSessionProofs`: `SessionInv` strengthens the properties by what is not in
view. A record, in the session or waiting for a digest, has one result per account,
of its type and connection (`RecordMeans`, `DigestMeans`); there is one digest for a load to
end with (`OneReads`); while no data is in view no query runs or is owed, and in stage
`read` the load's accounts are those in view unless a save overtook it (`LoadMeans`); a
query began with the results in view, or a load has restored others since (`QueryMeans`);
and each result in view is of an account mapped to its type, or of one whose source could
not be read, unless the digests of the load were overtaken (`Accounted`). Every click is
allowed while a load waits for its digests: the exceptions that follow from it are stated
in the properties themselves and are history of the state, not assumptions.
`SuccessesStay` (an action property) puts these together with the lemmas on
`mergeQueryResults` and `appendUnavailablePreviewResults`.

`ProviderFetchProofs`: `FetchTypeCorrect` and `RetriesAreJustified` follow from
`FetchInv`: the types, with `AttemptsInOrder` (all attempts before one that was
sent or answered are answered, each so that the endpoint is asked again) and
what is known at each phase. `RetriesOnlyAfterRejection` alone is not inductive: that a
request on its way has no answer yet, and that the predecessor of a wanted
attempt has its own predecessors, must be carried along. `ReturnsWhatIsPromised`
is the refinement of `FetchPromise` without its liveness: `Finish` and a refusing
`Begin` are the promised return (`OutcomeKind` gives the type of what is
returned), every other step is a stutter. It rests on the lemmas that both
classifications always end in a kind, for any answers, and that when nothing is left to ask every open endpoint has a deciding answer (`FinalIsKind`).
`OutcomesAreFaithful` adds `OutcomeInv`: waits are numbers and the last page a report
may have promises no other (`AnswersInv`), and a query that is done matches its answers.
When nothing is wanted, the last attempt at every open endpoint is answered and settles
it, since a next attempt would be wanted otherwise (`AllSettled`); from there
`FinishMatches` goes through the failing and the successful outcomes.

`ProviderViewProofs`: `SharesReadBack` proves for every percentage that the page
shows what a parser's share says in spite of the dropped zeros; `MapFiguresAgree`
that contradicting figures of Sub2API are settled for the lower remainder and
agree afterwards; `SummaryCountsAll` that every key is in exactly one class of each
bucket, for any number of keys, with `SummaryInv` (what is shown is the aggregate
of the results in view) as its inductive invariant and a lemma on the cardinality of
a partition. `RowsAreReadBack` goes through the parsers: each operator that makes a row
has a lemma that the row reads back (`GLMReads` to `KimiBoosterReads`), most of them by
`ShareReads`; `RowsOfReads` joins them and `ReadInv` carries them to the results that are
drawn. `SharedAreNotAdded` rests on the counts of `AggregateCountsAll` (a shared bucket is
called unlimited only when every other class is empty), on `SharedTotal`, and for the
balances on `BalanceIsSomeKeys`; a greatest balance exists because finitely many numbers
have a bound, which `IndexedMax` proves from the least counterexample.
`SharesAreInBetween` needs sums over the keys. `SumAddsUp` shows, for every finite set, that
a sum is what its recursion says (`AddsOver`), from the least set for which it would not
be; `OneByOne` is induction over the subsets of a set, so that `SumsCompare` can carry a
linear comparison from the figures to their sums, with a margin per figure. A share
of k percent or more is such a comparison (`ShareBounds`), and so `ShareOfSums` follows:
the share of the sums is not below the least nor above the greatest share of the
parts. `ShownShare` and `SomethingLeft` say which quotient a row's share is, from
`Measured` (the figures a parser makes are numbers), and `AddedInBetween`,
`SharedInBetween` and `AggregateInBetween` follow the code's cases.
`SummariesAccountForAll` puts the three parts of `SummaryAccountsForAll` together.

The proofs assume what the modules state of their constants only
(`CacheAssumption`, `ConfigAssumption`, `QueryAssumption`, `LockAssumption`,
`SyncAssumption`, `SessionAssumption`, `FetchAssumption`, `ViewAssumption`), which TLC
evaluates in the runs. `ViewAssumption` says that figures are whole numbers, that the
results of the other keys are made by the same parsers from such figures, and that whole
percentages lose nothing: the booster's parts are whole percentages, and a MiniMax boost
is none or makes a capacity of at least one percent (10 permille). The program computes
with floats, for which this holds without saying.
`QueryAssumption` says that a batch is a sequence of accounts and
that jobs and manual queries are told apart, no more. Each inductive invariant was checked
by TLC before it was proved: `SyncInv` (3,197,816 states), `SessionInv`
(1,005,348 states) and `LockInv` (about 4.7 million states) on the instances of the
runs. Liveness is model-checked, not proved: it is beyond
TLAPS here, as are properties of `ENABLED`.

Model-checked only: the liveness of `QueryService`, `RuntimeConfig` and `ProviderFetch`
(`QueriesAnswered`, `ManualsAnswered`, `CallsReturn`, and the promise of `FetchPromise` that a query
returns). Every safety property of the passing runs is a theorem.

## Findings

* A failed result can stay in the cache with caching configured off, or longer
  than configured: `cacheFetchResult` reads the duration at `main.go:833`,
  writes at 870, and a reconfiguration may come in between. README.md:46 of the
  repository says otherwise. Successes are not affected (`SuccessWithinPolicy`).
* A query that is not a refresh can ask a provider although the answer is
  cached: the look into the cache (`main.go:783`) and the look for a fetch in
  flight (800) are separate, and the cache is not looked at again. README.md:42
  says that nothing is queried again while the cache is valid.
* Two tabs can hold the save lock at once: `contenders` lists localStorage by
  index (`dashboard.go:3822`) while other tabs remove items, and an index that
  shifts hides a contender. The comment at `dashboard.go:3761` says that tickets
  keep tabs from overlapping. `OneHolderUnlessMissedOrLapsed` holds: the only other
  way is a record written when its lease had ended, as when a lease ends
  between the check at `dashboard.go:3797` and the write at 3798.
* A page load can put an older configuration into effect after another page's
  save has reported success: it posts what it read (`dashboard.go:4227`) without
  the lock and without reading again. README.md:44 says that a save waits until
  its configuration is in effect before the new mapping is queried.

## Observations

Where the code does something a reader may not expect, without contradicting
what the repository says of it, or where it cannot be decided from the
repository whether the case occurs. The models have the code's behaviour.

* `types.go:121` gives a used percentage the range 0-100; an exhausted row of a
  boosted MiniMax plan has its capacity there, up to any size
  (`minimax.go`, miniMaxWindow), and shares left are cut at 200.
* A MiniMax boost below 1000 permille leaves an exhausted row with a used
  percentage below 100 and no remaining one on the wire; the page then shows 100
  minus used. `RowsReadBack` therefore leaves out rows with a capacity under 100.
* A finite New API grant of zero has no figure on the wire, and shows as
  incomplete; with the old billing routes a limit of zero shows 100% left.
* A MiniMax row with a total and neither count nor percentage has no share.
* Two failed Claude reports of different kinds are an unknown failure, whose kind
  `main.go:1060` infers again, from the lowest HTTP status the joined text names.
* `insufficient_balance` and `api_key_auth_overloaded` are classified differently
  in `http.go` and in `main.go`; which table decides depends on whether
  the first one knew the kind.
* GLM's refusals of a key within an HTTP 200 are not tried with the other
  credential style, as those with HTTP 401 are.
* A refresh clicked while a load waits for its digests begins with the results then in
  view (`dashboard.go:3386`). The load may then restore a success from the session's
  snapshot (4263), which a failed answer of that refresh replaces (3412), although
  README.md:42 says that a failed refresh does not. `SuccessesSurviveQueries` excepts
  this case by name (`query.restored`).
* A reconnect in the same moment supersedes the load; if its own load fails, results of
  the mapping before stay in view beside the new configuration, with the message that
  loading failed. `ResultsFollowMapping` excepts it by name (`overtaken`). A whole
  save in that moment leaves the load to end with the accounts of before the save;
  `NothingForgotten` and `ResultsFollowMapping` except it too.
* While a page loads from a newly entered CPA, a key typed in is queried there
  with the proxy setting read from the CPA before (`dashboard.go:3562`):
  `globalProxyUrl` is replaced only once the load's own settings are in use (4240).


## Not modelled

* The C ABI (`cliproxyPluginCall`, buffers of the host): memory, not behaviour.
* Presentation: HTML, CSS, themes, animation, number and date formatting, the
  order and labels of cards, expanded panels, focus.
* Texts: titles, reasons and suggestions of failures are constants chosen by the
  kind; the removal of credentials from messages works character by character.
* Build files and the release workflow: nothing at run time.
* In the fetchers: the derivation of request paths from an address
  (`serviceEndpoint` is reduced to whether it accepts one), reset times,
  plan names, cost figures and the text-only `Extra` of a result; MiniMax's
  `applyPrimaryWindow` and the legacy token fields, which repeat a row; idle
  connections of the client pool, which change no answer.
* In the aggregation: costs, reset times and the range of remaining amounts.
* In `DashboardSession`: the order of results in time, so that an older success
  that a snapshot restores counts as any other.
* Where Web Locks exist, the browser's lock; CPA's own storage and reload.
