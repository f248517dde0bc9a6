------------------------------ MODULE ProviderView ------------------------------
(***************************************************************************)
(* A key's query as the page comes to show it: ProviderFetch until Fetch   *)
(* returns, then the rows its parser makes of the data that came, and the  *)
(* summary the dashboard draws of this key and the other keys of its       *)
(* service, whose results it already has.                                  *)
(***************************************************************************)
EXTENDS ProviderFetch, QuotaAggregation

CONSTANTS
  Data,    \* type -> what the provider's successful answers may report
  Others   \* type -> the results the service's other keys may have

VARIABLES
  results,  \* the results the summary is drawn of; the first is this key's
  summary,  \* what it says of the quota rows: bucket -> aggregate
  balance   \* what it says of the balances, by unit

viewVars == <<fetch, phase, flying, answers, result, results, summary, balance>>

Units == {"usd", "cny"}

\* The rows of what a provider reports.  A New API key with the old billing
\* routes, and a site without display settings, are data of their own.
RowsOf(type, d) ==
  CASE type = "glm" -> GLMRows(d.limits)
    [] type = "minimax" -> MiniMaxRows(d.models)
    [] type = "sub2api" -> Sub2APIRows(d)
    [] type = "kimi_code" -> KimiRows(NormalizeKimiUsage(d.top, d.data))
    [] type = "newapi" -> <<IF d.legacy THEN NewAPILegacyRow(d)
                            ELSE NewAPIRow(d, d.status)>>
    [] OTHER -> <<>>

\* KimiAPI.Fetch has the available balance in yuan, DeepSeek.Fetch the first
\* one in yuan or dollars, parseSub2APIUsage the wallet in dollars.
BalanceOf(type, d) ==
  LET Of(unit, amount) ==
        {[unit |-> unit, amount |-> amount, scope |-> "account"]}
      priced == {i \in DOMAIN d.infos : d.infos[i].currency \in Units}
      first == d.infos[Min(priced)]
  IN  CASE type = "kimi_api" -> Of("cny", d.available)
        [] type = "deepseek" ->
             IF priced = {} THEN {} ELSE Of(first.currency, first.amount)
        [] type = "sub2api" ->
             IF Known(d.wallet) THEN Of("usd", d.wallet) ELSE {}
        [] OTHER -> {}

FailedResult == [failed |-> TRUE, rows |-> <<>>, balance |-> {}]

\* The parsers of New API fail on figures out of range.
Parsed(type, d) ==
  type = "newapi" => IF d.legacy THEN NewAPILegacyFits(d) ELSE NewAPIFits(d, d.status)

ResultOf(type, d) ==
  IF Parsed(type, d)
  THEN [failed |-> FALSE, rows |-> RowsOf(type, d), balance |-> BalanceOf(type, d)]
  ELSE FailedResult

\* What an answer reports are whole numbers, as far as rows and balances are
\* made of them, and whole percentages lose nothing: a boost is none or makes
\* a capacity of at least one percent, and the booster's parts are whole.
LimitFigures(l) == {l.percentage, l.usage, l.total, l.remaining, l.currentValue}

UsageFigures(u) == {u.limit, u.used, u.remaining}

PartFigures(w) ==
  /\ {w.total, w.count, w.pct, w.boost} \subseteq Int
  /\ w.boost > 0 => w.boost >= 10

BoosterFigures(w) ==
  /\ {w.amount, w.left, w.cap, w.monthUsed} \subseteq Int
  /\ (w.amount > 0 /\ Known(w.left)) =>
       LET total == KimiCents(w.amount)
       IN  (100 * Clamp(KimiCents(w.left), total)) % total = 0

DisplayFigures(status) == {status.perUnit, status.usdRate, status.customRate}

IsSequence(s) == s \in Seq({s[i] : i \in DOMAIN s})

Figures(type, d) ==
  CASE type = "glm" ->
         /\ IsSequence(d.limits)
         /\ \A i \in DOMAIN d.limits : LimitFigures(d.limits[i]) \subseteq Int
    [] type = "minimax" ->
         /\ IsSequence(d.models)
         /\ \A i \in DOMAIN d.models :
              PartFigures(d.models[i].interval) /\ PartFigures(d.models[i].weekly)
    [] type = "sub2api" ->
         /\ IsSequence(d.limits) /\ IsSequence(d.subscription)
         /\ d.wallet \in Int
         /\ \A i \in DOMAIN d.limits :
              {d.limits[i].total, d.limits[i].used, d.limits[i].remaining}
                \subseteq Int
         /\ \A i \in DOMAIN d.subscription :
              {d.subscription[i].used, d.subscription[i].limit} \subseteq Int
    [] type = "kimi_code" ->
         \A u \in {d.top, d.data} :
           /\ UsageFigures(u.week) \cup UsageFigures(u.all)
                \cup UsageFigures(u.rolling) \subseteq Int
           /\ BoosterFigures(u.booster)
    [] type = "newapi" /\ d.legacy ->
         {d.hard, d.system, d.soft, d.cents} \subseteq Int
    [] type = "newapi" /\ ~d.legacy ->
         {d.granted, d.used, d.available} \cup DisplayFigures(d.status)
           \subseteq Int
    [] type = "kimi_api" -> d.available \in Int
    [] type = "deepseek" ->
         /\ IsSequence(d.infos)
         /\ \A i \in DOMAIN d.infos : d.infos[i].amount \in Int
    [] OTHER -> TRUE

\* The results of the other keys are made as this key's are.
ASSUME ViewAssumption ==
  \A f \in Fetches :
    /\ \A d \in Data[f.type] : Figures(f.type, d)
    /\ \A rest \in Others[f.type] :
         /\ IsSequence(rest)
         /\ \A i \in DOMAIN rest :
              \/ rest[i] = FailedResult
              \/ \E d \in Data[f.type] : rest[i] = ResultOf(f.type, d)

-------------------------------------------------------------------------------
ViewInit ==
  /\ FetchInit
  /\ results = <<>>
  /\ summary = NoEntries
  /\ balance = NoEntries

FetchStep == FetchNext /\ UNCHANGED <<results, summary, balance>>

OwnResults ==
  IF result.kind # "ok" THEN {FailedResult}
  ELSE {ResultOf(fetch.type, d) : d \in Data[fetch.type]}

\* The page draws the service: this key's result among those it has of the
\* other keys.  The answers the result was made of are forgotten.
Draw ==
  /\ phase = "done"
  /\ results = <<>>
  /\ \E own \in OwnResults, rest \in Others[fetch.type] :
       results' = <<own>> \o rest
  /\ summary' = AggregateQuotaWindows(results')
  /\ balance' = [u \in Units |-> BalanceMetric(results', u)]
  /\ answers' = NoEntries
  /\ UNCHANGED <<fetch, phase, flying, result>>

\* The page goes on showing what it drew.
Shown == results # <<>> /\ UNCHANGED viewVars

ViewNext == FetchStep \/ Draw \/ Shown

ViewSpec == ViewInit /\ [][ViewNext]_viewVars /\ FetchFairness

-------------------------------------------------------------------------------
(* Properties *)

Rows == UNION {{results[i].rows[j] : j \in DOMAIN results[i].rows} :
                 i \in DOMAIN results}

\* What a parser computed and what the page reads agree, although the wire
\* drops every field that is zero (types.go: omitempty) and the page fills
\* the gaps from other fields: the share left of a row is the parser's; a row
\* shows as exhausted exactly when nothing is left of it or its status says
\* so; and a key is blocked exactly when a row that gates the others is
\* exhausted (types.go, Blocking).  A row whose capacity is below the usual
\* one is left out: see the README.
RowsReadBack ==
  /\ \A w \in Rows :
       (~Flagged(w) /\ w.usedPct + w.leftPct > 0 /\ w.capPct >= 100) =>
         /\ Progress(w) = ShareOf(w.leftPct, w.capPct)
         /\ Exhausted(w) <=> (w.spent \/ w.leftPct = 0)
  /\ \A i \in DOMAIN results :
       LET rows == results[i].rows
       IN  ResultState(rows) = "blocked" <=>
             \E j \in DOMAIN rows :
               rows[j].blocking /\ (rows[j].leftPct = 0 \/ rows[j].spent)

\* Every key of the service is counted exactly once in every bucket, with
\* whatever it has there.
KeysCountedOnce ==
  \A b \in DOMAIN summary :
    LET a == summary[b]
    IN  a.finite + a.unlimited + a.unavailable + a.unknown + a.missing
          + a.failed = Len(results)

\* Allowances and balances of accounts are never added: what is shown is
\* some key's, or a range; and unlimited only what is so for every key.
SharedNotAdded ==
  /\ \A b \in DOMAIN summary :
       LET a == summary[b]
           entries == Entries(results, b)
       IN  b[1][2] # "key" =>
             /\ Known(a.sum.total) =>
                  \A i \in DOMAIN entries :
                    Finite(entries[i]) => a.sum.total = entries[i].total
             /\ a.sum.state = "unlimited" => a.unlimited = Len(results)
  /\ \A u \in DOMAIN balance : \A x \in balance[u] :
       \E i \in DOMAIN results :
         \E m \in results[i].balance : m.unit = u /\ m.amount = x

\* The share a summary shows lies between the keys' own, so that it says
\* exhausted only when all of them are.  A row whose percentage contradicts
\* its own figures has no share to compare with.
ShareInBetween ==
  \A b \in DOMAIN summary :
    LET sum == summary[b].sum
        entries == Entries(results, b)
        finite == {i \in DOMAIN entries : Finite(entries[i])}
        shares == {Progress(entries[i]) : i \in finite}
        Coherent(w) ==
          /\ Known(Progress(w))
          /\ (w.total > 0 /\ Known(QuotaRemaining(w))) =>
               Progress(w) = ShareOf(QuotaRemaining(w), w.total)
    IN  (\A i \in finite : Coherent(entries[i])) =>
          /\ (sum.state = "finite" /\ Known(sum.progress)) =>
               /\ Min(shares) <= sum.progress /\ sum.progress <= Max(shares)
               /\ sum.progress = 0 => Max(shares) = 0
          /\ sum.state = "range" =>
               sum.low = Min(shares) /\ sum.high = Max(shares)

\* The summary of a service is one of all its keys and of nothing else: each
\* is counted once (README: keys that fail or lack a figure are named, not
\* guessed), shared allowances are not added up (types.go: must not be
\* summed), and a share of several keys is never outside their own.
SummaryAccountsForAll == KeysCountedOnce /\ SharedNotAdded /\ ShareInBetween
===============================================================================
