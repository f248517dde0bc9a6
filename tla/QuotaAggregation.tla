---------------------------- MODULE QuotaAggregation ----------------------------
(***************************************************************************)
(* What the dashboard reads in quota rows and how it adds up the rows of   *)
(* several keys of a service (dashboard.go).  A result is [failed, rows,   *)
(* balance]; results is the sequence of the results of the service's keys. *)
(***************************************************************************)
EXTENDS QuotaRows, FiniteSets, FiniteSetsExt, Functions

\* A part of a whole in percent.  The code divides floats: the whole number
\* is rounded down, but to nothing only when the part is nothing.
ShareOf(part, whole) ==
  IF part > 0 /\ part * 100 < whole THEN 1 ELSE (part * 100) \div whole

-------------------------------------------------------------------------------
(* One row: a field that is zero is absent, and then another one is tried *)

\* A bug to be caught: the used share is derived before it is looked up.
UsedPercentDerived(w) ==
  CASE w.leftPct # 0 -> Clamp(100 - w.leftPct, 100)
    [] w.leftPct = 0 /\ w.total > 0 /\ w.remaining # 0 ->
         Percent(w.total - w.remaining, w.total)
    [] OTHER -> None

\* quotaPercent
QuotaPercent(w) ==
  IF w.usedPct # 0 THEN Clamp(w.usedPct, 100)
  ELSE IF w.leftPct # 0 THEN Clamp(100 - w.leftPct, 100)
  ELSE IF w.total > 0 /\ w.used # 0 THEN Percent(w.used, w.total)
  ELSE IF w.total > 0 /\ w.remaining # 0
  THEN Percent(w.total - w.remaining, w.total)
  ELSE None

\* quotaRemainingPercent
RemainingPercent(w) ==
  IF w.leftPct # 0 THEN w.leftPct
  ELSE IF Known(QuotaPercent(w)) THEN 100 - QuotaPercent(w) ELSE None

\* quotaProgressRemainingPercent: the share left of the row's own capacity.
Progress(w) ==
  IF ~Known(RemainingPercent(w)) THEN None
  ELSE IF w.capPct > 0 THEN ShareOf(RemainingPercent(w), w.capPct)
  ELSE RemainingPercent(w)

\* quotaRemaining
QuotaRemaining(w) ==
  IF w.remaining # 0 THEN w.remaining
  ELSE IF w.total # 0 /\ w.used # 0 THEN AtLeast0(w.total - w.used) ELSE None

Flagged(w) == w.unlimited \/ w.unavailable \/ w.unknown

\* hasFiniteQuotaValue
Finite(w) ==
  /\ ~Flagged(w)
  /\ Known(RemainingPercent(w)) \/ w.total > 0 \/ Known(QuotaRemaining(w))

\* quotaWindowIsExhausted
Exhausted(w) ==
  ~Flagged(w) /\ (w.spent \/ (Known(Progress(w)) /\ Progress(w) <= 0))

\* quotaWindowState
WindowState(w) ==
  IF w.unavailable THEN "neutral"
  ELSE IF w.unknown THEN "incomplete"
  ELSE IF Exhausted(w) THEN "exhausted" ELSE "available"

\* quotaResultState: rows that gate the others decide when there are any.
ResultState(rows) ==
  LET all == {rows[i] : i \in DOMAIN rows}
      gates == {w \in all : w.blocking}
      states == {WindowState(w) : w \in (IF gates # {} THEN gates ELSE all)}
  IN  IF \E w \in gates : Exhausted(w) THEN "blocked"
      ELSE IF {"exhausted", "available"} \subseteq states
      THEN "partial-exhausted"
      ELSE IF "exhausted" \in states /\ "incomplete" \notin states
      THEN "all-exhausted"
      ELSE IF "incomplete" \in states THEN "incomplete" ELSE "normal"

-------------------------------------------------------------------------------
(* The rows of several keys *)

Successful(results) == {i \in DOMAIN results : ~results[i].failed}

\* quotaAggregationDimension
Dimension(w) ==
  IF w.unit # "" THEN w.unit
  ELSE IF Known(RemainingPercent(w)) \/ Flagged(w) THEN "percent"
  ELSE "unspecified"

Base(w) == <<w.key, w.scope, Dimension(w)>>

\* A row's bucket: its identity, and how many alike its result had before it.
Bucket(rows, j) ==
  <<Base(rows[j]), Cardinality({k \in 1..(j - 1) : Base(rows[k]) = Base(rows[j])})>>

Buckets(results) ==
  UNION {{Bucket(results[i].rows, j) : j \in DOMAIN results[i].rows} :
           i \in Successful(results)}

\* The rows in a bucket: a function from the results that have one.
Entries(results, b) ==
  LET Has(i) == \E j \in DOMAIN results[i].rows : Bucket(results[i].rows, j) = b
  IN  [i \in {k \in Successful(results) : Has(k)} |->
         results[i].rows[CHOOSE j \in DOMAIN results[i].rows :
                           Bucket(results[i].rows, j) = b]]

\* The total, remaining and progress of one row that stands for its bucket.
Nothing == [state |-> "finite", total |-> None, remaining |-> None,
            used |-> None, progress |-> None, low |-> None, high |-> None]

\* Account, organization and unknown allowances are shared: equal figures are
\* shown once, different ones as the range they span, and none is added.
SharedAllowance(entries, finite) ==
  LET progress == {Progress(entries[i]) : i \in finite}
      totals == {entries[i].total : i \in finite}
      remains == {QuotaRemaining(entries[i]) : i \in finite}
      one == entries[Min(finite)]
      known == progress \ {None}
  IN  IF Cardinality(totals) = 1 /\ (\A t \in totals : t > 0)
         /\ Cardinality(remains) = 1 /\ None \notin remains
      THEN [Nothing EXCEPT !.total = one.total, !.remaining = one.remaining,
                           !.used = one.used, !.progress = Progress(one)]
      ELSE IF Cardinality(progress) = 1 /\ None \notin progress
      THEN [Nothing EXCEPT !.progress = Progress(one)]
      ELSE [Nothing EXCEPT !.state = "range",
                           !.low = IF known = {} THEN None ELSE Min(known),
                           !.high = IF known = {} THEN None ELSE Max(known)]

\* A bug to be caught: the shares of boosted keys count like any other.
AddedUnweighted(entries, finite) ==
  [Nothing EXCEPT !.progress =
     SumFunction([i \in finite |-> AtLeast0(Or0(RemainingPercent(entries[i])))])
       \div Cardinality(finite)]

\* Allowances of keys are their own: totals and remains are added when every
\* row has both, percentages when every row has one, weighted with the
\* capacities when one of them is boosted or the figures were not enough.
AddedAllowance(entries, finite) ==
  LET left == [i \in finite |-> AtLeast0(Or0(QuotaRemaining(entries[i])))]
      pct == [i \in finite |-> AtLeast0(Or0(RemainingPercent(entries[i])))]
      capacity == [i \in finite |-> IF entries[i].capPct > 0
                                    THEN entries[i].capPct
                                    ELSE Max({100, pct[i]})]
      every == \A i \in finite : Known(QuotaRemaining(entries[i]))
      exact == every /\ \A i \in finite : entries[i].total > 0
      shares == \A i \in finite : Known(RemainingPercent(entries[i]))
      boosted == \E i \in finite : capacity[i] # 100
      total == SumFunction([i \in finite |-> entries[i].total])
      remaining == SumFunction(left)
      share == ShareOf(SumFunction(pct), SumFunction(capacity))
  IN  [Nothing EXCEPT
         !.total = IF exact THEN total ELSE None,
         !.remaining = IF every THEN remaining ELSE None,
         !.used = IF exact THEN AtLeast0(total - remaining) ELSE None,
         !.progress = IF shares /\ (~exact \/ boosted) THEN share
                      ELSE IF exact THEN ShareOf(remaining, total) ELSE None]

\* What aggregateQuotaWindows says of a bucket, with the count of each kind
\* of entry and of the results that have none.
Aggregate(results, b) ==
  LET entries == Entries(results, b)
      scope == b[1][2]
      present == DOMAIN entries
      Those(P(_)) == {i \in present : P(entries[i])}
      unavailable == Those(LAMBDA w : w.unavailable)
      unlimited == Those(LAMBDA w : w.unlimited /\ ~w.unavailable)
      finite == Those(Finite)
      unknown == present \ (unavailable \cup unlimited \cup finite)
      missing == Cardinality(Successful(results) \ present)
      failed == Len(results) - Cardinality(Successful(results))
      others == finite # {} \/ unavailable # {} \/ unknown # {}
                  \/ missing > 0 \/ failed > 0
      showing == {i \in unlimited : entries[i].showUsed}
      shown == {Or0(entries[i].used) : i \in showing}
      sum ==
        IF unlimited # {} /\ scope # "key" /\ others
        THEN [Nothing EXCEPT !.state = "mixed"]
        ELSE IF unlimited # {}
        THEN [Nothing EXCEPT
                !.state = "unlimited",
                !.used = IF showing = {} THEN None
                         ELSE IF scope = "key"
                         THEN SumFunction([i \in showing |-> entries[i].used])
                         ELSE Max(shown)]
        ELSE IF finite = {}
        THEN [Nothing EXCEPT !.state = IF unknown # {} \/ missing > 0
                                       THEN "unknown" ELSE "unavailable"]
        ELSE IF scope # "key" THEN SharedAllowance(entries, finite)
        ELSE AddedAllowance(entries, finite)
  IN  [sum |-> sum, finite |-> Cardinality(finite),
       unlimited |-> Cardinality(unlimited),
       unavailable |-> Cardinality(unavailable),
       unknown |-> Cardinality(unknown), missing |-> missing,
       failed |-> failed]

\* aggregateQuotaWindows
AggregateQuotaWindows(results) ==
  [b \in Buckets(results) |-> Aggregate(results, b)]

\* bundleSummaryMetrics for balances in one unit: those of keys are added,
\* those of accounts are shown as the range they span.
BalanceMetric(results, unit) ==
  LET with == {i \in Successful(results) :
                 \E m \in results[i].balance : m.unit = unit /\ m.amount >= 0}
      Amount(i) == LET m == CHOOSE x \in results[i].balance : x.unit = unit
                   IN  m.amount
      own == \A i \in with : \A m \in results[i].balance : m.scope = "key"
      amounts == {Amount(i) : i \in with}
  IN  IF with = {} THEN {}
      ELSE IF own THEN {MapThenSumSet(Amount, with)}
      ELSE {Min(amounts), Max(amounts)}
===============================================================================
