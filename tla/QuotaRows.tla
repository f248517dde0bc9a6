------------------------------- MODULE QuotaRows -------------------------------
(***************************************************************************)
(* The quota rows (balance.QuotaWindow) the providers' parsers make of     *)
(* what an API reports.  A figure is an integer or None when it is absent; *)
(* percentages are whole, so inputs are chosen whose shares are whole too. *)
(* A field that is zero is not on the wire (types.go: omitempty): to the   *)
(* page, zero and absent are the same.                                     *)
(***************************************************************************)
EXTENDS Integers, Sequences

None == -1000000

Known(x) == x # None

Or0(x) == IF Known(x) THEN x ELSE 0

AtLeast0(x) == IF x < 0 THEN 0 ELSE x

Least(x, y) == IF x < y THEN x ELSE y

Clamp(x, top) == Least(AtLeast0(x), top)

\* percentFromValues
Percent(part, whole) ==
  IF whole <= 0 THEN 0 ELSE Clamp((100 * part) \div whole, 100)

\* A row that reports nothing yet; key is its aggregation key, spent whether
\* its status says that it is used up.
Row(key, scope, unit) ==
  [key |-> key, scope |-> scope, unit |-> unit,
   used |-> 0, total |-> 0, remaining |-> 0,
   usedPct |-> 0, leftPct |-> 0, capPct |-> 0,
   unlimited |-> FALSE, unavailable |-> FALSE, unknown |-> FALSE,
   blocking |-> FALSE, showUsed |-> FALSE, spent |-> FALSE]

Unknown(row) == [row EXCEPT !.unknown = TRUE]

Unlimited(row) == [row EXCEPT !.unlimited = TRUE]

\* Used, remaining and a share of a whole.
Filled(row, used, total, remaining) ==
  [row EXCEPT !.used = used, !.total = total, !.remaining = remaining]

Shared(row, usedPct) ==
  [row EXCEPT !.usedPct = usedPct, !.leftPct = Clamp(100 - usedPct, 100),
              !.capPct = 100]

-------------------------------------------------------------------------------
(* glm.go *)

\* glmQuotaWindow: used from the total and the percentage, remaining from
\* the total and used, used from the total and remaining, in that order.
GLMQuotaWindow(l) ==
  LET total == IF l.usage > 0 THEN l.usage ELSE l.total
      pct == Clamp(l.percentage, 100)
      reported ==
        CASE Known(l.currentValue) -> AtLeast0(l.currentValue)
          [] ~Known(l.currentValue) /\ total > 0 /\ Known(l.percentage) ->
               (total * pct) \div 100
          [] OTHER -> None
      remaining ==
        CASE Known(l.remaining) -> AtLeast0(l.remaining)
          [] ~Known(l.remaining) /\ total > 0 /\ Known(reported) ->
               AtLeast0(total - reported)
          [] OTHER -> None
      used == IF ~Known(reported) /\ total > 0 /\ Known(remaining)
              THEN AtLeast0(total - remaining) ELSE reported
      row == Filled(Row(<<"glm", l.type, l.period>>, "key",
                        IF l.type = "TIME_LIMIT" THEN "times" ELSE "tokens"),
                    Or0(used), total, Or0(remaining))
  IN  CASE Known(l.percentage) -> Shared(row, pct)
        [] ~Known(l.percentage) /\ total > 0 /\ Known(remaining) ->
             Shared(row, 100 - Percent(remaining, total))
        [] ~Known(l.percentage) /\ total <= 0 /\ Known(remaining) -> row
        [] ~Known(l.percentage) /\ ~Known(remaining) -> Unknown(row)

\* appendGLMWeeklyUnlimitedIfMissing: a complete five hour row without a
\* weekly one stands for a plan without a weekly limit.
GLMRows(limits) ==
  LET rows == [i \in DOMAIN limits |-> GLMQuotaWindow(limits[i])]
      Tokens(i, period) ==
        limits[i].type = "TOKENS_LIMIT" /\ limits[i].period = period
      fiveHour == \E i \in DOMAIN limits : Tokens(i, "5h") /\ ~rows[i].unknown
      weekly == \E i \in DOMAIN limits : Tokens(i, "week")
  IN  IF fiveHour /\ ~weekly
      THEN Append(rows, Unlimited(Row(<<"glm", "TOKENS_LIMIT", "week">>,
                                      "key", "tokens")))
      ELSE rows

-------------------------------------------------------------------------------
(* minimax.go *)

\* miniMaxWindow, for the interval or the weekly part w of a model.  A boost
\* is in permille, and it stretches the row's capacity.
MiniMaxWindow(model, weekly, w, unavailable) ==
  LET boost == IF Known(w.boost) THEN AtLeast0(w.boost) ELSE 1000
      capacity == IF boost <= 0 THEN 100 ELSE boost \div 10
      row == [Row(<<"minimax", model, weekly>>, "key", "times")
                EXCEPT !.total = w.total, !.capPct = capacity]
      counted == Known(w.count)
      remaining == Clamp(Or0(w.count), w.total)
      Left(row1, left) ==
        [row1 EXCEPT !.leftPct = left, !.usedPct = AtLeast0(capacity - left)]
      counting == w.total > 0 /\ counted
      left == IF counting
              THEN Clamp((remaining * 100 * boost) \div (w.total * 1000), 200)
              ELSE Clamp((w.pct * boost) \div 1000, 200)
  IN  IF unavailable THEN [row EXCEPT !.unavailable = TRUE]
      ELSE IF ~w.present THEN Unknown(row)
      ELSE IF weekly /\ w.status = 3 THEN Unlimited(row)
      ELSE IF w.status = 2
      THEN [Left(row, 0) EXCEPT !.used = AtLeast0(w.total), !.spent = TRUE]
      ELSE IF counting
      THEN [Left(row, left) EXCEPT !.remaining = remaining,
                                   !.used = AtLeast0(w.total - remaining),
                                   !.spent = remaining <= 0]
      ELSE IF ~Known(w.pct) /\ w.total <= 0 /\ Or0(w.count) <= 0
      THEN Unknown(row)
      ELSE IF Known(w.pct) THEN [Left(row, left) EXCEPT !.spent = left <= 0]
      ELSE [row EXCEPT !.remaining = AtLeast0(Or0(w.count))]

\* parseMiniMaxQuota: two rows for each model; no model, no quota.
MiniMaxRows(models) ==
  LET Absent(m) == /\ m.interval.total = 0 /\ m.weekly.total = 0
                   /\ m.interval.status = 3 /\ m.weekly.status = 3
      RowAt(i) == LET m == models[(i + 1) \div 2]
                  IN  IF i % 2 = 1
                      THEN MiniMaxWindow(m.name, FALSE, m.interval, Absent(m))
                      ELSE MiniMaxWindow(m.name, TRUE, m.weekly, Absent(m))
  IN  IF models = <<>>
      THEN <<[Row(<<"Token-Plan", "current">>, "key", "")
                EXCEPT !.unavailable = TRUE]>>
      ELSE [i \in 1..(2 * Len(models)) |-> RowAt(i)]

-------------------------------------------------------------------------------
(* sub2api.go *)

\* quotaWindowFromMap: of used and remaining that disagree, the one that
\* leaves less counts.
QuotaWindowFromMap(row, total, used, remaining) ==
  LET someFigure == Known(total) \/ Known(used) \/ Known(remaining)
      usedIn == Clamp(used, total)
      leftByUsed == total - usedIn
      left == CASE Known(used) /\ Known(remaining) ->
                     Least(Clamp(remaining, total), leftByUsed)
                [] ~Known(used) -> Clamp(remaining, total)
                [] Known(used) /\ ~Known(remaining) -> leftByUsed
  IN  IF ~someFigure THEN Unknown(row)
      ELSE IF ~Known(total) \/ total <= 0
      THEN Unknown(Filled(row, AtLeast0(Or0(used)), AtLeast0(Or0(total)),
                          AtLeast0(Or0(remaining))))
      ELSE IF ~Known(used) /\ ~Known(remaining)
      THEN Unknown(Filled(row, 0, total, 0))
      ELSE [Shared(Filled(row, total - left, total, left),
                   Percent(total - left, total))
              EXCEPT !.spent = left <= 0]

\* appendSubscriptionWindow: a limit of zero is no limit.
SubscriptionWindow(period, used, limit) ==
  LET row == Row(<<"sub2api", period>>, "account", "usd")
      spent == Clamp(used, limit)
  IN  IF ~Known(limit) \/ limit < 0 THEN Unknown(row)
      ELSE IF limit = 0 THEN Unlimited(row)
      ELSE IF ~Known(used) THEN Unknown(Filled(row, 0, limit, 0))
      ELSE Shared(Filled(row, spent, limit, limit - spent),
                  Percent(spent, limit))

\* The rows of parseSub2APIUsage: the key's quota and its rate limits, and
\* the subscription of the account.
Sub2APIRows(d) ==
  [i \in DOMAIN d.limits |->
     QuotaWindowFromMap(Row(<<"sub2api", d.limits[i].window>>, "key", "usd"),
                        d.limits[i].total, d.limits[i].used,
                        d.limits[i].remaining)]
  \o [i \in DOMAIN d.subscription |->
        SubscriptionWindow(d.subscription[i].period, d.subscription[i].used,
                           d.subscription[i].limit)]

-------------------------------------------------------------------------------
(* newapi.go *)

\* newAPIQuotaConverter: the site's display settings turn its internal units
\* into money; without usable ones the figures stay as they are.
Converted(status, x) ==
  LET rate == CASE status.display = "CNY" -> status.usdRate
                [] status.display = "CUSTOM" -> status.customRate
                [] status.display = "USD" -> 1
                [] OTHER -> 0
  IN  IF status.success /\ status.perUnit > 0 /\ rate > 0
      THEN (x \div status.perUnit) * rate ELSE x

UnitOf(status) ==
  CASE ~status.success \/ status.perUnit <= 0 -> "internal"
    [] status.success /\ status.perUnit > 0 ->
         CASE status.display = "USD" -> "usd"
           [] status.display = "CNY" /\ status.usdRate > 0 -> "cny"
           [] status.display = "CUSTOM" /\ status.customRate > 0 -> "custom"
           [] status.display = "TOKENS" -> "tokens"
           [] OTHER -> "internal"

\* The largest number the program can represent (that of a float64).
MaxFloat == 100000

Representable(x) == -MaxFloat <= x /\ x <= MaxFloat

\* parseNewAPITokenUsage fails on a figure that conversion takes out of range.
NewAPIFits(d, status) ==
  \A x \in {d.granted, Or0(d.used), d.available} : Representable(Converted(status, x))

\* The row of parseNewAPITokenUsage.
NewAPIRow(d, status) ==
  LET row == Row(<<"newapi", "key">>, "key", UnitOf(status))
      total == Converted(status, d.granted)
      used == Converted(status, Or0(d.used))
  IN  IF d.unlimited
      THEN [Unlimited(Filled(row, used, 0, 0)) EXCEPT !.showUsed = Known(d.used)]
      ELSE LET finite == Filled(row, used, total,
                                Converted(status, d.available))
           IN  IF total > 0 THEN Shared(finite, Percent(used, total))
               ELSE finite

\* A hard limit of this many dollars is the site's way to say unlimited
\* (100000000 in the code).
NoHardLimit == 1000

LegacyLimit(d) ==
  IF d.hard > 0 THEN d.hard ELSE IF d.system > 0 THEN d.system ELSE d.soft

\* fetchLegacyBilling fails when the figures are out of range, as what remains
\* may be when the usage is negative.
NewAPILegacyFits(d) ==
  LET used == d.cents \div 100
  IN  \A x \in {LegacyLimit(d), used, AtLeast0(LegacyLimit(d) - used)} : Representable(x)

\* The row of fetchLegacyBilling: usage comes in cents.
NewAPILegacyRow(d) ==
  LET limit == LegacyLimit(d)
      used == d.cents \div 100
      unlimited == limit = NoHardLimit
      total == IF unlimited THEN 0 ELSE limit
      usedPct == Percent(used, total)
      row == Filled(Row(<<"newapi", "legacy">>, "unknown", "site"),
                    used, total,
                    IF unlimited THEN 0 ELSE AtLeast0(limit - used))
  IN  [row EXCEPT !.usedPct = usedPct, !.leftPct = 100 - usedPct,
                  !.unlimited = unlimited, !.showUsed = unlimited,
                  !.capPct = IF total > 0 THEN 100 ELSE 0]

-------------------------------------------------------------------------------
(* kimi.go *)

\* kimiQuotaWindowBase, and that the row gates the others.
KimiRow(name) ==
  [Row(<<"kimi", name>>, "account", "") EXCEPT !.blocking = TRUE]

\* kimiQuotaWindow; no row is <<>>.  The row carries percentages only.
KimiQuotaWindow(name, limit, used) ==
  LET total == Or0(limit)
      left == Percent(total - Clamp(Or0(used), total), total)
      usedPct == IF total <= 0 THEN 0 ELSE 100 - left
  IN  IF ~Known(limit) /\ ~Known(used) THEN <<>>
      ELSE <<[Shared(KimiRow(name), usedPct)
                EXCEPT !.spent = total > 0 /\ left <= 0]>>

\* kimiTotalQuotaWindow: of used and remaining that disagree, the one that
\* leaves less counts.
KimiTotalQuotaWindow(limit, used, remaining) ==
  LET byUsed == limit - Clamp(used, limit)
      byRemaining == Clamp(remaining, limit)
      left == CASE ~Known(used) /\ ~Known(remaining) -> limit
                [] Known(used) /\ ~Known(remaining) -> byUsed
                [] ~Known(used) /\ Known(remaining) -> byRemaining
                [] Known(used) /\ Known(remaining) -> Least(byRemaining, byUsed)
  IN  IF ~Known(limit) \/ limit <= 0 THEN <<>>
      ELSE <<[Shared(KimiRow("total"), 100 - Percent(left, limit))
                EXCEPT !.spent = left <= 0]>>

\* kimiFixedPointDollars, in cents: raw is in tenths of a cent, and a
\* positive amount is at least one cent.
KimiCents(raw) == IF raw > 0 /\ raw < 10 THEN 1 ELSE (raw + 5) \div 10

\* parseKimiBoosterWallet: the bought balance and its monthly cap.
KimiBoosterRows(w) ==
  LET total == KimiCents(w.amount)
      remaining == IF Known(w.left) THEN Clamp(KimiCents(w.left), total) ELSE 0
      capped == w.enabled /\ Known(w.cap) /\ w.cap > 0
      atCap == capped /\ Known(w.monthUsed) /\ w.monthUsed >= w.cap
      wallet == Filled(Row(<<"kimi", "booster">>, "account", "usd"),
                       total - remaining, total, remaining)
      month == Row(<<"kimi", "month">>, "account", "usd")
      used == Or0(w.monthUsed)
  IN  IF ~Known(w.amount) \/ w.amount <= 0 THEN <<>>
      ELSE << [Shared(wallet, Percent(total - remaining, total))
                 EXCEPT !.leftPct = Percent(remaining, total),
                        !.spent = remaining <= 0 \/ atCap],
              IF capped
              THEN Shared(Filled(month, used, w.cap, AtLeast0(w.cap - used)),
                          Percent(used, w.cap))
              ELSE [Unlimited([month EXCEPT !.used = used])
                      EXCEPT !.showUsed = TRUE] >>

\* normalizeKimiUsage: what the top level of an answer lacks may stand in its
\* "data" member, field by field.
NormalizeKimiUsage(top, data) ==
  LET HasUsage(r) == Known(r.limit) \/ Known(r.used)
      HasQuota(r) == HasUsage(r) \/ Known(r.remaining)
      HasBooster(w) == Known(w.amount) /\ w.amount > 0
      Pick(Has(_), t, n) == IF ~Has(t) /\ Has(n) THEN n ELSE t
  IN  [week    |-> Pick(HasUsage, top.week, data.week),
       all     |-> Pick(HasQuota, top.all, data.all),
       rolling |-> Pick(HasUsage, top.rolling, data.rolling),
       booster |-> Pick(HasBooster, top.booster, data.booster)]

\* parseKimiUsage: the week, the membership, the rolling limits, the booster.
KimiRows(d) ==
  KimiQuotaWindow("week", d.week.limit, d.week.used)
  \o KimiTotalQuotaWindow(d.all.limit, d.all.used, d.all.remaining)
  \o KimiQuotaWindow("rolling", d.rolling.limit, d.rolling.used)
  \o KimiBoosterRows(d.booster)
===============================================================================
