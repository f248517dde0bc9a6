--------------------------- MODULE ProviderViewProofs ---------------------------
(***************************************************************************)
(* Proofs about the quota rows and what the page makes of them, for any    *)
(* figures and any number of keys: the page reads in a row what its parser *)
(* computed, a summary counts every key once, what belongs to an account   *)
(* is never added up, and no share of several keys is outside their own.   *)
(***************************************************************************)
EXTENDS ProviderView, ProviderFetchProofs, FiniteSetTheorems, TLAPS

-------------------------------------------------------------------------------
(* Rows *)

\* A clamped figure is within its bounds.
LEMMA ClampInRange ==
  ASSUME NEW x \in Int, NEW top \in Nat
  PROVE  Clamp(x, top) \in 0..top
BY DEF Clamp, Least, AtLeast0

\* A share is a percentage, whatever the figures.
LEMMA PercentInRange ==
  ASSUME NEW part \in Int, NEW whole \in Int
  PROVE  Percent(part, whole) \in 0..100
<1>1. CASE whole <= 0
  BY <1>1 DEF Percent
<1>2. CASE whole > 0
  <2>1. (100 * part) \div whole \in Int
    BY <1>2
  <2>2. Clamp((100 * part) \div whole, 100) \in 0..100
    BY <2>1, ClampInRange
  <2>3. QED BY <1>2, <2>2 DEF Percent
<1>3. QED BY <1>1, <1>2

\* What a provider's share says is what the page shows, although every zero
\* is lost on the way: the bar of a row with a usual capacity is the share
\* that is left, and it is exhausted exactly when nothing is left.
THEOREM SharesReadBack ==
  ASSUME NEW key, NEW scope, NEW unit,
         NEW used \in Int, NEW total \in Int, NEW remaining \in Int,
         NEW p \in 0..100
  PROVE  LET w == Shared(Filled(Row(key, scope, unit), used, total, remaining), p)
         IN  Progress(w) = 100 - p /\ (Exhausted(w) <=> p = 100)
<1> DEFINE w == Shared(Filled(Row(key, scope, unit), used, total, remaining), p)
<1>1. /\ w.usedPct = p /\ w.leftPct = 100 - p /\ w.capPct = 100
      /\ w.total = total /\ w.used = used /\ w.remaining = remaining
      /\ ~w.unlimited /\ ~w.unavailable /\ ~w.unknown /\ ~w.spent
  BY DEF Shared, Filled, Row, Clamp, Least, AtLeast0
<1> HIDE DEF w
<1>2. RemainingPercent(w) = 100 - p
  BY <1>1 DEF RemainingPercent, QuotaPercent, Known, Clamp, Least, AtLeast0, None
<1>3. Progress(w) = 100 - p
  BY <1>1, <1>2 DEF Progress, ShareOf, Known, None
<1>4. Exhausted(w) <=> p = 100
  BY <1>1, <1>3 DEF Exhausted, Flagged, Known, None
<1>5. QED BY <1>3, <1>4 DEF w

\* Of figures that disagree the lower remainder counts, and the row is
\* consistent again: used and remaining make up the total.
THEOREM MapFiguresAgree ==
  ASSUME NEW key, NEW scope, NEW unit, NEW total \in Nat \ {0},
         NEW used \in Int, NEW remaining \in Int,
         Known(used) \/ Known(remaining)
  PROVE  LET w == QuotaWindowFromMap(Row(key, scope, unit), total, used, remaining)
         IN  /\ w.used + w.remaining = total
             /\ w.remaining \in 0..total
             /\ Known(remaining) => w.remaining <= AtLeast0(remaining)
             /\ Known(used) => w.remaining <= AtLeast0(total - used)
<1> DEFINE usedIn == Clamp(used, total)
           leftByUsed == total - usedIn
           left == CASE Known(used) /\ Known(remaining) ->
                          Least(Clamp(remaining, total), leftByUsed)
                     [] ~Known(used) -> Clamp(remaining, total)
                     [] Known(used) /\ ~Known(remaining) -> leftByUsed
           row == Row(key, scope, unit)
           w == QuotaWindowFromMap(row, total, used, remaining)
<1>1. /\ left \in 0..total
      /\ Known(remaining) => left <= AtLeast0(remaining)
      /\ Known(used) => left <= AtLeast0(total - used)
  BY DEF Clamp, Least, AtLeast0, Known, None
<1>2. Known(total) /\ total > 0
  BY DEF Known, None
<1>3. w = [Shared(Filled(row, total - left, total, left), Percent(total - left, total))
             EXCEPT !.spent = left <= 0]
  BY <1>2 DEF QuotaWindowFromMap
<1> HIDE DEF left
<1>4. w.used = total - left /\ w.remaining = left
  BY <1>3 DEF Shared, Filled, Row
<1>5. QED BY <1>1, <1>4

-------------------------------------------------------------------------------
(* What a row says and what the page reads in it *)

\* The figures of a row are numbers, its share is not negative, and more than
\* the usual capacity is left only of a row with a capacity of its own.
Measured(w) ==
  /\ {w.used, w.total, w.remaining} \subseteq Int
  /\ w.usedPct \in Nat /\ w.leftPct \in Nat /\ w.capPct \in Nat
  /\ w.capPct = 0 => w.leftPct <= 100

\* RowsReadBack of one row, and that it is a row of numbers.
ReadsBack(w) ==
  /\ (~Flagged(w) /\ w.usedPct + w.leftPct > 0 /\ w.capPct >= 100) =>
       /\ Progress(w) = ShareOf(w.leftPct, w.capPct)
       /\ Exhausted(w) <=> (w.spent \/ w.leftPct = 0)
  /\ w.blocking => (Exhausted(w) <=> (w.leftPct = 0 \/ w.spent))
  /\ ~Flagged(w) => Measured(w)

\* How a share compares with k percent: what is left decides about the first
\* percent, the exact proportion about any other.
LEMMA ShareBounds ==
  ASSUME NEW part \in Nat, NEW whole \in Nat \ {0}
  PROVE  /\ ShareOf(part, whole) \in Nat
         /\ ShareOf(part, whole) = 0 <=> part = 0
         /\ \A k \in Int :
              k >= 2 => (k <= ShareOf(part, whole) <=> k * whole <= 100 * part)
<1> DEFINE q == (part * 100) \div whole
           r == (part * 100) % whole
<1>1. q \in Int /\ r \in 0..(whole - 1) /\ part * 100 = (whole * q) + r
  OBVIOUS
<1> HIDE DEF q, r
<1>2. q >= 0
  <2> SUFFICES ASSUME q <= -1 PROVE FALSE
    BY <1>1
  <2>1. whole * q <= whole * (-1)
    BY <1>1
  <2>2. QED BY <1>1, <2>1
<1>3. \A k \in Int : k <= q <=> k * whole <= 100 * part
  <2> SUFFICES ASSUME NEW k \in Int PROVE k <= q <=> k * whole <= 100 * part
    OBVIOUS
  <2>1. CASE k <= q
    <3>1. whole * k <= whole * q
      BY <1>1, <2>1
    <3>2. QED BY <1>1, <2>1, <3>1
  <2>2. CASE k >= q + 1
    <3>1. whole * (q + 1) <= whole * k
      BY <1>1, <2>2
    <3>2. QED BY <1>1, <2>2, <3>1
  <2>3. QED BY <1>1, <2>1, <2>2
<1>4. CASE part > 0 /\ part * 100 < whole
  <2>1. ShareOf(part, whole) = 1
    BY <1>4 DEF ShareOf
  <2>2. ASSUME NEW k \in Int, k >= 2 PROVE ~(k * whole <= 100 * part)
    <3>1. whole * k >= whole * 2
      BY <2>2
    <3>2. QED BY <1>4, <2>2, <3>1
  <2>3. QED BY <1>4, <2>1, <2>2
<1>5. CASE ~(part > 0 /\ part * 100 < whole)
  <2>1. ShareOf(part, whole) = q
    BY <1>5 DEF ShareOf, q
  <2>2. q = 0 <=> part = 0
    <3>1. 1 <= q <=> 1 * whole <= 100 * part
      BY <1>3
    <3>2. QED BY <1>1, <1>2, <1>5, <3>1
  <2>3. QED BY <1>1, <1>2, <1>3, <2>1, <2>2
<1>6. QED BY <1>4, <1>5

\* A share and its complement, or a share that is gone and says so, are read
\* back as they were computed.
LEMMA ShareReads ==
  ASSUME NEW w, Measured(w), w.capPct >= 100, ~Flagged(w),
         w.leftPct = 0 => w.usedPct >= 100
  PROVE  ReadsBack(w)
<1> USE DEF Measured
<1>1. RemainingPercent(w) = w.leftPct
  <2>1. CASE w.leftPct = 0
    BY <2>1 DEF RemainingPercent, QuotaPercent, Known, Clamp, Least, AtLeast0, None
  <2>2. CASE w.leftPct # 0
    BY <2>2 DEF RemainingPercent
  <2>3. QED BY <2>1, <2>2
<1>2. Progress(w) = ShareOf(w.leftPct, w.capPct)
  BY <1>1 DEF Progress, Known, None
<1>3. Progress(w) \in Nat /\ (Progress(w) = 0 <=> w.leftPct = 0)
  BY <1>2, ShareBounds
<1>4. Exhausted(w) <=> (w.spent \/ w.leftPct = 0)
  BY <1>3 DEF Exhausted, Known, None
<1>5. QED BY <1>2, <1>4 DEF ReadsBack

\* A row without a share, or without a meaning for one, says nothing of it.
LEMMA NoShareReads ==
  ASSUME NEW w, ~w.blocking,
         \/ Flagged(w)
         \/ Measured(w) /\ (w.usedPct + w.leftPct = 0 \/ w.capPct = 0)
  PROVE  ReadsBack(w)
BY DEF ReadsBack

\* A share of the usual capacity is read back.
LEMMA SharedReads ==
  ASSUME NEW w, NEW p \in 0..100, w.usedPct = p, w.leftPct = 100 - p,
         w.capPct = 100, ~Flagged(w),
         {w.used, w.total, w.remaining} \subseteq Int
  PROVE  ReadsBack(w)
<1>1. /\ Measured(w) /\ w.capPct >= 100
      /\ (w.leftPct = 0 => w.usedPct >= 100)
  BY DEF Measured
<1>2. QED BY <1>1, ShareReads

-------------------------------------------------------------------------------
(* The rows of each provider *)

\* glm.go: the row of a limit reads back, whatever figures it reports.
LEMMA GLMReads ==
  ASSUME NEW l, LimitFigures(l) \subseteq Int
  PROVE  ReadsBack(GLMQuotaWindow(l))
<1> DEFINE total == IF l.usage > 0 THEN l.usage ELSE l.total
           pct == Clamp(l.percentage, 100)
           reported ==
             CASE Known(l.currentValue) -> AtLeast0(l.currentValue)
               [] ~Known(l.currentValue) /\ total > 0 /\ Known(l.percentage) ->
                    (total * pct) \div 100
               [] OTHER -> None
           remaining ==
             CASE Known(l.remaining) -> AtLeast0(l.remaining)
               [] ~Known(l.remaining) /\ total > 0 /\ Known(reported) ->
                    AtLeast0(total - reported)
               [] OTHER -> None
           used == IF ~Known(reported) /\ total > 0 /\ Known(remaining)
                   THEN AtLeast0(total - remaining) ELSE reported
           row == Filled(Row(<<"glm", l.type, l.period>>, "key",
                             IF l.type = "TIME_LIMIT" THEN "times" ELSE "tokens"),
                         Or0(used), total, Or0(remaining))
<1>1. /\ l.percentage \in Int /\ l.usage \in Int /\ l.total \in Int
      /\ l.remaining \in Int /\ l.currentValue \in Int
  BY DEF LimitFigures
<1>2. total \in Int /\ pct \in 0..100
  BY <1>1, ClampInRange
<1> HIDE DEF total, pct
<1>3. reported \in Int
  BY <1>1, <1>2 DEF AtLeast0, None
<1> HIDE DEF reported
<1>4. remaining \in Int
  BY <1>1, <1>2, <1>3 DEF AtLeast0, None
<1> HIDE DEF remaining
<1>4a. used \in Int /\ Or0(used) \in Int /\ Or0(remaining) \in Int
  BY <1>2, <1>3, <1>4 DEF AtLeast0, Or0
<1> HIDE DEF used
<1>5. GLMQuotaWindow(l) =
        CASE Known(l.percentage) -> Shared(row, pct)
          [] ~Known(l.percentage) /\ total > 0 /\ Known(remaining) ->
               Shared(row, 100 - Percent(remaining, total))
          [] ~Known(l.percentage) /\ total <= 0 /\ Known(remaining) -> row
          [] ~Known(l.percentage) /\ ~Known(remaining) -> Unknown(row)
  BY Zenon DEF GLMQuotaWindow, total, pct, reported, remaining, used
<1>6. ASSUME NEW p \in 0..100 PROVE ReadsBack(Shared(row, p))
  <2> DEFINE w == Shared(row, p)
  <2>1. /\ w.usedPct = p /\ w.leftPct = 100 - p /\ w.capPct = 100
        /\ ~w.unlimited /\ ~w.unavailable /\ ~w.unknown
        /\ w.used = Or0(used) /\ w.total = total /\ w.remaining = Or0(remaining)
    BY DEF Shared, Filled, Row, Clamp, Least, AtLeast0
  <2> HIDE DEF w
  <2>2. ReadsBack(w)
    BY <1>2, <1>4a, <2>1, SharedReads DEF Flagged
  <2>3. QED BY <2>2 DEF w
<1>7. ReadsBack(row)
  <2>1. ~row.blocking /\ row.usedPct + row.leftPct = 0 /\ Measured(row)
    BY <1>2, <1>4a DEF Filled, Row, Measured
  <2> HIDE DEF row
  <2>2. QED BY <2>1, NoShareReads
<1>8. ReadsBack(Unknown(row))
  <2>1. ~Unknown(row).blocking /\ Flagged(Unknown(row))
    BY DEF Unknown, Filled, Row, Flagged
  <2>2. QED BY <2>1, NoShareReads
<1>9. 100 - Percent(remaining, total) \in 0..100
  <2>1. Percent(remaining, total) \in 0..100
    BY <1>2, <1>4, PercentInRange
  <2>2. QED BY <2>1
<1> HIDE DEF row
<1>10. QED BY <1>2, <1>5, <1>6, <1>7, <1>8, <1>9

\* minimax.go: so does the row of the interval or the weekly part of a model.
LEMMA MiniMaxReads ==
  ASSUME NEW model, NEW weekly, NEW w, PartFigures(w),
         NEW unavailable \in BOOLEAN
  PROVE  ReadsBack(MiniMaxWindow(model, weekly, w, unavailable))
<1> DEFINE boost == IF Known(w.boost) THEN AtLeast0(w.boost) ELSE 1000
           capacity == IF boost <= 0 THEN 100 ELSE boost \div 10
           row == [Row(<<"minimax", model, weekly>>, "key", "times")
                     EXCEPT !.total = w.total, !.capPct = capacity]
           counted == Known(w.count)
           remaining == Clamp(Or0(w.count), w.total)
           Left(row1, x) ==
             [row1 EXCEPT !.leftPct = x, !.usedPct = AtLeast0(capacity - x)]
           counting == w.total > 0 /\ counted
           left == IF counting
                   THEN Clamp((remaining * 100 * boost) \div (w.total * 1000), 200)
                   ELSE Clamp((w.pct * boost) \div 1000, 200)
           spent == [Left(row, 0) EXCEPT !.used = AtLeast0(w.total), !.spent = TRUE]
           counts == [Left(row, left) EXCEPT !.remaining = remaining,
                                             !.used = AtLeast0(w.total - remaining),
                                             !.spent = remaining <= 0]
           share == [Left(row, left) EXCEPT !.spent = left <= 0]
           rest == [row EXCEPT !.remaining = AtLeast0(Or0(w.count))]
           out == MiniMaxWindow(model, weekly, w, unavailable)
<1> SUFFICES ReadsBack(out)
  OBVIOUS
<1>1. w.total \in Int /\ w.count \in Int /\ w.pct \in Int /\ w.boost \in Int
  BY DEF PartFigures
<1>2. boost \in Nat /\ capacity \in Nat \ {0}
  <2>1. boost \in Nat /\ (boost = 0 \/ boost >= 10)
    BY <1>1 DEF AtLeast0, PartFigures
  <2> HIDE DEF boost
  <2>2. QED BY <2>1
<1> HIDE DEF boost, capacity
<1>3. left \in 0..200
  <2>1. CASE counting
    <3>1. remaining \in Int
      BY <1>1 DEF Clamp, Least, AtLeast0, Or0
    <3> HIDE DEF remaining
    <3>2. remaining * 100 * boost \in Int
      BY <1>2, <3>1
    <3>3. w.total * 1000 \in Int /\ w.total * 1000 > 0
      BY <1>1, <2>1
    <3>4. (remaining * 100 * boost) \div (w.total * 1000) \in Int
      BY <3>2, <3>3
    <3>5. Clamp((remaining * 100 * boost) \div (w.total * 1000), 200) \in 0..200
      BY <3>4, ClampInRange
    <3>6. QED BY <2>1, <3>5
  <2>2. CASE ~counting
    <3>1. w.pct * boost \in Int
      BY <1>1, <1>2
    <3>2. (w.pct * boost) \div 1000 \in Int
      BY <3>1
    <3>3. Clamp((w.pct * boost) \div 1000, 200) \in 0..200
      BY <3>2, ClampInRange
    <3>4. QED BY <2>2, <3>3
  <2>3. QED BY <2>1, <2>2
<1> HIDE DEF left
<1>4. out = IF unavailable THEN [row EXCEPT !.unavailable = TRUE]
            ELSE IF ~w.present THEN Unknown(row)
            ELSE IF weekly /\ w.status = 3 THEN Unlimited(row)
            ELSE IF w.status = 2 THEN spent
            ELSE IF counting THEN counts
            ELSE IF ~Known(w.pct) /\ w.total <= 0 /\ Or0(w.count) <= 0
            THEN Unknown(row)
            ELSE IF Known(w.pct) THEN share ELSE rest
  BY Zenon DEF MiniMaxWindow, boost, capacity, left
<1>5. CASE unavailable
  <2>1. out = [row EXCEPT !.unavailable = TRUE]
    BY <1>4, <1>5, Zenon
  <2> HIDE DEF out
  <2>2. ~out.blocking /\ Flagged(out)
    BY <2>1 DEF Row, Flagged
  <2>3. QED BY <2>2, NoShareReads
<1>6. CASE out = Unknown(row) \/ out = Unlimited(row)
  <2> HIDE DEF out
  <2>1. ~out.blocking /\ Flagged(out)
    BY <1>6 DEF Row, Flagged, Unknown, Unlimited
  <2>2. QED BY <2>1, NoShareReads
<1>7. CASE out = rest
  <2> HIDE DEF out
  <2>1. AtLeast0(Or0(w.count)) \in Int
    BY <1>1 DEF AtLeast0, Or0
  <2>2. ~out.blocking /\ out.usedPct + out.leftPct = 0 /\ Measured(out)
    BY <1>1, <1>2, <1>7, <2>1 DEF Row, Measured
  <2>3. QED BY <2>2, NoShareReads
<1>8. ASSUME NEW x \in 0..200, out.leftPct = x, out.capPct = capacity,
             out.usedPct = AtLeast0(capacity - x),
             ~out.blocking, ~Flagged(out),
             {out.used, out.total, out.remaining} \subseteq Int
      PROVE  ReadsBack(out)
  <2> HIDE DEF out
  <2>1. Measured(out)
    BY <1>2, <1>8 DEF Measured, AtLeast0
  <2>2. CASE capacity >= 100
    <3>1. x = 0 => out.usedPct >= 100
      BY <1>2, <1>8, <2>2 DEF AtLeast0
    <3>2. QED BY <1>2, <1>8, <2>1, <2>2, <3>1, ShareReads
  <2>3. CASE capacity < 100
    BY <1>2, <1>8, <2>1, <2>3 DEF ReadsBack
  <2>4. QED BY <1>2, <2>2, <2>3
<1>9. CASE out = spent
  <2> HIDE DEF out
  <2>1. /\ out.leftPct = 0 /\ out.capPct = capacity
        /\ out.usedPct = AtLeast0(capacity - 0) /\ ~out.blocking /\ ~Flagged(out)
        /\ out.used = AtLeast0(w.total) /\ out.total = w.total /\ out.remaining = 0
    BY <1>9 DEF Row, Flagged
  <2>2. AtLeast0(w.total) \in Int
    BY <1>1 DEF AtLeast0
  <2>3. QED BY <1>1, <1>8, <2>1, <2>2
<1>10. CASE out = counts \/ out = share
  <2>1. remaining \in Int /\ AtLeast0(w.total - remaining) \in Int
    BY <1>1 DEF Clamp, Least, AtLeast0, Or0
  <2> HIDE DEF out, remaining
  <2>2. /\ out.leftPct = left /\ out.capPct = capacity
        /\ out.usedPct = AtLeast0(capacity - left) /\ ~out.blocking /\ ~Flagged(out)
        /\ {out.used, out.total, out.remaining} \subseteq Int
    <3>1. CASE out = share
      BY <1>1, <3>1 DEF Row, Flagged
    <3>2. CASE out = counts
      BY <1>1, <2>1, <3>2 DEF Row, Flagged
    <3>3. QED BY <1>10, <3>1, <3>2
  <2>3. QED BY <1>3, <1>8, <2>2
<1> HIDE DEF out, row, remaining, counting, spent, counts, share, rest
<1>11. QED BY <1>4, <1>5, <1>6, <1>7, <1>9, <1>10

\* sub2api.go: so does the row of a key's quota or rate limit ...
LEMMA Sub2APIReads ==
  ASSUME NEW key, NEW unit, NEW scope,
         NEW total \in Int, NEW used \in Int, NEW remaining \in Int
  PROVE  ReadsBack(QuotaWindowFromMap(Row(key, scope, unit), total, used, remaining))
<1> DEFINE row == Row(key, scope, unit)
           leftByUsed == total - Clamp(used, total)
           left == CASE Known(used) /\ Known(remaining) ->
                          Least(Clamp(remaining, total), leftByUsed)
                     [] ~Known(used) -> Clamp(remaining, total)
                     [] Known(used) /\ ~Known(remaining) -> leftByUsed
           p == Percent(total - left, total)
           out == QuotaWindowFromMap(row, total, used, remaining)
           share == [Shared(Filled(row, total - left, total, left), p)
                       EXCEPT !.spent = left <= 0]
           bare == Unknown(Filled(row, AtLeast0(Or0(used)), AtLeast0(Or0(total)),
                                  AtLeast0(Or0(remaining))))
           whole == Unknown(Filled(row, 0, total, 0))
<1> SUFFICES ReadsBack(out)
  OBVIOUS
<1>1. p \in 0..100 /\ left \in Int /\ total - left \in Int
  <2>1. left \in Int
    BY DEF Clamp, Least, AtLeast0, Known
  <2> HIDE DEF left
  <2>2. QED BY <2>1, PercentInRange
<1> HIDE DEF p, left
<1>2. out \in {Unknown(row), bare, whole, share}
  BY Zenon DEF QuotaWindowFromMap, p, left
<1>3. CASE out = share
  <2> HIDE DEF out
  <2>1. /\ out.usedPct = p /\ out.leftPct = 100 - p /\ out.capPct = 100
        /\ out.used = total - left /\ out.total = total /\ out.remaining = left
        /\ ~Flagged(out)
    BY <1>1, <1>3 DEF Shared, Filled, Row, Flagged, Clamp, Least, AtLeast0
  <2>2. QED BY <1>1, <2>1, SharedReads
<1>4. CASE out \in {Unknown(row), bare, whole}
  <2> HIDE DEF out
  <2>1. ~out.blocking /\ Flagged(out)
    BY <1>4 DEF Unknown, Filled, Row, Flagged
  <2>2. QED BY <2>1, NoShareReads
<1>5. QED BY <1>2, <1>3, <1>4

\* ... and that of a subscription of its account.
LEMMA SubscriptionReads ==
  ASSUME NEW period, NEW used \in Int, NEW limit \in Int
  PROVE  ReadsBack(SubscriptionWindow(period, used, limit))
<1> DEFINE row == Row(<<"sub2api", period>>, "account", "usd")
           spent == Clamp(used, limit)
           p == Percent(spent, limit)
           out == SubscriptionWindow(period, used, limit)
           share == Shared(Filled(row, spent, limit, limit - spent), p)
           whole == Unknown(Filled(row, 0, limit, 0))
<1> SUFFICES ReadsBack(out)
  OBVIOUS
<1>1. p \in 0..100 /\ spent \in Int /\ limit - spent \in Int
  <2>1. spent \in Int
    BY DEF Clamp, Least, AtLeast0
  <2> HIDE DEF spent
  <2>2. QED BY <2>1, PercentInRange
<1> HIDE DEF p
<1>2. out \in {Unknown(row), Unlimited(row), whole, share}
  BY Zenon DEF SubscriptionWindow, p
<1>3. CASE out = share
  <2> HIDE DEF out, spent
  <2>1. /\ out.usedPct = p /\ out.leftPct = 100 - p /\ out.capPct = 100
        /\ out.used = spent /\ out.total = limit /\ out.remaining = limit - spent
        /\ ~Flagged(out)
    BY <1>1, <1>3 DEF Shared, Filled, Row, Flagged, Clamp, Least, AtLeast0
  <2>2. QED BY <1>1, <2>1, SharedReads
<1>4. CASE out \in {Unknown(row), Unlimited(row), whole}
  <2> HIDE DEF out
  <2>1. ~out.blocking /\ Flagged(out)
    BY <1>4 DEF Unknown, Unlimited, Filled, Row, Flagged
  <2>2. QED BY <2>1, NoShareReads
<1>5. QED BY <1>2, <1>3, <1>4

\* newapi.go: so does the row of a token, in whatever unit ...
LEMMA NewAPIReads ==
  ASSUME NEW d,
         {d.granted, d.used, d.available} \cup DisplayFigures(d.status) \subseteq Int
  PROVE  ReadsBack(NewAPIRow(d, d.status))
<1> DEFINE status == d.status
           row == Row(<<"newapi", "key">>, "key", UnitOf(status))
           total == Converted(status, d.granted)
           used == Converted(status, Or0(d.used))
           available == Converted(status, d.available)
           finite == Filled(row, used, total, available)
           p == Percent(used, total)
           out == NewAPIRow(d, status)
           open == [Unlimited(Filled(row, used, 0, 0)) EXCEPT !.showUsed = Known(d.used)]
<1> SUFFICES ReadsBack(out)
  OBVIOUS
<1>1. \A x \in Int : Converted(status, x) \in Int
  <2> SUFFICES ASSUME NEW x \in Int PROVE Converted(status, x) \in Int
    OBVIOUS
  <2> DEFINE rate == CASE status.display = "CNY" -> status.usdRate
                       [] status.display = "CUSTOM" -> status.customRate
                       [] status.display = "USD" -> 1
                       [] OTHER -> 0
  <2>1. rate \in Int /\ status.perUnit \in Int
    BY DEF DisplayFigures
  <2> HIDE DEF rate
  <2>2. status.perUnit > 0 => (x \div status.perUnit) * rate \in Int
    BY <2>1
  <2>3. Converted(status, x) = IF status.success /\ status.perUnit > 0 /\ rate > 0
                               THEN (x \div status.perUnit) * rate ELSE x
    BY Zenon DEF Converted, rate
  <2>4. QED BY <2>2, <2>3
<1>2. p \in 0..100 /\ total \in Int /\ used \in Int /\ available \in Int
  <2>1. d.granted \in Int /\ d.used \in Int /\ d.available \in Int
    OBVIOUS
  <2>2. Or0(d.used) \in Int
    BY <2>1 DEF Or0
  <2>3. total \in Int /\ used \in Int /\ available \in Int
    BY <1>1, <2>1, <2>2
  <2> HIDE DEF total, used, available
  <2>4. QED BY <2>3, PercentInRange
<1> HIDE DEF p
<1>3. out \in {open, finite, Shared(finite, p)}
  BY Zenon DEF NewAPIRow, p
<1>4. CASE out = Shared(finite, p)
  <2> HIDE DEF out, used, total, available
  <2>1. /\ out.usedPct = p /\ out.leftPct = 100 - p /\ out.capPct = 100
        /\ out.used = used /\ out.total = total /\ out.remaining = available
        /\ ~Flagged(out)
    BY <1>2, <1>4 DEF Shared, Filled, Row, Flagged, Clamp, Least, AtLeast0
  <2>2. QED BY <1>2, <2>1, SharedReads
<1>5. CASE out = open
  <2> HIDE DEF out
  <2>1. ~out.blocking /\ Flagged(out)
    BY <1>5 DEF Unlimited, Filled, Row, Flagged
  <2>2. QED BY <2>1, NoShareReads
<1>6. CASE out = finite
  <2> HIDE DEF out, used, total, available
  <2>1. ~out.blocking /\ out.usedPct + out.leftPct = 0 /\ Measured(out)
    BY <1>2, <1>6 DEF Filled, Row, Measured
  <2>2. QED BY <2>1, NoShareReads
<1>7. QED BY <1>3, <1>4, <1>5, <1>6

\* ... and that of the old billing routes.
LEMMA LegacyReads ==
  ASSUME NEW d, {d.hard, d.system, d.soft, d.cents} \subseteq Int
  PROVE  ReadsBack(NewAPILegacyRow(d))
<1> DEFINE limit == LegacyLimit(d)
           used == d.cents \div 100
           unlimited == limit = NoHardLimit
           total == IF unlimited THEN 0 ELSE limit
           p == Percent(used, total)
           left == IF unlimited THEN 0 ELSE AtLeast0(limit - used)
           row == Filled(Row(<<"newapi", "legacy">>, "unknown", "site"), used, total,
                         left)
           out == NewAPILegacyRow(d)
<1> SUFFICES ReadsBack(out)
  OBVIOUS
<1>1. p \in 0..100 /\ total \in Int /\ used \in Int /\ left \in Int
  <2>1. total \in Int /\ used \in Int /\ left \in Int
    BY DEF AtLeast0, LegacyLimit
  <2> HIDE DEF total, used, left
  <2>2. QED BY <2>1, PercentInRange
<1> HIDE DEF p
<1>2. out = [row EXCEPT !.usedPct = p, !.leftPct = 100 - p, !.unlimited = unlimited,
                        !.showUsed = unlimited,
                        !.capPct = IF total > 0 THEN 100 ELSE 0]
  BY Zenon DEF NewAPILegacyRow, p
<1>3. /\ out.usedPct = p /\ out.leftPct = 100 - p /\ ~out.blocking
      /\ out.capPct = 100 \/ out.capPct = 0
      /\ out.used = used /\ out.total = total /\ out.remaining = left
  <2> HIDE DEF out, used, total, left
  <2>1. QED BY <1>2 DEF Filled, Row
<1> HIDE DEF out, used, total, left
<1>4. CASE Flagged(out) \/ out.capPct = 0
  <2>1. Measured(out)
    BY <1>1, <1>3 DEF Measured
  <2>2. QED BY <1>3, <1>4, <2>1, NoShareReads
<1>5. CASE ~Flagged(out) /\ out.capPct = 100
  BY <1>1, <1>3, <1>5, SharedReads
<1>6. QED BY <1>3, <1>4, <1>5

\* kimi.go: a row for a limit gates the others, so that what is shown of it
\* decides whether the key shows as blocked.
LEMMA KimiSharedReads ==
  ASSUME NEW name, NEW p \in 0..100, NEW spent \in BOOLEAN
  PROVE  ReadsBack([Shared(KimiRow(name), p) EXCEPT !.spent = spent])
<1> DEFINE out == [Shared(KimiRow(name), p) EXCEPT !.spent = spent]
<1> SUFFICES ReadsBack(out)
  OBVIOUS
<1>1. /\ out.usedPct = p /\ out.leftPct = 100 - p /\ out.capPct = 100
      /\ out.used = 0 /\ out.total = 0 /\ out.remaining = 0 /\ ~Flagged(out)
  BY DEF Shared, KimiRow, Row, Flagged, Clamp, Least, AtLeast0
<1> HIDE DEF out
<1>2. ReadsBack(out)
  BY <1>1, SharedReads
<1>3. QED BY <1>2

\* Rows that all read back.
AllRead(rows) == IsSequence(rows) /\ \A j \in DOMAIN rows : ReadsBack(rows[j])

\* Rows one after the other all read back if each does.
LEMMA RowsTogether ==
  /\ AllRead(<<>>)
  /\ \A w : ReadsBack(w) => AllRead(<<w>>)
  /\ \A s, t : AllRead(s) /\ AllRead(t) => AllRead(s \o t)
<1>1. AllRead(<<>>)
  BY DEF AllRead, IsSequence
<1>2. ASSUME NEW w, ReadsBack(w) PROVE AllRead(<<w>>)
  <2>1. DOMAIN <<w>> = {1} /\ <<w>>[1] = w
    OBVIOUS
  <2>2. <<w>> \in Seq({<<w>>[i] : i \in DOMAIN <<w>>})
    OBVIOUS
  <2>3. QED BY <1>2, <2>1, <2>2 DEF AllRead, IsSequence
<1>3. ASSUME NEW s, NEW t, AllRead(s), AllRead(t) PROVE AllRead(s \o t)
  <2> DEFINE S == {s[i] : i \in DOMAIN s}
             T == {t[i] : i \in DOMAIN t}
             u == s \o t
  <2>1. s \in Seq(S \cup T) /\ t \in Seq(S \cup T)
    <3>1. s \in Seq(S) /\ t \in Seq(T)
      BY <1>3 DEF AllRead, IsSequence
    <3>2. QED BY <3>1
  <2>2. \A w \in S \cup T : ReadsBack(w)
    BY <1>3 DEF AllRead
  <2> HIDE DEF S, T
  <2>3. u \in Seq(S \cup T)
    BY <2>1
  <2> HIDE DEF u
  <2>4. \A j \in DOMAIN u : ReadsBack(u[j])
    BY <2>2, <2>3
  <2>5. u \in Seq({u[i] : i \in DOMAIN u})
    BY <2>3
  <2>6. QED BY <2>4, <2>5 DEF AllRead, IsSequence, u
<1>4. QED BY <1>1, <1>2, <1>3

\* The row of a weekly or rolling limit, if there is one, reads back.
LEMMA KimiWindowReads ==
  ASSUME NEW name, NEW limit \in Int, NEW used \in Int
  PROVE  AllRead(KimiQuotaWindow(name, limit, used))
<1> DEFINE total == Or0(limit)
           left == Percent(total - Clamp(Or0(used), total), total)
           p == IF total <= 0 THEN 0 ELSE 100 - left
           spent == total > 0 /\ left <= 0
           row == [Shared(KimiRow(name), p) EXCEPT !.spent = spent]
<1>1. KimiQuotaWindow(name, limit, used) =
        IF ~Known(limit) /\ ~Known(used) THEN <<>> ELSE <<row>>
  BY Zenon DEF KimiQuotaWindow
<1>2. p \in 0..100
  <2>1. total \in Int /\ total - Clamp(Or0(used), total) \in Int
    BY DEF Or0, Clamp, Least, AtLeast0
  <2>2. left \in 0..100
    BY <2>1, PercentInRange
  <2> HIDE DEF left, total
  <2>3. QED BY <2>2
<1>3. spent \in BOOLEAN
  OBVIOUS
<1> HIDE DEF p, spent
<1>4. ReadsBack(row)
  BY <1>2, <1>3, KimiSharedReads
<1> HIDE DEF row
<1>5. QED BY <1>1, <1>4, RowsTogether

\* So does the row of the membership.
LEMMA KimiTotalReads ==
  ASSUME NEW limit \in Int, NEW used \in Int, NEW remaining \in Int
  PROVE  AllRead(KimiTotalQuotaWindow(limit, used, remaining))
<1> DEFINE byUsed == limit - Clamp(used, limit)
           byRemaining == Clamp(remaining, limit)
           left == CASE ~Known(used) /\ ~Known(remaining) -> limit
                     [] Known(used) /\ ~Known(remaining) -> byUsed
                     [] ~Known(used) /\ Known(remaining) -> byRemaining
                     [] Known(used) /\ Known(remaining) -> Least(byRemaining, byUsed)
           p == 100 - Percent(left, limit)
           spent == left <= 0
           row == [Shared(KimiRow("total"), p) EXCEPT !.spent = spent]
<1>1. KimiTotalQuotaWindow(limit, used, remaining) =
        IF ~Known(limit) \/ limit <= 0 THEN <<>> ELSE <<row>>
  BY Zenon DEF KimiTotalQuotaWindow
<1>2. p \in 0..100
  <2>1. left \in Int
    BY DEF Clamp, Least, AtLeast0, Known
  <2> HIDE DEF left
  <2>2. Percent(left, limit) \in 0..100
    BY <2>1, PercentInRange
  <2>3. QED BY <2>2
<1>3. spent \in BOOLEAN
  OBVIOUS
<1> HIDE DEF p, spent
<1>4. ReadsBack(row)
  BY <1>2, <1>3, KimiSharedReads
<1> HIDE DEF row
<1>5. QED BY <1>1, <1>4, RowsTogether

\* A part that is a whole percentage and the rest make up the whole.
LEMMA WholeShares ==
  ASSUME NEW total \in Nat \ {0}, NEW part \in 0..total, (100 * part) % total = 0
  PROVE  Percent(part, total) + Percent(total - part, total) = 100
<1> DEFINE q == (100 * part) \div total
<1>1. q \in Int /\ 100 * part = total * q
  <2>1. 100 * part \in Int /\ q \in Int
    OBVIOUS
  <2>2. 100 * part = (total * q) + ((100 * part) % total)
    BY <2>1
  <2>3. QED BY <2>1, <2>2
<1> HIDE DEF q
<1>2. q \in 0..100
  <2>1. CASE q < 0
    <3>1. total * q < 0
      BY <1>1, <2>1
    <3>2. QED BY <1>1, <3>1
  <2>2. CASE q > 100
    <3>1. total * q >= total * 101
      BY <1>1, <2>2
    <3>2. QED BY <1>1, <3>1
  <2>3. QED BY <1>1, <2>1, <2>2
<1>3. (100 * (total - part)) \div total = 100 - q
  <2> DEFINE r == 100 - q
  <2>1. r \in Int /\ 100 * (total - part) = total * r
    BY <1>1
  <2> HIDE DEF r
  <2>2. (total * r) \div total = r
    BY <2>1
  <2>3. QED BY <2>1, <2>2 DEF r
<1>4. /\ Percent(part, total) = q
      /\ Percent(total - part, total) = 100 - q
  BY <1>2, <1>3 DEF Percent, Clamp, Least, AtLeast0, q
<1>5. QED BY <1>2, <1>4

\* So do the rows of the booster: the bought balance and its monthly cap.
LEMMA KimiBoosterReads ==
  ASSUME NEW w, BoosterFigures(w)
  PROVE  AllRead(KimiBoosterRows(w))
<1> DEFINE total == KimiCents(w.amount)
           remaining == IF Known(w.left) THEN Clamp(KimiCents(w.left), total) ELSE 0
           capped == w.enabled /\ Known(w.cap) /\ w.cap > 0
           atCap == capped /\ Known(w.monthUsed) /\ w.monthUsed >= w.cap
           wallet == Filled(Row(<<"kimi", "booster">>, "account", "usd"),
                            total - remaining, total, remaining)
           month == Row(<<"kimi", "month">>, "account", "usd")
           used == Or0(w.monthUsed)
           up == Percent(total - remaining, total)
           lp == Percent(remaining, total)
           bought == [Shared(wallet, up) EXCEPT !.leftPct = lp,
                                                !.spent = remaining <= 0 \/ atCap]
           cp == Percent(used, w.cap)
           cap == Shared(Filled(month, used, w.cap, AtLeast0(w.cap - used)), cp)
           open == [Unlimited([month EXCEPT !.used = used]) EXCEPT !.showUsed = TRUE]
           second == IF capped THEN cap ELSE open
<1>1. w.amount \in Int /\ w.left \in Int /\ w.cap \in Int /\ w.monthUsed \in Int
  BY DEF BoosterFigures
<1>2. KimiBoosterRows(w) =
        IF ~Known(w.amount) \/ w.amount <= 0 THEN <<>> ELSE <<bought, second>>
  BY Zenon DEF KimiBoosterRows
<1>3. ReadsBack(second)
  <2> DEFINE rest == AtLeast0(w.cap - used)
  <2>1. cp \in 0..100 /\ used \in Int /\ rest \in Int
    <3>1. used \in Int
      BY <1>1 DEF Or0
    <3> HIDE DEF used
    <3>2. QED BY <1>1, <3>1, PercentInRange DEF AtLeast0
  <2> HIDE DEF cp, used
  <2>2. CASE second = cap
    <3> HIDE DEF second
    <3>1. /\ second.usedPct = cp /\ second.leftPct = 100 - cp
          /\ second.capPct = 100 /\ ~Flagged(second) /\ second.used = used
          /\ second.total = w.cap /\ second.remaining = rest
      BY <2>1, <2>2 DEF Shared, Filled, Row, Flagged, Clamp, Least, AtLeast0
    <3>2. ReadsBack(second)
      BY <1>1, <2>1, <3>1, SharedReads
    <3>3. QED BY <3>2 DEF second
  <2>3. CASE second = open
    <3> HIDE DEF second
    <3>1. ~second.blocking /\ Flagged(second)
      BY <2>3 DEF Unlimited, Row, Flagged
    <3>2. ReadsBack(second)
      BY <3>1, NoShareReads
    <3>3. QED BY <3>2 DEF second
  <2>4. second = cap \/ second = open
    OBVIOUS
  <2>5. QED BY <2>2, <2>3, <2>4
<1>4. ASSUME w.amount > 0 PROVE ReadsBack(bought)
  <2>1. total \in Nat \ {0}
    BY <1>1, <1>4 DEF KimiCents
  <2>2. remaining \in 0..total /\ (100 * remaining) % total = 0
    <3>1. CASE Known(w.left)
      <4>1. KimiCents(w.left) \in Int
        BY <1>1 DEF KimiCents
      <4>2. Clamp(KimiCents(w.left), total) \in 0..total
        BY <2>1, <4>1, ClampInRange
      <4>3. (100 * Clamp(KimiCents(w.left), total)) % total = 0
        BY <1>4, <3>1 DEF BoosterFigures
      <4>4. QED BY <3>1, <4>2, <4>3
    <3>2. CASE ~Known(w.left)
      <4> HIDE DEF total
      <4>1. 0 % total = 0
        BY <2>1
      <4>2. QED BY <2>1, <3>2, <4>1
    <3>3. QED BY <3>1, <3>2
  <2> HIDE DEF total, remaining
  <2>3. lp + up = 100
    BY <2>1, <2>2, WholeShares
  <2>4. lp \in 0..100 /\ up \in 0..100
    <3>1. total \in Int /\ remaining \in Int /\ total - remaining \in Int
      BY <2>1, <2>2
    <3>2. QED BY <3>1, PercentInRange
  <2> HIDE DEF lp, up
  <2>5. /\ bought.usedPct = up /\ bought.leftPct = lp
        /\ bought.capPct = 100 /\ ~Flagged(bought)
        /\ bought.used = total - remaining /\ bought.total = total
        /\ bought.remaining = remaining
    BY DEF Shared, Filled, Row, Flagged
  <2> HIDE DEF bought
  <2>6. bought.leftPct = 100 - up
    BY <2>3, <2>4, <2>5
  <2>7. ReadsBack(bought)
    BY <2>1, <2>2, <2>4, <2>5, <2>6, SharedReads
  <2>8. QED BY <2>7
<1> HIDE DEF bought, second
<1>5. w.amount > 0 => AllRead(<<bought, second>>)
  <2> SUFFICES ASSUME w.amount > 0 PROVE AllRead(<<bought, second>>)
    OBVIOUS
  <2> DEFINE rows == <<bought, second>>
  <2>1. /\ rows \in Seq({bought, second}) /\ DOMAIN rows = 1..2
        /\ rows[1] = bought /\ rows[2] = second
    OBVIOUS
  <2> HIDE DEF rows
  <2>2. rows \in Seq({rows[i] : i \in DOMAIN rows})
    BY <2>1
  <2>3. \A j \in DOMAIN rows : ReadsBack(rows[j])
    BY <1>3, <1>4, <2>1
  <2>4. AllRead(rows)
    BY <2>2, <2>3 DEF AllRead, IsSequence
  <2>5. QED BY <2>4 DEF rows
<1>6. QED BY <1>1, <1>2, <1>5, RowsTogether

\* Of the two places an answer may have them in, each figure is read in one.
LEMMA KimiFigures ==
  ASSUME NEW d, Figures("kimi_code", d)
  PROVE  LET n == NormalizeKimiUsage(d.top, d.data)
         IN  /\ UsageFigures(n.week) \subseteq Int
             /\ UsageFigures(n.all) \subseteq Int
             /\ UsageFigures(n.rolling) \subseteq Int
             /\ BoosterFigures(n.booster)
<1> DEFINE n == NormalizeKimiUsage(d.top, d.data)
<1>1. \A u \in {d.top, d.data} :
        /\ UsageFigures(u.week) \cup UsageFigures(u.all)
             \cup UsageFigures(u.rolling) \subseteq Int
        /\ BoosterFigures(u.booster)
  BY Zenon DEF Figures
<1>2. /\ n.week \in {d.top.week, d.data.week}
      /\ n.all \in {d.top.all, d.data.all}
      /\ n.rolling \in {d.top.rolling, d.data.rolling}
      /\ n.booster \in {d.top.booster, d.data.booster}
  BY DEF NormalizeKimiUsage
<1> HIDE DEF n
<1>3. QED
  <2>1. /\ UsageFigures(n.week) \subseteq Int
        /\ UsageFigures(n.all) \subseteq Int
        /\ UsageFigures(n.rolling) \subseteq Int
        /\ BoosterFigures(n.booster)
    BY <1>1, <1>2
  <2>2. QED BY <2>1 DEF n

\* One row for each report: all read back if each does.
LEMMA RowForEach ==
  ASSUME NEW n \in Nat, NEW rows, DOMAIN rows = 1..n, rows = [i \in 1..n |-> rows[i]],
         \A i \in 1..n : ReadsBack(rows[i])
  PROVE  AllRead(rows)
<1>1. rows \in Seq({rows[i] : i \in DOMAIN rows})
  OBVIOUS
<1>2. QED BY <1>1 DEF AllRead, IsSequence

\* Every parser's rows read back, for any figures its provider may report.
LEMMA RowsOfReads ==
  ASSUME NEW type, NEW d, Figures(type, d)
  PROVE  AllRead(RowsOf(type, d))
<1>1. CASE type = "glm"
  <2> DEFINE limits == d.limits
             n == Len(limits)
             rows == [i \in DOMAIN limits |-> GLMQuotaWindow(limits[i])]
             more == Unlimited(Row(<<"glm", "TOKENS_LIMIT", "week">>, "key", "tokens"))
  <2>1. /\ IsSequence(limits)
        /\ \A i \in DOMAIN limits : LimitFigures(limits[i]) \subseteq Int
    BY <1>1 DEF Figures
  <2>2. n \in Nat /\ DOMAIN limits = 1..n
    BY <2>1 DEF IsSequence
  <2>3. \A i \in 1..n : ReadsBack(rows[i])
    BY <2>1, <2>2, GLMReads
  <2>4. AllRead(rows)
    BY <2>2, <2>3, RowForEach
  <2>5. ReadsBack(more)
    <3>1. ~more.blocking /\ Flagged(more)
      BY DEF Unlimited, Row, Flagged
    <3> HIDE DEF more
    <3>2. QED BY <3>1, NoShareReads
  <2>6. Append(rows, more) = rows \o <<more>>
    <3>1. rows \in Seq({rows[i] : i \in DOMAIN rows})
      BY <2>4 DEF AllRead, IsSequence
    <3> HIDE DEF rows, more
    <3>2. QED BY <3>1
  <2>7. AllRead(Append(rows, more))
    BY <2>4, <2>5, <2>6, RowsTogether
  <2>8. GLMRows(limits) = rows \/ GLMRows(limits) = Append(rows, more)
    BY Zenon DEF GLMRows
  <2>9. RowsOf(type, d) = GLMRows(limits)
    BY <1>1 DEF RowsOf
  <2> HIDE DEF rows, more
  <2>10. QED BY <2>4, <2>7, <2>8, <2>9
<1>2. CASE type = "minimax"
  <2> DEFINE models == d.models
             n == 2 * Len(models)
             Gone(m) == /\ m.interval.total = 0 /\ m.weekly.total = 0
                        /\ m.interval.status = 3 /\ m.weekly.status = 3
             RowAt(i) == LET m == models[(i + 1) \div 2]
                         IN  IF i % 2 = 1
                             THEN MiniMaxWindow(m.name, FALSE, m.interval, Gone(m))
                             ELSE MiniMaxWindow(m.name, TRUE, m.weekly, Gone(m))
             rows == [i \in 1..n |-> RowAt(i)]
             none == [Row(<<"Token-Plan", "current">>, "key", "")
                        EXCEPT !.unavailable = TRUE]
  <2>1. /\ IsSequence(models)
        /\ \A i \in DOMAIN models :
             PartFigures(models[i].interval) /\ PartFigures(models[i].weekly)
    BY <1>2 DEF Figures
  <2>2. Len(models) \in Nat /\ n \in Nat /\ DOMAIN models = 1..Len(models)
    BY <2>1 DEF IsSequence
  <2>3. ASSUME NEW i \in 1..n PROVE ReadsBack(RowAt(i))
    <3> DEFINE k == (i + 1) \div 2
               m == models[k]
    <3>1. k \in DOMAIN models
      BY <2>2
    <3>2. Gone(m) \in BOOLEAN
      OBVIOUS
    <3>3. PartFigures(m.interval) /\ PartFigures(m.weekly)
      BY <2>1, <3>1
    <3>4. /\ ReadsBack(MiniMaxWindow(m.name, FALSE, m.interval, Gone(m)))
          /\ ReadsBack(MiniMaxWindow(m.name, TRUE, m.weekly, Gone(m)))
      <4> HIDE DEF m, Gone
      <4>1. QED BY <3>2, <3>3, MiniMaxReads
    <3>5. QED BY <3>4
  <2>4. AllRead(rows)
    <3>1. \A i \in 1..n : ReadsBack(rows[i])
      BY <2>3
    <3>2. DOMAIN rows = 1..n /\ rows = [i \in 1..n |-> rows[i]]
      OBVIOUS
    <3> HIDE DEF rows, n
    <3>3. QED BY <2>2, <3>1, <3>2, RowForEach
  <2>5. AllRead(<<none>>)
    <3>1. ~none.blocking /\ Flagged(none)
      BY DEF Row, Flagged
    <3> HIDE DEF none
    <3>2. QED BY <3>1, NoShareReads, RowsTogether
  <2>6. RowsOf(type, d) = MiniMaxRows(models)
    BY <1>2 DEF RowsOf
  <2>7. MiniMaxRows(models) = <<none>> \/ MiniMaxRows(models) = rows
    BY Zenon DEF MiniMaxRows
  <2> HIDE DEF rows, none
  <2>8. QED BY <2>4, <2>5, <2>6, <2>7
<1>3. CASE type = "sub2api"
  <2> DEFINE one == [i \in DOMAIN d.limits |->
                       QuotaWindowFromMap(
                         Row(<<"sub2api", d.limits[i].window>>, "key", "usd"),
                         d.limits[i].total, d.limits[i].used, d.limits[i].remaining)]
             two == [i \in DOMAIN d.subscription |->
                       SubscriptionWindow(d.subscription[i].period,
                         d.subscription[i].used, d.subscription[i].limit)]
  <2>1. /\ IsSequence(d.limits) /\ IsSequence(d.subscription)
        /\ \A i \in DOMAIN d.limits :
             {d.limits[i].total, d.limits[i].used, d.limits[i].remaining} \subseteq Int
        /\ \A i \in DOMAIN d.subscription :
             {d.subscription[i].used, d.subscription[i].limit} \subseteq Int
    BY <1>3 DEF Figures
  <2>2. /\ Len(d.limits) \in Nat /\ DOMAIN d.limits = 1..Len(d.limits)
        /\ Len(d.subscription) \in Nat
        /\ DOMAIN d.subscription = 1..Len(d.subscription)
    BY <2>1 DEF IsSequence
  <2>3. AllRead(one)
    <3>1. \A i \in DOMAIN d.limits : ReadsBack(one[i])
      BY <2>1, Sub2APIReads
    <3>2. QED BY <2>2, <3>1, RowForEach
  <2>4. AllRead(two)
    <3>1. \A i \in DOMAIN d.subscription : ReadsBack(two[i])
      BY <2>1, SubscriptionReads
    <3>2. QED BY <2>2, <3>1, RowForEach
  <2>5. RowsOf(type, d) = one \o two
    BY <1>3 DEF RowsOf, Sub2APIRows
  <2> HIDE DEF one, two
  <2>6. QED BY <2>3, <2>4, <2>5, RowsTogether
<1>4. CASE type = "kimi_code"
  <2> DEFINE n == NormalizeKimiUsage(d.top, d.data)
             week == KimiQuotaWindow("week", n.week.limit, n.week.used)
             all == KimiTotalQuotaWindow(n.all.limit, n.all.used, n.all.remaining)
             rolling == KimiQuotaWindow("rolling", n.rolling.limit, n.rolling.used)
             booster == KimiBoosterRows(n.booster)
  <2>1. /\ UsageFigures(n.week) \subseteq Int /\ UsageFigures(n.all) \subseteq Int
        /\ UsageFigures(n.rolling) \subseteq Int /\ BoosterFigures(n.booster)
    BY <1>4, KimiFigures
  <2>2. RowsOf(type, d) = week \o all \o rolling \o booster
    BY <1>4 DEF RowsOf, KimiRows
  <2> HIDE DEF n
  <2>3. /\ AllRead(week) /\ AllRead(all) /\ AllRead(rolling) /\ AllRead(booster)
    BY <2>1, KimiWindowReads, KimiTotalReads, KimiBoosterReads DEF UsageFigures
  <2> HIDE DEF week, all, rolling, booster
  <2>4. AllRead(week \o all)
    BY <2>3, RowsTogether
  <2>5. AllRead((week \o all) \o rolling)
    BY <2>3, <2>4, RowsTogether
  <2>6. AllRead(((week \o all) \o rolling) \o booster)
    BY <2>3, <2>5, RowsTogether
  <2>7. QED BY <2>2, <2>6
<1>5. CASE type = "newapi"
  <2>1. CASE d.legacy
    <3>1. ReadsBack(NewAPILegacyRow(d))
      <4>1. {d.hard, d.system, d.soft, d.cents} \subseteq Int
        BY <1>5, <2>1 DEF Figures
      <4>2. QED BY <4>1, LegacyReads
    <3>2. RowsOf(type, d) = <<NewAPILegacyRow(d)>>
      BY <1>5, <2>1 DEF RowsOf
    <3>3. QED BY <3>1, <3>2, RowsTogether
  <2>2. CASE ~d.legacy
    <3>1. ReadsBack(NewAPIRow(d, d.status))
      <4>1. {d.granted, d.used, d.available} \cup DisplayFigures(d.status) \subseteq Int
        BY <1>5, <2>2 DEF Figures
      <4>2. QED BY <4>1, NewAPIReads
    <3>2. RowsOf(type, d) = <<NewAPIRow(d, d.status)>>
      BY <1>5, <2>2 DEF RowsOf
    <3>3. QED BY <3>1, <3>2, RowsTogether
  <2>3. QED BY <2>1, <2>2
<1>6. CASE type \notin {"glm", "minimax", "sub2api", "kimi_code", "newapi"}
  <2>1. RowsOf(type, d) = <<>>
    BY <1>6 DEF RowsOf
  <2>2. QED BY <2>1, RowsTogether
<1>7. QED BY <1>1, <1>2, <1>3, <1>4, <1>5, <1>6

-------------------------------------------------------------------------------
(* The summary of a service *)

\* The parts of a division of the keys are counted separately.
LEMMA DisjointParts ==
  ASSUME NEW A, NEW B, IsFiniteSet(A), IsFiniteSet(B), A \cap B = {}
  PROVE  /\ IsFiniteSet(A \cup B)
         /\ Cardinality(A \cup B) = Cardinality(A) + Cardinality(B)
         /\ Cardinality(A) \in Nat /\ Cardinality(B) \in Nat
<1>1. /\ IsFiniteSet(A \cup B)
      /\ Cardinality(A \cup B)
           = Cardinality(A) + Cardinality(B) - Cardinality(A \cap B)
  BY FS_Union
<1>2. Cardinality({}) = 0
  BY FS_EmptySet
<1>3. Cardinality(A) \in Nat /\ Cardinality(B) \in Nat
  BY FS_CardinalityType
<1>4. Cardinality(A \cap B) = 0
  BY <1>2
<1>5. QED BY <1>1, <1>3, <1>4

\* A bucket has exactly one account of every key, whatever its rows say.
LEMMA AggregateCountsAll ==
  ASSUME NEW rs, NEW b, Len(rs) \in Nat, DOMAIN rs = 1..Len(rs)
  PROVE  LET a == Aggregate(rs, b)
         IN  a.finite + a.unlimited + a.unavailable + a.unknown + a.missing
               + a.failed = Len(rs)
<1> DEFINE entries == Entries(rs, b)
           P == DOMAIN entries
           ok == Successful(rs)
           unavailable == {i \in P : entries[i].unavailable}
           unlimited == {i \in P : entries[i].unlimited /\ ~entries[i].unavailable}
           finite == {i \in P : Finite(entries[i])}
           unknown == P \ (unavailable \cup unlimited \cup finite)
           a == Aggregate(rs, b)
<1>1. /\ a.finite = Cardinality(finite) /\ a.unlimited = Cardinality(unlimited)
      /\ a.unavailable = Cardinality(unavailable)
      /\ a.unknown = Cardinality(unknown)
      /\ a.missing = Cardinality(ok \ P)
      /\ a.failed = Len(rs) - Cardinality(ok)
  BY DEF Aggregate
<1>2. P \subseteq ok /\ ok \subseteq 1..Len(rs)
  BY DEF Entries, Successful
<1>3. /\ unavailable \cap unlimited = {} /\ unavailable \cap finite = {}
      /\ unlimited \cap finite = {}
  BY DEF Finite, Flagged
<1> HIDE DEF entries, P, ok, a
<1>4. IsFiniteSet(1..Len(rs))
  BY FS_Interval
<1>5. IsFiniteSet(ok)
  BY <1>2, <1>4, FS_Subset
<1>6. IsFiniteSet(P) /\ IsFiniteSet(ok \ P)
  BY <1>2, <1>5, FS_Subset
<1>7. /\ unavailable \subseteq P /\ unlimited \subseteq P /\ finite \subseteq P
      /\ unknown \subseteq P
  OBVIOUS
<1> HIDE DEF unavailable, unlimited, finite
<1>8. /\ IsFiniteSet(unavailable) /\ IsFiniteSet(unlimited)
      /\ IsFiniteSet(finite) /\ IsFiniteSet(unknown)
  BY <1>6, <1>7, FS_Subset
<1>9. /\ IsFiniteSet(unavailable \cup unlimited)
      /\ Cardinality(unavailable \cup unlimited)
           = Cardinality(unavailable) + Cardinality(unlimited)
  BY <1>3, <1>8, DisjointParts
<1>10. /\ IsFiniteSet((unavailable \cup unlimited) \cup finite)
       /\ Cardinality((unavailable \cup unlimited) \cup finite)
            = Cardinality(unavailable \cup unlimited) + Cardinality(finite)
  <2>1. (unavailable \cup unlimited) \cap finite = {}
    BY <1>3
  <2>2. QED BY <1>8, <1>9, <2>1, DisjointParts
<1>11. Cardinality(P)
         = Cardinality((unavailable \cup unlimited) \cup finite) + Cardinality(unknown)
  <2> DEFINE Q == (unavailable \cup unlimited) \cup finite
  <2>1. Q \cap unknown = {} /\ Q \cup unknown = P
    BY <1>7
  <2> HIDE DEF Q, unknown
  <2>2. IsFiniteSet(Q) /\ IsFiniteSet(unknown)
    BY <1>8, <1>10 DEF Q
  <2>3. Cardinality(Q \cup unknown) = Cardinality(Q) + Cardinality(unknown)
    BY <2>1, <2>2, DisjointParts
  <2>4. QED BY <2>1, <2>3 DEF Q
<1>12. Cardinality(ok) = Cardinality(P) + Cardinality(ok \ P)
  <2>1. P \cap (ok \ P) = {} /\ P \cup (ok \ P) = ok
    BY <1>2
  <2>2. QED BY <1>6, <2>1, DisjointParts
<1>13. /\ Cardinality(unavailable) \in Nat /\ Cardinality(unlimited) \in Nat
       /\ Cardinality(finite) \in Nat /\ Cardinality(unknown) \in Nat
       /\ Cardinality(ok \ P) \in Nat /\ Cardinality(ok) \in Nat
  BY <1>5, <1>6, <1>8, FS_CardinalityType
<1> HIDE DEF unknown
<1>14. a.finite + a.unlimited + a.unavailable + a.unknown + a.missing
         + a.failed = Len(rs)
  BY <1>1, <1>9, <1>10, <1>11, <1>12, <1>13
<1>15. QED BY <1>14 DEF a

\* The summary is that of the results beside it, or there is none yet.
SummaryInv ==
  /\ fetch \in Fetches
  /\ Len(results) \in Nat /\ DOMAIN results = 1..Len(results)
  /\ summary = AggregateQuotaWindows(results) \/ DOMAIN summary = {}

\* Every step keeps the summary that of the results.
LEMMA SummaryFollows ==
  ASSUME SummaryInv, [ViewNext]_viewVars
  PROVE  SummaryInv'
<1>1. CASE UNCHANGED <<fetch, results, summary>>
  BY <1>1 DEF SummaryInv
<1>2. CASE Draw
  <2>1. PICK own \in OwnResults, rest \in Others[fetch.type] :
               results' = <<own>> \o rest
    BY <1>2, Zenon DEF Draw
  <2>2. summary' = AggregateQuotaWindows(results') /\ UNCHANGED fetch
    BY <1>2 DEF Draw
  <2>3. rest \in Seq({rest[i] : i \in DOMAIN rest})
    BY ViewAssumption DEF SummaryInv, IsSequence
  <2> DEFINE R == {rest[i] : i \in DOMAIN rest} \cup {own}
  <2>4. <<own>> \o rest \in Seq(R)
    <3>1. <<own>> \in Seq(R) /\ rest \in Seq(R)
      BY <2>3
    <3>2. QED BY <3>1
  <2>5. Len(results') \in Nat /\ DOMAIN results' = 1..Len(results')
    BY <2>1, <2>4
  <2>6. QED BY <2>2, <2>5 DEF SummaryInv
<1>3. QED
  BY <1>1, <1>2 DEF ViewNext, FetchStep, FetchNext, Begin, Ask, Answer, Finish,
     Shown, viewVars

\* In every bucket of a summary every key of the service is counted once,
\* for any rows and any number of keys (README: a key that failed or lacks a
\* figure is named, never silently left out).
THEOREM SummaryCountsAll == ViewSpec => []KeysCountedOnce
<1>1. ViewInit => SummaryInv
  BY DEF ViewInit, FetchInit, SummaryInv, NoEntries
<1>2. SummaryInv /\ [ViewNext]_viewVars => SummaryInv'
  BY SummaryFollows
<1>3. SummaryInv => KeysCountedOnce
  <2> SUFFICES ASSUME SummaryInv, NEW b \in DOMAIN summary
      PROVE  LET a == summary[b]
             IN  a.finite + a.unlimited + a.unavailable + a.unknown + a.missing
                   + a.failed = Len(results)
    BY DEF KeysCountedOnce
  <2>1. summary = AggregateQuotaWindows(results)
    BY DEF SummaryInv
  <2>2. summary[b] = Aggregate(results, b)
    BY <2>1 DEF AggregateQuotaWindows
  <2>3. Len(results) \in Nat /\ DOMAIN results = 1..Len(results)
    BY DEF SummaryInv
  <2>4. QED BY <2>2, <2>3, AggregateCountsAll
<1>4. QED BY <1>1, <1>2, <1>3, PTL DEF ViewSpec

-------------------------------------------------------------------------------
(* What is drawn is what the parsers computed *)

\* A key shows as blocked exactly when a row that gates the others is used up.
LEMMA BlockedByAGate ==
  ASSUME NEW rows, AllRead(rows)
  PROVE  ResultState(rows) = "blocked" <=>
           \E j \in DOMAIN rows :
             rows[j].blocking /\ (rows[j].leftPct = 0 \/ rows[j].spent)
<1> DEFINE gates == {w \in {rows[i] : i \in DOMAIN rows} : w.blocking}
<1>1. ResultState(rows) = "blocked" <=> \E w \in gates : Exhausted(w)
  BY DEF ResultState
<1>2. (\E w \in gates : Exhausted(w)) <=>
        \E j \in DOMAIN rows : rows[j].blocking /\ Exhausted(rows[j])
  OBVIOUS
<1>3. \A j \in DOMAIN rows :
        rows[j].blocking =>
          (Exhausted(rows[j]) <=> (rows[j].leftPct = 0 \/ rows[j].spent))
  BY DEF AllRead, ReadsBack
<1>4. QED BY <1>1, <1>2, <1>3

\* The results that are drawn are made of answers by the parsers.
ReadInv == fetch \in Fetches /\ \A i \in DOMAIN results : AllRead(results[i].rows)

\* A query that failed has no rows, any other has those of its parser.
LEMMA ResultReads ==
  ASSUME NEW f \in Fetches, NEW x,
         x = FailedResult \/ \E d \in Data[f.type] : x = ResultOf(f.type, d)
  PROVE  AllRead(x.rows)
<1>1. CASE x = FailedResult
  BY <1>1, RowsTogether DEF FailedResult
<1>2. CASE x # FailedResult /\ \E d \in Data[f.type] : x = ResultOf(f.type, d)
  <2>1. PICK d \in Data[f.type] : x = ResultOf(f.type, d) /\ Parsed(f.type, d)
    BY <1>2 DEF ResultOf
  <2>2. Figures(f.type, d)
    BY ViewAssumption
  <2>3. x.rows = RowsOf(f.type, d)
    BY <2>1 DEF ResultOf
  <2>4. QED BY <2>2, <2>3, RowsOfReads
<1>3. QED BY <1>1, <1>2

\* Drawing keeps the results made by the parsers.
LEMMA ReadFollows ==
  ASSUME ReadInv, [ViewNext]_viewVars
  PROVE  ReadInv'
<1>1. CASE UNCHANGED <<fetch, results>>
  BY <1>1 DEF ReadInv
<1>2. CASE Draw
  <2>1. PICK own \in OwnResults, rest \in Others[fetch.type] :
          results' = <<own>> \o rest
    BY <1>2, Zenon DEF Draw
  <2>2. UNCHANGED fetch
    BY <1>2 DEF Draw
  <2>3. AllRead(own.rows)
    <3>1. own = FailedResult \/ \E d \in Data[fetch.type] : own = ResultOf(fetch.type, d)
      BY Zenon DEF OwnResults
    <3>2. QED BY <3>1, ResultReads DEF ReadInv
  <2>4. /\ IsSequence(rest)
        /\ \A i \in DOMAIN rest : AllRead(rest[i].rows)
    <3>1. \A i \in DOMAIN rest :
            rest[i] = FailedResult
              \/ \E d \in Data[fetch.type] : rest[i] = ResultOf(fetch.type, d)
      BY ViewAssumption DEF ReadInv
    <3>2. QED BY <3>1, ResultReads, ViewAssumption DEF ReadInv
  <2> DEFINE R == {rest[i] : i \in DOMAIN rest} \cup {own}
  <2>5. <<own>> \in Seq(R) /\ rest \in Seq(R)
    BY <2>4 DEF IsSequence
  <2>6. \A x \in R : AllRead(x.rows)
    BY <2>3, <2>4
  <2> HIDE DEF R
  <2>7. results' \in Seq(R)
    BY <2>1, <2>5
  <2>8. \A i \in DOMAIN results' : AllRead(results'[i].rows)
    BY <2>6, <2>7
  <2>9. QED BY <2>2, <2>8 DEF ReadInv
<1>3. QED
  BY <1>1, <1>2 DEF ViewNext, FetchStep, FetchNext, Begin, Ask, Answer, Finish,
     Shown, viewVars

\* What a parser computed and what the page reads of its rows agree, for any
\* figures of any provider and any number of keys (types.go: omitempty;
\* types.go: Blocking).
THEOREM RowsAreReadBack == ViewSpec => []RowsReadBack
<1>1. ViewInit => ReadInv
  BY DEF ViewInit, FetchInit, ReadInv
<1>2. ReadInv /\ [ViewNext]_viewVars => ReadInv'
  BY ReadFollows
<1>3. ReadInv => RowsReadBack
  <2> SUFFICES ASSUME ReadInv PROVE RowsReadBack
    OBVIOUS
  <2>1. \A w \in Rows : ReadsBack(w)
    BY DEF Rows, ReadInv, AllRead
  <2>2. \A i \in DOMAIN results :
          ResultState(results[i].rows) = "blocked" <=>
            \E j \in DOMAIN results[i].rows :
              /\ results[i].rows[j].blocking
              /\ results[i].rows[j].leftPct = 0 \/ results[i].rows[j].spent
    BY BlockedByAGate DEF ReadInv
  <2>3. QED BY <2>1, <2>2, Zenon DEF RowsReadBack, ReadsBack
<1>4. QED BY <1>1, <1>2, <1>3, PTL DEF ViewSpec

-------------------------------------------------------------------------------
(* Allowances and balances of accounts are not added *)

\* The keys in a bucket are some of the successful ones.
LEMMA EntriesAreKeys ==
  ASSUME NEW rs, NEW b, Len(rs) \in Nat, DOMAIN rs = 1..Len(rs)
  PROVE  DOMAIN Entries(rs, b) \subseteq 1..Len(rs)
BY DEF Entries, Successful

\* Shared allowances with a total all have it.
LEMMA SharedTotal ==
  ASSUME NEW n \in Nat, NEW entries, NEW finite, finite \subseteq 1..n, finite # {},
         Known(SharedAllowance(entries, finite).total)
  PROVE  \A i \in finite : SharedAllowance(entries, finite).total = entries[i].total
<1> DEFINE progress == {Progress(entries[i]) : i \in finite}
           totals == {entries[i].total : i \in finite}
           remains == {QuotaRemaining(entries[i]) : i \in finite}
           one == entries[Min(finite)]
           a == SharedAllowance(entries, finite)
<1>1. Min(finite) \in finite
  <2>1. finite \subseteq Nat
    OBVIOUS
  <2>2. QED BY <2>1, NatMin
<1>2. a.total = one.total /\ Cardinality(totals) = 1
  <2>1. Nothing.total = None
    BY DEF Nothing
  <2>2. CASE /\ Cardinality(totals) = 1 /\ \A t \in totals : t > 0
             /\ Cardinality(remains) = 1 /\ None \notin remains
    <3> HIDE DEF totals, remains, one
    <3>1. a = [Nothing EXCEPT !.total = one.total, !.remaining = one.remaining,
                              !.used = one.used, !.progress = Progress(one)]
      BY <2>2, Zenon DEF SharedAllowance, totals, remains, one
    <3> HIDE DEF a
    <3>2. QED BY <2>2, <3>1 DEF Nothing
  <2>3. CASE ~(/\ Cardinality(totals) = 1 /\ \A t \in totals : t > 0
               /\ Cardinality(remains) = 1 /\ None \notin remains)
    <3> DEFINE low == IF progress \ {None} = {} THEN None ELSE Min(progress \ {None})
               high == IF progress \ {None} = {} THEN None ELSE Max(progress \ {None})
    <3>1. \/ a = [Nothing EXCEPT !.progress = Progress(one)]
          \/ a = [Nothing EXCEPT !.state = "range", !.low = low, !.high = high]
      BY <2>3, Zenon DEF SharedAllowance
    <3> HIDE DEF a, low, high, one
    <3>2. a.total = None
      BY <3>1 DEF Nothing
    <3>3. Known(a.total)
      BY DEF a
    <3>4. QED BY <3>2, <3>3 DEF Known
  <2>4. QED BY <2>2, <2>3
<1>3. IsFiniteSet(totals)
  <2>1. IsFiniteSet(finite)
    <3>1. IsFiniteSet(1..n)
      BY FS_Interval
    <3>2. QED BY <3>1, FS_Subset
  <2>2. [i \in finite |-> entries[i].total] \in Surjection(finite, totals)
    BY DEF Surjection
  <2>3. QED BY <2>1, <2>2, FS_Surjection
<1> HIDE DEF a, one
<1>4. PICK x : totals = {x}
  <2> HIDE DEF totals
  <2>1. QED BY <1>2, <1>3, FS_Singleton
<1>5. \A i \in finite : entries[i].total = x
  BY <1>4
<1>6. one.total = x
  BY <1>1, <1>5 DEF one
<1>7. \A i \in finite : a.total = entries[i].total
  BY <1>2, <1>5, <1>6
<1>8. QED BY <1>7 DEF a

\* In a bucket of accounts or organizations nothing is added up, and nothing
\* is called unlimited because some of the keys say so.
LEMMA AggregateShared ==
  ASSUME NEW rs, NEW b, Len(rs) \in Nat, DOMAIN rs = 1..Len(rs), b[1][2] # "key"
  PROVE  LET a == Aggregate(rs, b)
             entries == Entries(rs, b)
         IN  /\ Known(a.sum.total) =>
                  \A i \in DOMAIN entries :
                    Finite(entries[i]) => a.sum.total = entries[i].total
             /\ a.sum.state = "unlimited" => a.unlimited = Len(rs)
<1> DEFINE entries == Entries(rs, b)
           P == DOMAIN entries
           ok == Successful(rs)
           unavailable == {i \in P : entries[i].unavailable}
           unlimited == {i \in P : entries[i].unlimited /\ ~entries[i].unavailable}
           finite == {i \in P : Finite(entries[i])}
           unknown == P \ (unavailable \cup unlimited \cup finite)
           missing == Cardinality(ok \ P)
           failed == Len(rs) - Cardinality(ok)
           others == finite # {} \/ unavailable # {} \/ unknown # {}
                       \/ missing > 0 \/ failed > 0
           showing == {i \in unlimited : entries[i].showUsed}
           shown == {Or0(entries[i].used) : i \in showing}
           most == IF showing = {} THEN None ELSE Max(shown)
           state == IF unknown # {} \/ missing > 0 THEN "unknown" ELSE "unavailable"
           a == Aggregate(rs, b)
<1>1. P \subseteq 1..Len(rs) /\ P \subseteq ok /\ ok \subseteq 1..Len(rs)
  BY EntriesAreKeys DEF Entries, Successful
<1>2. a.sum =
        IF unlimited # {} /\ others THEN [Nothing EXCEPT !.state = "mixed"]
        ELSE IF unlimited # {}
        THEN [Nothing EXCEPT !.state = "unlimited", !.used = most]
        ELSE IF finite = {} THEN [Nothing EXCEPT !.state = state]
        ELSE SharedAllowance(entries, finite)
  BY DEF Aggregate
<1>3. /\ a.finite = Cardinality(finite) /\ a.unlimited = Cardinality(unlimited)
      /\ a.unavailable = Cardinality(unavailable)
      /\ a.unknown = Cardinality(unknown)
      /\ a.missing = missing /\ a.failed = failed
  BY DEF Aggregate
<1>4. a.finite + a.unlimited + a.unavailable + a.unknown + a.missing
        + a.failed = Len(rs)
  BY AggregateCountsAll
<1>5. /\ missing \in Nat /\ failed \in Nat /\ Cardinality(unlimited) \in Nat
  <2>1. IsFiniteSet(1..Len(rs)) /\ Cardinality(1..Len(rs)) = Len(rs)
    <3>1. /\ IsFiniteSet(1..Len(rs))
          /\ Cardinality(1..Len(rs)) = IF 1 > Len(rs) THEN 0 ELSE Len(rs) - 1 + 1
      BY FS_Interval
    <3>2. QED BY <3>1
  <2>2. IsFiniteSet(ok) /\ Cardinality(ok) <= Len(rs)
    BY <1>1, <2>1, FS_Subset
  <2>3. IsFiniteSet(ok \ P) /\ IsFiniteSet(unlimited)
    <3>1. ok \ P \subseteq ok /\ unlimited \subseteq ok
      BY <1>1
    <3> HIDE DEF ok, unlimited
    <3>2. QED BY <2>2, <3>1, FS_Subset
  <2> HIDE DEF ok, unlimited
  <2>4. Cardinality(ok) \in Nat
    BY <2>2, FS_CardinalityType
  <2>5. QED BY <2>2, <2>3, <2>4, FS_CardinalityType
<1>6. finite # {} => SharedAllowance(entries, finite).state \in {"finite", "range"}
  <2> DEFINE s == SharedAllowance(entries, finite)
             one == entries[Min(finite)]
             known == {Progress(entries[i]) : i \in finite} \ {None}
             low == IF known = {} THEN None ELSE Min(known)
             high == IF known = {} THEN None ELSE Max(known)
  <2> HIDE DEF finite, entries
  <2>1. \/ s = [Nothing EXCEPT !.total = one.total, !.remaining = one.remaining,
                               !.used = one.used, !.progress = Progress(one)]
        \/ s = [Nothing EXCEPT !.progress = Progress(one)]
        \/ s = [Nothing EXCEPT !.state = "range", !.low = low, !.high = high]
    BY Zenon DEF SharedAllowance
  <2> HIDE DEF s, one, low, high
  <2>2. s.state \in {"finite", "range"}
    BY <2>1 DEF Nothing
  <2>3. QED BY <2>2 DEF s
<1> HIDE DEF a, most, state
<1>7. ASSUME Known(a.sum.total), NEW i \in P, Finite(entries[i])
      PROVE  a.sum.total = entries[i].total
  <2>1. i \in finite /\ finite \subseteq 1..Len(rs)
    BY <1>1, <1>7
  <2>2. a.sum.total = None \/ a.sum = SharedAllowance(entries, finite)
    <3> HIDE DEF finite, unlimited, others, entries
    <3>1. QED BY <1>2, <2>1 DEF Nothing
  <2>3. a.sum = SharedAllowance(entries, finite)
    BY <1>7, <2>2 DEF Known
  <2>4. finite # {}
    BY <2>1
  <2> HIDE DEF finite, entries
  <2>5. QED BY <1>7, <2>1, <2>3, <2>4, SharedTotal
<1>8. ASSUME a.sum.state = "unlimited" PROVE a.unlimited = Len(rs)
  <2>1. unlimited # {} /\ ~others
    <3> HIDE DEF finite, unlimited, others, entries
    <3>1. state # "unlimited"
      BY DEF state
    <3>2. QED BY <1>2, <1>6, <1>8, <3>1 DEF Nothing
  <2>2. finite = {} /\ unavailable = {} /\ unknown = {} /\ ~(missing > 0) /\ ~(failed > 0)
    BY <2>1, Zenon
  <2> HIDE DEF unlimited, finite, unavailable, unknown, others, missing, failed
  <2>3. a.finite = 0 /\ a.unavailable = 0 /\ a.unknown = 0
    BY <1>3, <2>2, FS_EmptySet
  <2>4. a.missing = 0 /\ a.failed = 0
    BY <1>3, <1>5, <2>2
  <2>5. QED BY <1>3, <1>4, <1>5, <2>3, <2>4
<1>9. QED BY <1>7, <1>8 DEF a

\* Finitely many numbers have a bound.
LEMMA IndexedMax ==
  ASSUME NEW n \in Nat, NEW S, S \subseteq 1..n, NEW f, \A i \in S : f[i] \in Nat
  PROVE  \E bound \in Nat : \A i \in S : f[i] <= bound
<1> DEFINE Bounded(k) == \E bound \in Nat : \A i \in S : i <= k => f[i] <= bound
           Bad == {k \in 0..n : ~Bounded(k)}
<1>1. SUFFICES ASSUME Bad # {} PROVE FALSE
  <2>1. n \notin Bad
    BY <1>1
  <2>2. Bounded(n)
    BY <2>1
  <2>3. QED BY <2>2
<1>2. Min(Bad) \in Bad /\ \A k \in Bad : Min(Bad) <= k
  <2>1. Bad \subseteq Nat
    OBVIOUS
  <2> HIDE DEF Bad
  <2>2. QED BY <1>1, <2>1, NatMin
<1>3. PICK k \in Bad : \A j \in Bad : k <= j
  BY <1>2
<1>4. k \in 0..n /\ ~Bounded(k)
  BY <1>3
<1>5. k # 0
  <2>1. 0 \in Nat /\ \A i \in S : ~(i <= 0)
    OBVIOUS
  <2>2. Bounded(0)
    BY <2>1
  <2>3. QED BY <1>4, <2>2
<1>6. Bounded(k - 1)
  <2>1. k - 1 \in 0..n /\ ~(k <= k - 1)
    BY <1>4, <1>5
  <2>2. QED BY <1>3, <2>1
<1>7. PICK bound \in Nat : \A i \in S : i <= k - 1 => f[i] <= bound
  BY <1>6
<1>8. \E higher \in Nat : bound <= higher /\ (k \in S => f[k] <= higher)
  <2>1. CASE k \in S
    <3>1. f[k] \in Nat
      BY <2>1
    <3>2. CASE f[k] <= bound
      BY <2>1, <3>2
    <3>3. CASE f[k] > bound
      BY <2>1, <3>1, <3>3
    <3>4. QED BY <3>1, <3>2, <3>3
  <2>2. CASE k \notin S
    <3>1. bound \in Nat /\ bound <= bound
      OBVIOUS
    <3>2. QED BY <2>2, <3>1
  <2>3. QED BY <2>1, <2>2
<1>9. PICK higher \in Nat : bound <= higher /\ (k \in S => f[k] <= higher)
  BY <1>8
<1>10. \A i \in S : i <= k => f[i] <= higher
  <2> SUFFICES ASSUME NEW i \in S, i <= k PROVE f[i] <= higher
    OBVIOUS
  <2>1. CASE i = k
    BY <1>9, <2>1
  <2>2. CASE i # k
    <3>1. i <= k - 1 /\ f[i] \in Nat
      BY <1>4, <2>2
    <3>2. QED BY <1>7, <1>9, <3>1
  <2>3. QED BY <2>1, <2>2
<1>11. QED BY <1>4, <1>10

\* A key's balance is none, or one amount of its account.
IsBalance(B) ==
  B = {} \/ \E m \in B : B = {m} /\ m.amount \in Int /\ m.scope = "account"

\* What is shown of the balances is the balance of one of the keys.
LEMMA BalanceIsSomeKeys ==
  ASSUME NEW rs, Len(rs) \in Nat, DOMAIN rs = 1..Len(rs),
         \A i \in DOMAIN rs : IsBalance(rs[i].balance),
         NEW u, NEW x \in BalanceMetric(rs, u)
  PROVE  \E i \in DOMAIN rs : \E m \in rs[i].balance : m.unit = u /\ m.amount = x
<1> DEFINE with == {i \in Successful(rs) :
                      \E m \in rs[i].balance : m.unit = u /\ m.amount >= 0}
           Amount(i) == LET m == CHOOSE y \in rs[i].balance : y.unit = u
                        IN  m.amount
           own == \A i \in with : \A m \in rs[i].balance : m.scope = "key"
           amounts == {Amount(i) : i \in with}
           f == [i \in with |-> Amount(i)]
<1>1. with \subseteq 1..Len(rs)
  BY DEF Successful
<1>2. \A i \in with :
        /\ \E m \in rs[i].balance : m.unit = u /\ m.amount = Amount(i)
        /\ Amount(i) \in Nat /\ \E m \in rs[i].balance : m.scope = "account"
  <2> SUFFICES ASSUME NEW i \in with
      PROVE  /\ \E m \in rs[i].balance : m.unit = u /\ m.amount = Amount(i)
             /\ Amount(i) \in Nat /\ \E m \in rs[i].balance : m.scope = "account"
    OBVIOUS
  <2>1. PICK m \in rs[i].balance : m.unit = u /\ m.amount >= 0
    OBVIOUS
  <2>2. rs[i].balance = {m} /\ m.amount \in Int /\ m.scope = "account"
    <3>1. IsBalance(rs[i].balance)
      BY <1>1
    <3>2. QED BY <2>1, <3>1 DEF IsBalance
  <2>3. Amount(i) = m.amount
    BY <2>1, <2>2
  <2> HIDE DEF Amount
  <2>4. QED BY <2>1, <2>2, <2>3
<1>3. BalanceMetric(rs, u) = IF with = {} THEN {}
                             ELSE IF own THEN {MapThenSumSet(Amount, with)}
                             ELSE {Min(amounts), Max(amounts)}
  BY DEF BalanceMetric
<1> HIDE DEF with, Amount
<1>4. with # {}
  BY <1>3
<1>5. ~own
  BY <1>2, <1>4
<1>6. x = Min(amounts) \/ x = Max(amounts)
  BY <1>3, <1>4, <1>5
<1>7. amounts \subseteq Nat /\ amounts # {}
  BY <1>2, <1>4
<1>8. x \in amounts
  <2>1. Min(amounts) \in amounts
    BY <1>7, NatMin
  <2>2. PICK bound \in Nat : \A i \in with : f[i] <= bound
    <3>1. \A i \in with : f[i] \in Nat
      BY <1>2
    <3> HIDE DEF f
    <3>2. QED BY <1>1, <3>1, IndexedMax
  <2>3. amounts \subseteq 0..bound
    <3>1. \A i \in with : Amount(i) \in Nat /\ Amount(i) <= bound
      BY <1>2, <2>2
    <3>2. QED BY <3>1
  <2>4. Max(amounts) \in amounts
    BY <1>7, <2>3, NatMax
  <2>5. QED BY <1>6, <2>1, <2>4
<1>9. PICK i \in with : x = Amount(i)
  BY <1>8
<1>10. QED BY <1>1, <1>2, <1>9

\* A provider's balance is none or one amount.
LEMMA ResultBalances ==
  ASSUME NEW f \in Fetches, NEW x,
         x = FailedResult \/ \E d \in Data[f.type] : x = ResultOf(f.type, d)
  PROVE  IsBalance(x.balance)
<1>1. CASE x = FailedResult
  BY <1>1 DEF FailedResult, IsBalance
<1>2. CASE x # FailedResult /\ \E d \in Data[f.type] : x = ResultOf(f.type, d)
  <2>1. PICK d \in Data[f.type] : x = ResultOf(f.type, d) /\ Parsed(f.type, d)
    BY <1>2 DEF ResultOf
  <2>2. Figures(f.type, d) /\ x.balance = BalanceOf(f.type, d)
    BY <2>1, ViewAssumption DEF ResultOf
  <2>3. ASSUME NEW unit, NEW amount \in Int
        PROVE  IsBalance({[unit |-> unit, amount |-> amount, scope |-> "account"]})
    <3> DEFINE m == [unit |-> unit, amount |-> amount, scope |-> "account"]
    <3>1. m.amount \in Int /\ m.scope = "account"
      OBVIOUS
    <3> HIDE DEF m
    <3>2. IsBalance({m})
      BY <3>1 DEF IsBalance
    <3>3. QED BY <3>2 DEF m
  <2>4. IsBalance({})
    BY DEF IsBalance
  <2>5. CASE f.type = "kimi_api"
    <3>1. d.available \in Int
      BY <2>2, <2>5 DEF Figures
    <3>2. x.balance = {[unit |-> "cny", amount |-> d.available, scope |-> "account"]}
      BY <2>2, <2>5 DEF BalanceOf
    <3>3. QED BY <2>3, <3>1, <3>2
  <2>6. CASE f.type = "deepseek"
    <3> DEFINE priced == {i \in DOMAIN d.infos : d.infos[i].currency \in Units}
               first == d.infos[Min(priced)]
    <3>1. /\ IsSequence(d.infos)
          /\ \A i \in DOMAIN d.infos : d.infos[i].amount \in Int
      BY <2>2, <2>6 DEF Figures
    <3>2. x.balance = IF priced = {} THEN {}
                      ELSE {[unit |-> first.currency, amount |-> first.amount,
                             scope |-> "account"]}
      BY <2>2, <2>6 DEF BalanceOf
    <3>3. priced # {} => first.amount \in Int
      <4>1. priced \subseteq Nat /\ priced \subseteq DOMAIN d.infos
        BY <3>1 DEF IsSequence
      <4> HIDE DEF priced
      <4>2. priced # {} => Min(priced) \in priced
        BY <4>1, NatMin
      <4>3. QED BY <3>1, <4>1, <4>2
    <3> HIDE DEF priced, first
    <3>4. QED BY <2>3, <2>4, <3>2, <3>3
  <2>7. CASE f.type = "sub2api"
    <3>1. d.wallet \in Int
      BY <2>2, <2>7 DEF Figures
    <3>2. x.balance = IF Known(d.wallet)
                      THEN {[unit |-> "usd", amount |-> d.wallet, scope |-> "account"]}
                      ELSE {}
      BY <2>2, <2>7 DEF BalanceOf
    <3>3. QED BY <2>3, <2>4, <3>1, <3>2
  <2>8. CASE f.type \notin {"kimi_api", "deepseek", "sub2api"}
    BY <2>2, <2>4, <2>8 DEF BalanceOf
  <2>9. QED BY <2>5, <2>6, <2>7, <2>8
<1>3. QED BY <1>1, <1>2

\* The balances shown are those of the results beside them.
BalanceInv ==
  /\ \A i \in DOMAIN results : IsBalance(results[i].balance)
  /\ \/ balance = [u \in Units |-> BalanceMetric(results, u)]
     \/ DOMAIN balance = {}

\* Drawing keeps the balances those of the results.
LEMMA BalanceFollows ==
  ASSUME SummaryInv, BalanceInv, [ViewNext]_viewVars
  PROVE  BalanceInv'
<1>1. CASE UNCHANGED <<results, balance>>
  BY <1>1 DEF BalanceInv
<1>2. CASE Draw
  <2>1. PICK own \in OwnResults, rest \in Others[fetch.type] :
          results' = <<own>> \o rest
    BY <1>2, Zenon DEF Draw
  <2>2. balance' = [u \in Units |-> BalanceMetric(results', u)]
    BY <1>2 DEF Draw
  <2>3. IsBalance(own.balance)
    <3>1. own = FailedResult \/ \E d \in Data[fetch.type] : own = ResultOf(fetch.type, d)
      BY Zenon DEF OwnResults
    <3>2. QED BY <3>1, ResultBalances DEF SummaryInv
  <2>4. IsSequence(rest) /\ \A i \in DOMAIN rest : IsBalance(rest[i].balance)
    <3>1. \A i \in DOMAIN rest :
            rest[i] = FailedResult
              \/ \E d \in Data[fetch.type] : rest[i] = ResultOf(fetch.type, d)
      BY ViewAssumption DEF SummaryInv
    <3>2. QED BY <3>1, ResultBalances, ViewAssumption DEF SummaryInv
  <2> DEFINE R == {rest[i] : i \in DOMAIN rest} \cup {own}
  <2>5. <<own>> \in Seq(R) /\ rest \in Seq(R)
    BY <2>4 DEF IsSequence
  <2>6. \A x \in R : IsBalance(x.balance)
    BY <2>3, <2>4
  <2> HIDE DEF R
  <2>7. results' \in Seq(R)
    BY <2>1, <2>5
  <2>8. \A i \in DOMAIN results' : IsBalance(results'[i].balance)
    BY <2>6, <2>7
  <2>9. QED BY <2>2, <2>8 DEF BalanceInv
<1>3. QED
  BY <1>1, <1>2 DEF ViewNext, FetchStep, FetchNext, Begin, Ask, Answer, Finish,
     Shown, viewVars

\* Whatever the rows and the keys of a service, an allowance or a balance of
\* an account is shown as some key has it and never added up, and a bucket
\* of accounts is unlimited only if it is so for every key (types.go: shared
\* allowances must not be summed).
THEOREM SharedAreNotAdded == ViewSpec => []SharedNotAdded
<1>1. ViewInit => SummaryInv /\ BalanceInv
  BY DEF ViewInit, FetchInit, SummaryInv, BalanceInv, NoEntries
<1>2. SummaryInv /\ BalanceInv /\ [ViewNext]_viewVars => (SummaryInv /\ BalanceInv)'
  BY SummaryFollows, BalanceFollows
<1>3. SummaryInv /\ BalanceInv => SharedNotAdded
  <2> SUFFICES ASSUME SummaryInv, BalanceInv PROVE SharedNotAdded
    OBVIOUS
  <2>1. Len(results) \in Nat /\ DOMAIN results = 1..Len(results)
    BY DEF SummaryInv
  <2>2. ASSUME NEW b \in DOMAIN summary, b[1][2] # "key"
        PROVE  LET a == summary[b]
                   entries == Entries(results, b)
               IN  /\ Known(a.sum.total) =>
                        \A i \in DOMAIN entries :
                          Finite(entries[i]) => a.sum.total = entries[i].total
                   /\ a.sum.state = "unlimited" => a.unlimited = Len(results)
    <3>1. summary[b] = Aggregate(results, b)
      BY DEF SummaryInv, AggregateQuotaWindows
    <3>2. QED BY <2>1, <2>2, <3>1, AggregateShared
  <2>3. ASSUME NEW u \in DOMAIN balance, NEW x \in balance[u]
        PROVE  \E i \in DOMAIN results :
                 \E m \in results[i].balance : m.unit = u /\ m.amount = x
    <3>1. x \in BalanceMetric(results, u)
      BY <2>3 DEF BalanceInv
    <3>2. QED BY <2>1, <3>1, BalanceIsSomeKeys DEF BalanceInv
  <2>4. QED BY <2>2, <2>3 DEF SharedNotAdded
<1>4. QED BY <1>1, <1>2, <1>3, PTL DEF ViewSpec

-------------------------------------------------------------------------------
(* Sums over sets: they follow their recursion on every finite set *)

\* The element a sum over a set takes out first.
Picked(s) == CHOOSE x \in s : TRUE

\* g adds up the figures v over the sets of D, one figure at a time.
AddsOver(D, v, g) ==
  g = [s \in D |-> IF s = {} THEN 0 ELSE v[Picked(s)] + g[s \ {Picked(s)}]]

\* Small sets can be added up: ...
LEMMA SmallSumsExist ==
  ASSUME NEW v, IsFiniteSet(DOMAIN v), NEW n \in Nat
  PROVE  \E g : AddsOver({s \in SUBSET DOMAIN v : Cardinality(s) <= n}, v, g)
<1> DEFINE D(k) == {s \in SUBSET DOMAIN v : Cardinality(s) <= k}
           Bad == {k \in Nat : ~\E g : AddsOver(D(k), v, g)}
<1>1. SUFFICES Bad = {}
  OBVIOUS
<1>2. SUFFICES ASSUME Bad # {} PROVE FALSE
  OBVIOUS
<1>3. PICK k \in Bad : \A j \in Bad : ~(j < k)
  <2>1. PICK k \in Bad : \A j \in Bad : ~(<<j, k>> \in OpToRel(<, Nat))
    <3>1. Bad \subseteq Nat
      OBVIOUS
    <3> HIDE DEF Bad
    <3>2. QED BY <1>2, <3>1, NatLessThanWellFounded, WFMin
  <2>2. \A j \in Bad : j \in Nat /\ k \in Nat
    OBVIOUS
  <2>3. QED BY <2>1, <2>2 DEF OpToRel
<1>4. \A s \in SUBSET DOMAIN v :
        /\ IsFiniteSet(s) /\ Cardinality(s) \in Nat
        /\ Cardinality(s) = 0 <=> s = {}
        /\ s # {} => /\ Picked(s) \in s
                     /\ Cardinality(s \ {Picked(s)}) = Cardinality(s) - 1
  <2> SUFFICES ASSUME NEW s \in SUBSET DOMAIN v
      PROVE  /\ IsFiniteSet(s) /\ Cardinality(s) \in Nat
             /\ Cardinality(s) = 0 <=> s = {}
             /\ s # {} => /\ Picked(s) \in s
                          /\ Cardinality(s \ {Picked(s)}) = Cardinality(s) - 1
    OBVIOUS
  <2>1. IsFiniteSet(s)
    BY FS_Subset
  <2>2. Cardinality(s) \in Nat /\ (Cardinality(s) = 0 <=> s = {})
    BY <2>1, FS_CardinalityType, FS_EmptySet
  <2>3. s # {} => Picked(s) \in s
    BY DEF Picked
  <2>4. QED BY <2>1, <2>2, <2>3, FS_RemoveElement
<1>5. k # 0
  <2> SUFFICES ASSUME k = 0 PROVE FALSE
    OBVIOUS
  <2> DEFINE g == [s \in D(0) |-> 0]
  <2>1. ASSUME NEW s \in D(0) PROVE s = {}
    <3>1. s \in SUBSET DOMAIN v /\ Cardinality(s) <= 0
      OBVIOUS
    <3>2. Cardinality(s) \in Nat /\ (Cardinality(s) = 0 <=> s = {})
      BY <1>4, <3>1
    <3>3. QED BY <3>1, <3>2
  <2>2. AddsOver(D(0), v, g)
    BY <2>1 DEF AddsOver
  <2>3. QED BY <1>3, <2>2
<1>6. PICK g : AddsOver(D(k - 1), v, g)
  <2>1. k - 1 \in Nat /\ k - 1 < k
    BY <1>5
  <2>2. QED BY <1>3, <2>1
<1> DEFINE h == [s \in D(k) |-> IF s = {} THEN 0
                                ELSE v[Picked(s)] + g[s \ {Picked(s)}]]
<1>7. \A s \in D(k - 1) : h[s] = g[s]
  <2>1. ASSUME NEW s \in D(k - 1) PROVE s \in D(k)
    <3>1. s \in SUBSET DOMAIN v /\ Cardinality(s) <= k - 1 /\ k \in Nat
      OBVIOUS
    <3>2. Cardinality(s) \in Nat
      BY <1>4, <3>1
    <3>3. QED BY <3>1, <3>2
  <2>2. \A s \in D(k - 1) : g[s] = IF s = {} THEN 0
                                   ELSE v[Picked(s)] + g[s \ {Picked(s)}]
    BY <1>6 DEF AddsOver
  <2>3. QED BY <2>1, <2>2
<1>8. \A s \in D(k) : s # {} => s \ {Picked(s)} \in D(k - 1)
  BY <1>4
<1>9. AddsOver(D(k), v, h)
  <2>1. \A s \in D(k) : s # {} => h[s \ {Picked(s)}] = g[s \ {Picked(s)}]
    BY <1>7, <1>8
  <2>2. QED BY <2>1 DEF AddsOver
<1>10. QED BY <1>3, <1>9

\* ... so the sum of finitely many figures is what its recursion says.
LEMMA SumAddsUp ==
  ASSUME NEW v, IsFiniteSet(DOMAIN v)
  PROVE  \E g : AddsOver(SUBSET DOMAIN v, v, g) /\ SumFunction(v) = g[DOMAIN v]
<1> DEFINE D == {s \in SUBSET DOMAIN v : Cardinality(s) <= Cardinality(DOMAIN v)}
<1>1. D = SUBSET DOMAIN v
  BY FS_Subset
<1>2. \E g : AddsOver(D, v, g)
  BY FS_CardinalityType, SmallSumsExist
<1> HIDE DEF D
<1>3. \E g : AddsOver(SUBSET DOMAIN v, v, g)
  BY <1>1, <1>2
<1> DEFINE sums == CHOOSE g : AddsOver(SUBSET DOMAIN v, v, g)
<1>4. AddsOver(SUBSET DOMAIN v, v, sums)
  BY <1>3, Zenon
<1>5. SumFunction(v) = sums[DOMAIN v]
  BY DEF SumFunction, SumFunctionOnSet, FoldFunctionOnSet, MapThenFoldSet,
         AddsOver, Picked
<1>6. QED BY <1>4, <1>5

\* A set of subsets that has a set when it has the set without the element
\* picked of it, has them all.
LEMMA OneByOne ==
  ASSUME NEW S, IsFiniteSet(S), NEW Good,
         \A s \in SUBSET S : (s # {} => s \ {Picked(s)} \in Good) => s \in Good
  PROVE  S \in Good
<1> DEFINE Bad == {s \in SUBSET S : s \notin Good}
<1>1. SUFFICES ASSUME Bad # {} PROVE FALSE
  OBVIOUS
<1>2. IsWellFoundedOn(StrictSubsetOrdering(S), SUBSET S)
  <2>1. FiniteSubsetsOf(S) = SUBSET S
    BY FS_FiniteSubsetsOfFinite
  <2>2. QED BY <2>1, FS_StrictSubsetOrderingWellFounded
<1>3. PICK s \in Bad : \A r \in Bad : ~(<<r, s>> \in StrictSubsetOrdering(S))
  <2>1. Bad \subseteq SUBSET S
    OBVIOUS
  <2> HIDE DEF Bad
  <2>2. QED BY <1>1, <1>2, <2>1, WFMin
<1>4. s \in SUBSET S /\ s # {} /\ s \ {Picked(s)} \notin Good
  OBVIOUS
<1>5. s \ {Picked(s)} \in Bad
  BY <1>4
<1>6. <<s \ {Picked(s)}, s>> \in StrictSubsetOrdering(S)
  BY <1>4 DEF Picked, StrictSubsetOrdering
<1>7. QED BY <1>3, <1>5, <1>6

\* A comparison that holds of the figures holds of their sums, with what each
\* leaves over.
LEMMA SumsCompare ==
  ASSUME NEW v, NEW w, IsFiniteSet(DOMAIN v), DOMAIN w = DOMAIN v,
         DOMAIN v # {}, NEW m \in Int, NEW k \in Int, NEW e \in Nat,
         \A i \in DOMAIN v : /\ v[i] \in Int /\ w[i] \in Int
                             /\ m * v[i] + e <= k * w[i]
  PROVE  /\ SumFunction(v) \in Int /\ SumFunction(w) \in Int
         /\ m * SumFunction(v) + e <= k * SumFunction(w)
<1> DEFINE S == DOMAIN v
<1>1. PICK a : AddsOver(SUBSET S, v, a) /\ SumFunction(v) = a[S]
  BY SumAddsUp
<1>2. PICK b : AddsOver(SUBSET S, w, b) /\ SumFunction(w) = b[S]
  BY SumAddsUp
<1> DEFINE Compares(s) ==
             /\ a[s] \in Int /\ b[s] \in Int
             /\ s = {} => a[s] = 0 /\ b[s] = 0
             /\ s # {} => m * a[s] + e <= k * b[s]
           Good == {s \in SUBSET S : Compares(s)}
<1>3. ASSUME NEW s \in SUBSET S, s # {} => s \ {Picked(s)} \in Good
      PROVE  s \in Good
  <2>1. CASE s = {}
    BY <1>1, <1>2, <2>1 DEF AddsOver
  <2>2. CASE s # {}
    <3> DEFINE x == Picked(s)
               r == s \ {x}
    <3>1. x \in S /\ r \in SUBSET S
      BY <2>2 DEF Picked
    <3>2. a[s] = v[x] + a[r] /\ b[s] = w[x] + b[r]
      BY <1>1, <1>2, <2>2 DEF AddsOver
    <3>3. /\ v[x] \in Int /\ w[x] \in Int
          /\ m * v[x] + e <= k * w[x]
      BY <3>1
    <3>4. /\ a[r] \in Int /\ b[r] \in Int
          /\ r = {} => a[r] = 0 /\ b[r] = 0
          /\ r # {} => m * a[r] + e <= k * b[r]
      BY <1>3, <2>2
    <3> HIDE DEF x, r
    <3>5. /\ m * (v[x] + a[r]) = m * v[x] + m * a[r]
          /\ k * (w[x] + b[r]) = k * w[x] + k * b[r]
      BY <3>3, <3>4
    <3>6. /\ m * v[x] \in Int /\ m * a[r] \in Int
          /\ k * w[x] \in Int /\ k * b[r] \in Int
      BY <3>3, <3>4
    <3>7. m * a[s] + e <= k * b[s]
      <4>1. CASE r = {}
        BY <3>2, <3>3, <3>4, <4>1
      <4>2. CASE r # {}
        BY <3>2, <3>3, <3>4, <3>5, <3>6, <4>2
      <4>3. QED BY <4>1, <4>2
    <3>8. QED BY <2>2, <3>2, <3>3, <3>4, <3>7
  <2>3. QED BY <2>1, <2>2
<1> HIDE DEF Good
<1>4. S \in Good
  BY <1>3, OneByOne
<1>5. QED BY <1>1, <1>2, <1>4 DEF Good

\* No figure is more than the sum, when none is negative.
LEMMA PartsBelowSum ==
  ASSUME NEW v, IsFiniteSet(DOMAIN v), \A i \in DOMAIN v : v[i] \in Nat
  PROVE  SumFunction(v) \in Nat /\ \A i \in DOMAIN v : v[i] <= SumFunction(v)
<1> DEFINE S == DOMAIN v
<1>1. PICK a : AddsOver(SUBSET S, v, a) /\ SumFunction(v) = a[S]
  BY SumAddsUp
<1> DEFINE Good == {s \in SUBSET S : a[s] \in Nat /\ \A i \in s : v[i] <= a[s]}
<1>2. ASSUME NEW s \in SUBSET S, s # {} => s \ {Picked(s)} \in Good
      PROVE  s \in Good
  <2>1. CASE s = {}
    BY <1>1, <2>1 DEF AddsOver
  <2>2. CASE s # {}
    <3> DEFINE x == Picked(s)
               r == s \ {x}
    <3>1. x \in S /\ r \in SUBSET S /\ v[x] \in Nat
      BY <2>2 DEF Picked
    <3>2. a[s] = v[x] + a[r]
      BY <1>1, <2>2 DEF AddsOver
    <3>3. a[r] \in Nat /\ \A i \in r : v[i] <= a[r]
      BY <1>2, <2>2
    <3>4. \A i \in s : i = x \/ i \in r
      OBVIOUS
    <3>5. \A i \in s : v[i] \in Nat
      OBVIOUS
    <3> HIDE DEF x, r
    <3>6. \A i \in s : v[i] <= a[s]
      BY <3>1, <3>2, <3>3, <3>4, <3>5
    <3>7. QED BY <3>1, <3>2, <3>3, <3>6
  <2>3. QED BY <2>1, <2>2
<1> HIDE DEF Good
<1>3. S \in Good
  BY <1>2, OneByOne
<1>4. QED BY <1>1, <1>3 DEF Good

-------------------------------------------------------------------------------
(* The share a summary shows is no further than the keys' own *)

\* The share of a sum lies between the shares of its parts, and nothing is
\* left of it only when nothing is left of any part.
LEMMA ShareOfSums ==
  ASSUME NEW D, IsFiniteSet(D), D # {}, NEW part, NEW whole,
         DOMAIN part = D, DOMAIN whole = D,
         \A i \in D : part[i] \in Nat /\ whole[i] \in Nat \ {0}
  PROVE  LET all == ShareOf(SumFunction(part), SumFunction(whole))
         IN  /\ all \in Nat
             /\ all = 0 => \A i \in D : ShareOf(part[i], whole[i]) = 0
             /\ \A m \in Nat :
                  (\A i \in D : m <= ShareOf(part[i], whole[i])) => m <= all
             /\ \A m \in Nat :
                  (\A i \in D : ShareOf(part[i], whole[i]) <= m) => all <= m
<1> DEFINE parts == SumFunction(part)
           wholes == SumFunction(whole)
           all == ShareOf(parts, wholes)
<1>1. parts \in Nat /\ \A i \in D : part[i] <= parts
  BY PartsBelowSum
<1>2. wholes \in Nat \ {0}
  <2>1. \A i \in D : /\ part[i] \in Int /\ whole[i] \in Int
                     /\ 0 * part[i] + 1 <= 1 * whole[i]
    OBVIOUS
  <2>2. /\ parts \in Int /\ wholes \in Int
        /\ 0 * parts + 1 <= 1 * wholes
    BY <2>1, SumsCompare
  <2>3. QED BY <2>2
<1>3. \A i \in D :
        /\ ShareOf(part[i], whole[i]) \in Nat
        /\ ShareOf(part[i], whole[i]) = 0 <=> part[i] = 0
        /\ \A k \in Int : k >= 2 => (k <= ShareOf(part[i], whole[i])
                                       <=> k * whole[i] <= 100 * part[i])
  BY ShareBounds
<1> HIDE DEF parts, wholes
<1>4. /\ all \in Nat
      /\ all = 0 <=> parts = 0
      /\ \A k \in Int : k >= 2 => (k <= all <=> k * wholes <= 100 * parts)
  BY <1>1, <1>2, ShareBounds
<1> HIDE DEF all
<1>5. ASSUME all = 0, NEW i \in D PROVE ShareOf(part[i], whole[i]) = 0
  <2>1. part[i] = 0
    BY <1>1, <1>4, <1>5
  <2>2. QED BY <1>3, <2>1
<1>6. ASSUME NEW m \in Nat, \A i \in D : m <= ShareOf(part[i], whole[i])
      PROVE  m <= all
  <2>1. CASE m = 0
    BY <1>4, <2>1
  <2>2. CASE m = 1
    <3>1. PICK i \in D : TRUE
      OBVIOUS
    <3>2. ShareOf(part[i], whole[i]) # 0
      BY <1>3, <1>6, <2>2
    <3>3. all # 0
      BY <1>5, <3>2
    <3>4. QED BY <1>4, <2>2, <3>3
  <2>3. CASE m >= 2
    <3>1. \A i \in D : /\ whole[i] \in Int /\ part[i] \in Int
                       /\ m * whole[i] + 0 <= 100 * part[i]
      <4> SUFFICES ASSUME NEW i \in D PROVE m * whole[i] + 0 <= 100 * part[i]
        OBVIOUS
      <4>1. m * whole[i] <= 100 * part[i] /\ m * whole[i] \in Int
        BY <1>3, <1>6, <2>3
      <4>2. QED BY <4>1
    <3>2. m * wholes + 0 <= 100 * parts
      BY <3>1, SumsCompare DEF parts, wholes
    <3>3. m * wholes <= 100 * parts
      <4>1. m * wholes \in Int
        BY <1>2
      <4>2. QED BY <3>2, <4>1
    <3>4. QED BY <1>4, <2>3, <3>3
  <2>4. QED BY <2>1, <2>2, <2>3
<1>7. ASSUME NEW m \in Nat, \A i \in D : ShareOf(part[i], whole[i]) <= m
      PROVE  all <= m
  <2>1. CASE m = 0
    <3>1. \A i \in D : /\ part[i] \in Int /\ whole[i] \in Int
                       /\ 1 * part[i] + 0 <= 0 * whole[i]
      BY <1>3, <1>7, <2>1
    <3>2. 1 * parts + 0 <= 0 * wholes
      BY <3>1, SumsCompare DEF parts, wholes
    <3>3. parts = 0
      BY <1>1, <1>2, <3>2
    <3>4. QED BY <1>4, <2>1, <3>3
  <2>2. CASE m >= 1
    <3>1. \A i \in D : /\ part[i] \in Int /\ whole[i] \in Int
                       /\ 100 * part[i] + 1 <= (m + 1) * whole[i]
      <4> SUFFICES ASSUME NEW i \in D
          PROVE 100 * part[i] + 1 <= (m + 1) * whole[i]
        OBVIOUS
      <4>1. ~(m + 1 <= ShareOf(part[i], whole[i]))
        BY <1>3, <1>7
      <4>2. ~((m + 1) * whole[i] <= 100 * part[i])
        BY <1>3, <2>2, <4>1
      <4>3. (m + 1) * whole[i] \in Int
        OBVIOUS
      <4>4. QED BY <4>2, <4>3
    <3>2. 100 * parts + 1 <= (m + 1) * wholes
      <4> DEFINE k == m + 1
      <4>1. k \in Int /\ 100 \in Int /\ 1 \in Nat
        OBVIOUS
      <4>2. \A i \in D : /\ part[i] \in Int /\ whole[i] \in Int
                         /\ 100 * part[i] + 1 <= k * whole[i]
        BY <3>1
      <4> HIDE DEF k
      <4>3. 100 * parts + 1 <= k * wholes
        BY <4>1, <4>2, SumsCompare DEF parts, wholes
      <4>4. QED BY <4>3 DEF k
    <3>3. ~((m + 1) * wholes <= 100 * parts)
      <4>1. (m + 1) * wholes \in Int
        BY <1>2
      <4>2. QED BY <1>1, <3>2, <4>1
    <3>4. ~(m + 1 <= all)
      BY <1>4, <2>2, <3>3
    <3>5. QED BY <1>4, <3>4
  <2>3. QED BY <2>1, <2>2
<1>8. QED BY <1>4, <1>5, <1>6, <1>7 DEF all, parts, wholes

\* The capacity a row's share is a part of.
CapacityOf(w) == IF w.capPct > 0 THEN w.capPct ELSE 100

\* A row whose share is known shows it, as a part of its capacity.
LEMMA ShownShare ==
  ASSUME NEW w, Measured(w), ~Flagged(w), Known(Progress(w))
  PROVE  /\ RemainingPercent(w) \in Nat /\ Known(RemainingPercent(w))
         /\ CapacityOf(w) \in Nat \ {0}
         /\ w.capPct > 0 \/ Max({100, RemainingPercent(w)}) = 100
         /\ Progress(w) = ShareOf(RemainingPercent(w), CapacityOf(w))
         /\ Progress(w) \in Nat
<1> DEFINE q == QuotaPercent(w)
           r == RemainingPercent(w)
<1>1. /\ w.used \in Int /\ w.total \in Int /\ w.remaining \in Int
      /\ w.usedPct \in Nat /\ w.leftPct \in Nat /\ w.capPct \in Nat
      /\ w.capPct = 0 => w.leftPct <= 100
  BY DEF Measured
<1>2. q = None \/ q \in 0..100
  <2>1. /\ Clamp(w.usedPct, 100) \in 0..100
        /\ Clamp(100 - w.leftPct, 100) \in 0..100
    <3>1. w.usedPct \in Int /\ 100 - w.leftPct \in Int /\ 100 \in Nat
      BY <1>1
    <3>2. QED BY <3>1, ClampInRange
  <2>2. Percent(w.used, w.total) \in 0..100
    BY <1>1, PercentInRange
  <2>3. Percent(w.total - w.remaining, w.total) \in 0..100
    <3>1. w.total - w.remaining \in Int
      BY <1>1
    <3>2. QED BY <1>1, <3>1, PercentInRange
  <2>4. QED BY <2>1, <2>2, <2>3 DEF QuotaPercent
<1>3. Known(r)
  <2>1. ~Known(RemainingPercent(w)) => Progress(w) = None
    BY DEF Progress
  <2>2. QED BY <2>1 DEF Known
<1>4. r \in Nat /\ (w.capPct = 0 => r <= 100)
  <2> HIDE DEF q
  <2>1. r = IF w.leftPct # 0 THEN w.leftPct ELSE IF Known(q) THEN 100 - q ELSE None
    BY DEF RemainingPercent, q
  <2> HIDE DEF r
  <2>2. CASE w.leftPct # 0
    BY <1>1, <2>1, <2>2
  <2>3. CASE w.leftPct = 0
    <3>1. r = 100 - q /\ q \in 0..100
      BY <1>2, <1>3, <2>1, <2>3 DEF Known
    <3>2. QED BY <3>1
  <2>4. QED BY <2>2, <2>3
<1> HIDE DEF r, q
<1>5. Progress(w) = IF w.capPct > 0 THEN ShareOf(r, w.capPct) ELSE r
  BY <1>3 DEF Progress, r
<1>6. CASE w.capPct > 0
  <2>1. CapacityOf(w) = w.capPct /\ w.capPct \in Nat \ {0}
    BY <1>1, <1>6 DEF CapacityOf
  <2>2. Progress(w) = ShareOf(r, CapacityOf(w))
    BY <1>5, <1>6, <2>1
  <2>3. Progress(w) \in Nat
    BY <1>4, <2>1, <2>2, ShareBounds
  <2>4. QED BY <1>3, <1>4, <1>6, <2>1, <2>2, <2>3 DEF r
<1>7. CASE ~(w.capPct > 0)
  <2>1. r \in 0..100 /\ Progress(w) = r /\ CapacityOf(w) = 100
    BY <1>1, <1>4, <1>5, <1>7 DEF CapacityOf
  <2>2. ShareOf(r, 100) = r
    BY <2>1 DEF ShareOf
  <2>3. Max({100, r}) = 100
    BY <2>1, NatMax
  <2>4. QED BY <1>3, <1>4, <1>7, <2>1, <2>2, <2>3 DEF r
<1>8. QED BY <1>6, <1>7

\* A row whose percentage does not contradict its own figures.
Coherent(w) ==
  /\ Known(Progress(w))
  /\ (w.total > 0 /\ Known(QuotaRemaining(w))) =>
       Progress(w) = ShareOf(QuotaRemaining(w), w.total)

\* What is left of such a row is not less than nothing.
LEMMA SomethingLeft ==
  ASSUME NEW w, Measured(w), ~Flagged(w), Coherent(w), w.total > 0,
         Known(QuotaRemaining(w))
  PROVE  /\ QuotaRemaining(w) \in Nat /\ w.total \in Nat \ {0}
         /\ Progress(w) = ShareOf(QuotaRemaining(w), w.total)
<1> DEFINE r == QuotaRemaining(w)
<1>1. w.used \in Int /\ w.total \in Nat \ {0} /\ w.remaining \in Int
  BY DEF Measured
<1>2. r \in Int
  BY <1>1 DEF QuotaRemaining, AtLeast0, Known
<1>3. Progress(w) = ShareOf(r, w.total) /\ Progress(w) \in Nat
  BY ShownShare DEF Coherent
<1> HIDE DEF r
<1>4. r >= 0
  <2> SUFFICES ASSUME r <= -1 PROVE FALSE
    BY <1>2
  <2> DEFINE q == (r * 100) \div w.total
  <2>1. ShareOf(r, w.total) = q
    BY <1>2 DEF ShareOf
  <2>2. q \in Int /\ w.total * q <= r * 100
    BY <1>1, <1>2
  <2>3. q >= 0
    BY <1>3, <2>1
  <2> HIDE DEF q
  <2>4. w.total * q >= 0
    BY <1>1, <2>2, <2>3
  <2>5. QED BY <1>1, <1>2, <2>2, <2>4
<1>5. QED BY <1>1, <1>2, <1>3, <1>4 DEF r

\* The shares of the keys in a bucket.
SharesOf(entries, finite) == {Progress(entries[i]) : i \in finite}

\* p is not outside the shares S, and says exhausted only when all of S do.
InBetween(p, S) ==
  /\ Min(S) <= p /\ p <= Max(S)
  /\ p = 0 => Max(S) = 0

\* Finitely many shares have a least and a greatest.
LEMMA SharesHaveBounds ==
  ASSUME NEW n \in Nat, NEW finite, finite \subseteq 1..n, finite # {},
         NEW entries, \A i \in finite : Progress(entries[i]) \in Nat
  PROVE  LET S == SharesOf(entries, finite)
         IN  /\ Min(S) \in Nat /\ Max(S) \in Nat
             /\ Min(S) \in S /\ Max(S) \in S
             /\ \A x \in S : x \in Nat /\ Min(S) <= x /\ x <= Max(S)
<1> DEFINE S == SharesOf(entries, finite)
           f == [i \in finite |-> Progress(entries[i])]
<1>1. S \subseteq Nat /\ S # {}
  BY DEF SharesOf
<1>2. PICK bound \in Nat : \A i \in finite : f[i] <= bound
  <2>1. \A i \in finite : f[i] \in Nat
    OBVIOUS
  <2> HIDE DEF f
  <2>2. QED BY <2>1, IndexedMax
<1>3. S \subseteq 0..bound
  <2>1. ASSUME NEW x \in S PROVE x \in 0..bound
    <3>1. PICK i \in finite : x = Progress(entries[i])
      BY DEF SharesOf
    <3>2. x = f[i] /\ x \in Nat
      BY <3>1
    <3>3. QED BY <1>2, <3>2
  <2>2. QED BY <2>1
<1> HIDE DEF S, f
<1>4. Min(S) \in S /\ \A x \in S : Min(S) <= x
  BY <1>1, NatMin
<1>5. Max(S) \in S /\ \A x \in S : x <= Max(S)
  BY <1>1, <1>3, NatMax
<1>6. QED BY <1>1, <1>4, <1>5 DEF S

\* A sum of parts is in between, whatever the parts are of.
LEMMA SumInBetween ==
  ASSUME NEW n \in Nat, NEW finite, finite \subseteq 1..n, finite # {},
         NEW entries, NEW part, NEW whole,
         DOMAIN part = finite, DOMAIN whole = finite,
         \A i \in finite : /\ part[i] \in Nat /\ whole[i] \in Nat \ {0}
                           /\ Progress(entries[i]) = ShareOf(part[i], whole[i])
  PROVE  InBetween(ShareOf(SumFunction(part), SumFunction(whole)),
                   SharesOf(entries, finite))
<1> DEFINE S == SharesOf(entries, finite)
           all == ShareOf(SumFunction(part), SumFunction(whole))
<1>1. IsFiniteSet(finite)
  <2>1. IsFiniteSet(1..n)
    BY FS_Interval
  <2>2. QED BY <2>1, FS_Subset
<1>2. /\ all \in Nat
      /\ all = 0 => \A i \in finite : ShareOf(part[i], whole[i]) = 0
      /\ \A m \in Nat :
           (\A i \in finite : m <= ShareOf(part[i], whole[i])) => m <= all
      /\ \A m \in Nat :
           (\A i \in finite : ShareOf(part[i], whole[i]) <= m) => all <= m
  BY <1>1, ShareOfSums
<1>3. \A i \in finite : Progress(entries[i]) \in Nat
  BY ShareBounds
<1>4. /\ Min(S) \in Nat /\ Max(S) \in Nat /\ Max(S) \in S
      /\ \A x \in S : Min(S) <= x /\ x <= Max(S)
  BY <1>3, SharesHaveBounds
<1>5. \A i \in finite : ShareOf(part[i], whole[i]) \in S
  BY DEF SharesOf
<1>6. Max(S) \in S => \E i \in finite : Max(S) = ShareOf(part[i], whole[i])
  <2> DEFINE most == Max(S)
  <2> HIDE DEF most
  <2>1. most \in S => \E i \in finite : most = ShareOf(part[i], whole[i])
    BY DEF SharesOf
  <2>2. QED BY <2>1 DEF most
<1> HIDE DEF S, all
<1>7. Min(S) <= all
  <2>1. \A i \in finite : Min(S) <= ShareOf(part[i], whole[i])
    BY <1>4, <1>5
  <2>2. QED BY <1>2, <1>4, <2>1
<1>8. all <= Max(S)
  <2>1. \A i \in finite : ShareOf(part[i], whole[i]) <= Max(S)
    BY <1>4, <1>5
  <2>2. QED BY <1>2, <1>4, <2>1
<1>9. all = 0 => Max(S) = 0
  BY <1>2, <1>4, <1>6
<1>10. QED BY <1>7, <1>8, <1>9 DEF InBetween, S, all

\* The allowances of keys that are added up leave a share in between.
LEMMA AddedInBetween ==
  ASSUME NEW n \in Nat, NEW finite, finite \subseteq 1..n, finite # {},
         NEW entries,
         \A i \in finite : /\ Measured(entries[i]) /\ ~Flagged(entries[i])
                           /\ Coherent(entries[i])
  PROVE  LET a == AddedAllowance(entries, finite)
         IN  /\ a.state = "finite"
             /\ InBetween(a.progress, SharesOf(entries, finite))
<1> DEFINE left == [i \in finite |-> AtLeast0(Or0(QuotaRemaining(entries[i])))]
           pct == [i \in finite |-> AtLeast0(Or0(RemainingPercent(entries[i])))]
           capacity == [i \in finite |-> IF entries[i].capPct > 0
                                         THEN entries[i].capPct
                                         ELSE Max({100, pct[i]})]
           totals == [i \in finite |-> entries[i].total]
           every == \A i \in finite : Known(QuotaRemaining(entries[i]))
           exact == every /\ \A i \in finite : entries[i].total > 0
           shares == \A i \in finite : Known(RemainingPercent(entries[i]))
           boosted == \E i \in finite : capacity[i] # 100
           share == ShareOf(SumFunction(pct), SumFunction(capacity))
           whole == ShareOf(SumFunction(left), SumFunction(totals))
           a == AddedAllowance(entries, finite)
           S == SharesOf(entries, finite)
<1>1. a.state = "finite"
      /\ a.progress = IF shares /\ (~exact \/ boosted) THEN share
                      ELSE IF exact THEN whole ELSE None
  BY DEF AddedAllowance, Nothing
<1>2. \A i \in finite :
        /\ RemainingPercent(entries[i]) \in Nat
        /\ Known(RemainingPercent(entries[i]))
        /\ CapacityOf(entries[i]) \in Nat \ {0}
        /\ \/ entries[i].capPct > 0
           \/ Max({100, RemainingPercent(entries[i])}) = 100
        /\ Progress(entries[i])
             = ShareOf(RemainingPercent(entries[i]), CapacityOf(entries[i]))
  BY ShownShare DEF Coherent
<1>0. \A x \in Nat : Known(x) => AtLeast0(Or0(x)) = x
  BY DEF Or0, AtLeast0
<1>3. \A i \in finite : pct[i] = RemainingPercent(entries[i])
  <2> SUFFICES ASSUME NEW i \in finite PROVE pct[i] = RemainingPercent(entries[i])
    OBVIOUS
  <2>1. pct[i] = AtLeast0(Or0(RemainingPercent(entries[i])))
    OBVIOUS
  <2>2. RemainingPercent(entries[i]) \in Nat /\ Known(RemainingPercent(entries[i]))
    BY <1>2
  <2> HIDE DEF pct
  <2>3. QED BY <1>0, <2>1, <2>2, Zenon
<1>4. \A i \in finite : capacity[i] = CapacityOf(entries[i])
  <2> SUFFICES ASSUME NEW i \in finite PROVE capacity[i] = CapacityOf(entries[i])
    OBVIOUS
  <2>1. capacity[i] = IF entries[i].capPct > 0 THEN entries[i].capPct
                      ELSE Max({100, RemainingPercent(entries[i])})
    BY <1>3
  <2>2. QED BY <1>2, <2>1 DEF CapacityOf
<1>5. InBetween(share, S)
  <2>1. DOMAIN pct = finite /\ DOMAIN capacity = finite
    OBVIOUS
  <2> HIDE DEF pct, capacity, S
  <2>2. \A i \in finite :
          /\ pct[i] \in Nat /\ capacity[i] \in Nat \ {0}
          /\ Progress(entries[i]) = ShareOf(pct[i], capacity[i])
    <3> SUFFICES ASSUME NEW i \in finite
        PROVE  /\ pct[i] \in Nat /\ capacity[i] \in Nat \ {0}
               /\ Progress(entries[i]) = ShareOf(pct[i], capacity[i])
      OBVIOUS
    <3>1. /\ pct[i] = RemainingPercent(entries[i])
          /\ capacity[i] = CapacityOf(entries[i])
      BY <1>3, <1>4
    <3>2. /\ RemainingPercent(entries[i]) \in Nat
          /\ CapacityOf(entries[i]) \in Nat \ {0}
          /\ Progress(entries[i])
               = ShareOf(RemainingPercent(entries[i]), CapacityOf(entries[i]))
      BY <1>2
    <3>3. QED BY <3>1, <3>2
  <2>3. QED BY <2>1, <2>2, SumInBetween DEF S
<1>6. ASSUME exact PROVE InBetween(whole, S)
  <2>1. \A i \in finite :
          /\ QuotaRemaining(entries[i]) \in Nat /\ entries[i].total \in Nat \ {0}
          /\ Progress(entries[i]) = ShareOf(QuotaRemaining(entries[i]), entries[i].total)
    BY <1>6, SomethingLeft
  <2>2. \A i \in finite : left[i] = QuotaRemaining(entries[i])
                            /\ totals[i] = entries[i].total
    BY <1>0, <1>6, <2>1
  <2>3. DOMAIN left = finite /\ DOMAIN totals = finite
    OBVIOUS
  <2> HIDE DEF left, totals, S
  <2>4. \A i \in finite :
          /\ left[i] \in Nat /\ totals[i] \in Nat \ {0}
          /\ Progress(entries[i]) = ShareOf(left[i], totals[i])
    BY <2>1, <2>2
  <2>5. QED BY <2>3, <2>4, SumInBetween DEF S
<1>7. shares
  BY <1>2
<1> HIDE DEF a, S, share, whole, shares, exact, boosted
<1>8. InBetween(a.progress, S)
  BY <1>1, <1>5, <1>6, <1>7
<1>9. QED BY <1>1, <1>8 DEF a, S

\* When all shares are the same, that one is in between.
LEMMA OneShare ==
  ASSUME NEW n \in Nat, NEW finite, finite \subseteq 1..n, finite # {},
         NEW entries, NEW p \in Nat, \A i \in finite : Progress(entries[i]) = p
  PROVE  InBetween(p, SharesOf(entries, finite))
<1> DEFINE S == SharesOf(entries, finite)
<1>1. Min(S) \in S /\ Max(S) \in S
  <2>1. \A i \in finite : Progress(entries[i]) \in Nat
    OBVIOUS
  <2>2. QED BY <2>1, SharesHaveBounds
<1>2. \A x \in S : x = p
  BY DEF SharesOf
<1> HIDE DEF S
<1>3. Min(S) = p /\ Max(S) = p
  BY <1>1, <1>2
<1>4. QED BY <1>3 DEF InBetween, S

\* Figures that are all in a set of one are the same.
LEMMA AllTheSame ==
  ASSUME NEW D, IsFiniteSet(D), NEW f, NEW V, f \in Surjection(D, V),
         Cardinality(V) = 1
  PROVE  \A i, j \in D : f[i] = f[j]
<1>1. IsFiniteSet(V)
  BY FS_Surjection
<1>2. PICK x : V = {x}
  BY <1>1, FS_Singleton
<1>3. \A i \in D : f[i] \in V
  BY DEF Surjection
<1>4. QED BY <1>2, <1>3

\* A shared allowance is shown with a share in between, or the range of all.
LEMMA SharedInBetween ==
  ASSUME NEW n \in Nat, NEW finite, finite \subseteq 1..n, finite # {},
         NEW entries,
         \A i \in finite : /\ Measured(entries[i]) /\ ~Flagged(entries[i])
                           /\ Coherent(entries[i])
  PROVE  LET a == SharedAllowance(entries, finite)
             S == SharesOf(entries, finite)
         IN  /\ a.state = "finite" => InBetween(a.progress, S)
             /\ a.state = "range" => a.low = Min(S) /\ a.high = Max(S)
<1> DEFINE totals == {entries[i].total : i \in finite}
           remains == {QuotaRemaining(entries[i]) : i \in finite}
           one == entries[Min(finite)]
           S == SharesOf(entries, finite)
           known == S \ {None}
           figures == /\ Cardinality(totals) = 1 /\ \A t \in totals : t > 0
                      /\ Cardinality(remains) = 1 /\ None \notin remains
           single == Cardinality(S) = 1 /\ None \notin S
           least == IF known = {} THEN None ELSE Min(known)
           most == IF known = {} THEN None ELSE Max(known)
           alike == [Nothing EXCEPT !.total = one.total,
                                    !.remaining = one.remaining,
                                    !.used = one.used, !.progress = Progress(one)]
           same == [Nothing EXCEPT !.progress = Progress(one)]
           range == [Nothing EXCEPT !.state = "range", !.low = least, !.high = most]
           a == SharedAllowance(entries, finite)
<1> SUFFICES /\ a.state = "finite" => InBetween(a.progress, S)
             /\ a.state = "range" => a.low = Min(S) /\ a.high = Max(S)
  OBVIOUS
<1>1. a = IF figures THEN alike ELSE IF single THEN same ELSE range
  BY Zenon DEF SharedAllowance, SharesOf
<1>9. ~figures /\ ~single => a = range
  <2> HIDE DEF figures, single, alike, same, range, a
  <2>1. QED BY <1>1, Zenon
<1>2. Min(finite) \in finite
  <2>1. finite \subseteq Nat
    OBVIOUS
  <2>2. QED BY <2>1, NatMin
<1>10. IsFiniteSet(finite)
  <2>1. IsFiniteSet(1..n)
    BY FS_Interval
  <2>2. QED BY <2>1, FS_Subset
<1>3. \A i \in finite : Progress(entries[i]) \in Nat
  BY ShownShare DEF Coherent
<1>4. Progress(one) \in Nat
  BY <1>2, <1>3
<1>5. CASE figures
  <2>1. \A i \in finite : entries[i].total = one.total
    <3> DEFINE f == [i \in finite |-> entries[i].total]
    <3>1. f \in Surjection(finite, totals)
      BY DEF Surjection
    <3>2. Cardinality(totals) = 1
      BY <1>5
    <3> HIDE DEF f, totals
    <3>3. \A i, j \in finite : f[i] = f[j]
      BY <1>10, <3>1, <3>2, AllTheSame
    <3>4. QED BY <1>2, <3>3 DEF f
  <2>2. \A i \in finite : QuotaRemaining(entries[i]) = QuotaRemaining(one)
    <3> DEFINE f == [i \in finite |-> QuotaRemaining(entries[i])]
    <3>1. f \in Surjection(finite, remains)
      BY DEF Surjection
    <3>2. Cardinality(remains) = 1
      BY <1>5
    <3> HIDE DEF f, remains
    <3>3. \A i, j \in finite : f[i] = f[j]
      BY <1>10, <3>1, <3>2, AllTheSame
    <3>4. QED BY <1>2, <3>3 DEF f
  <2>3. ASSUME NEW i \in finite
        PROVE  Progress(entries[i]) = ShareOf(QuotaRemaining(one), one.total)
    <3>1. entries[i].total > 0 /\ Known(QuotaRemaining(entries[i]))
      BY <1>5 DEF Known
    <3>2. Progress(entries[i])
            = ShareOf(QuotaRemaining(entries[i]), entries[i].total)
      BY <3>1 DEF Coherent
    <3>3. QED BY <2>1, <2>2, <3>2
  <2>4. \A i \in finite : Progress(entries[i]) = Progress(one)
    BY <1>2, <2>3
  <2> HIDE DEF figures, one, S, a
  <2>5. InBetween(Progress(one), S)
    BY <1>4, <2>4, OneShare DEF S
  <2>6. a.state = "finite" /\ a.progress = Progress(one)
    BY <1>1, <1>5 DEF Nothing
  <2>7. QED BY <2>5, <2>6
<1>6. CASE ~figures /\ single
  <2>1. \A i \in finite : Progress(entries[i]) = Progress(one)
    <3> DEFINE f == [i \in finite |-> Progress(entries[i])]
    <3>1. f \in Surjection(finite, S)
      BY DEF Surjection, SharesOf
    <3>2. Cardinality(S) = 1
      BY <1>6
    <3> HIDE DEF f, S
    <3>3. \A i, j \in finite : f[i] = f[j]
      BY <1>10, <3>1, <3>2, AllTheSame
    <3>4. QED BY <1>2, <3>3 DEF f
  <2> HIDE DEF figures, single, one, S, a
  <2>2. InBetween(Progress(one), S)
    BY <1>4, <2>1, OneShare DEF S
  <2>3. a.state = "finite" /\ a.progress = Progress(one)
    BY <1>1, <1>6 DEF Nothing
  <2>4. QED BY <2>2, <2>3
<1>7. CASE ~figures /\ ~single
  <2>1. known = S /\ S # {}
    <3>1. \A x \in S : x \in Nat
      BY <1>3 DEF SharesOf
    <3>2. S # {}
      BY DEF SharesOf
    <3> HIDE DEF S
    <3>3. None \notin S
      BY <3>1 DEF None
    <3>4. QED BY <3>2, <3>3
  <2>2. a = range
    <3> HIDE DEF figures, single, range, a
    <3>1. QED BY <1>7, <1>9, Zenon
  <2> HIDE DEF figures, single, one, S, known, a
  <2>3. least = Min(S) /\ most = Max(S)
    BY <2>1
  <2> HIDE DEF least, most
  <2>4. a.state = "range" /\ a.low = least /\ a.high = most
    <3>1. Nothing = [state |-> "finite", total |-> None, remaining |-> None,
                     used |-> None, progress |-> None, low |-> None, high |-> None]
      BY DEF Nothing
    <3>2. range.state = "range"
      BY <3>1
    <3>3. range.low = least
      BY <3>1
    <3>4. range.high = most
      BY <3>1
    <3> HIDE DEF range
    <3>5. QED BY <2>2, <3>2, <3>3, <3>4
  <2>5. QED BY <2>3, <2>4
<1>8. QED BY <1>5, <1>6, <1>7

\* A row in a bucket is one of its key's.
LEMMA EntriesAreRows ==
  ASSUME NEW rs, NEW b, \A i \in DOMAIN rs : AllRead(rs[i].rows),
         NEW i \in DOMAIN Entries(rs, b), Finite(Entries(rs, b)[i])
  PROVE  Measured(Entries(rs, b)[i]) /\ ~Flagged(Entries(rs, b)[i])
<1> DEFINE w == Entries(rs, b)[i]
<1>1. /\ i \in DOMAIN rs
      /\ \E j \in DOMAIN rs[i].rows : Bucket(rs[i].rows, j) = b
      /\ w = rs[i].rows[CHOOSE j \in DOMAIN rs[i].rows : Bucket(rs[i].rows, j) = b]
  BY DEF Entries, Successful
<1> HIDE DEF w
<1>2. PICK j \in DOMAIN rs[i].rows : w = rs[i].rows[j]
  BY <1>1
<1>3. ReadsBack(w)
  BY <1>1, <1>2 DEF AllRead
<1>4. Finite(w)
  BY DEF w
<1>5. QED BY <1>3, <1>4 DEF Finite, ReadsBack, w

\* What a bucket shows is in between, or the range of all.
LEMMA AggregateInBetween ==
  ASSUME NEW rs, NEW b, Len(rs) \in Nat, DOMAIN rs = 1..Len(rs),
         \A i \in DOMAIN rs : AllRead(rs[i].rows),
         NEW finite,
         finite = {i \in DOMAIN Entries(rs, b) : Finite(Entries(rs, b)[i])},
         \A i \in finite : Coherent(Entries(rs, b)[i])
  PROVE  LET sum == Aggregate(rs, b).sum
             S == SharesOf(Entries(rs, b), finite)
         IN  /\ (sum.state = "finite" /\ Known(sum.progress)) =>
                  InBetween(sum.progress, S)
             /\ sum.state = "range" => sum.low = Min(S) /\ sum.high = Max(S)
<1> DEFINE entries == Entries(rs, b)
           sum == Aggregate(rs, b).sum
           S == SharesOf(entries, finite)
           shared == SharedAllowance(entries, finite)
           added == AddedAllowance(entries, finite)
<1> SUFFICES /\ (sum.state = "finite" /\ Known(sum.progress)) =>
                  InBetween(sum.progress, S)
             /\ sum.state = "range" => sum.low = Min(S) /\ sum.high = Max(S)
  OBVIOUS
<1>1. \/ sum.state \in {"mixed", "unlimited", "unknown", "unavailable"}
      \/ finite # {} /\ (sum = shared \/ sum = added)
  <2> DEFINE P == DOMAIN entries
             ok == Successful(rs)
             unavailable == {i \in P : entries[i].unavailable}
             unlimited == {i \in P : entries[i].unlimited /\ ~entries[i].unavailable}
             unknown == P \ (unavailable \cup unlimited \cup finite)
             missing == Cardinality(ok \ P)
             failed == Len(rs) - Cardinality(ok)
             others == finite # {} \/ unavailable # {} \/ unknown # {}
                         \/ missing > 0 \/ failed > 0
             showing == {i \in unlimited : entries[i].showUsed}
             shown == {Or0(entries[i].used) : i \in showing}
             figure == IF showing = {} THEN None
                       ELSE IF b[1][2] = "key"
                       THEN SumFunction([i \in showing |-> entries[i].used])
                       ELSE Max(shown)
             none == IF unknown # {} \/ missing > 0 THEN "unknown" ELSE "unavailable"
             mixed == [Nothing EXCEPT !.state = "mixed"]
             without == [Nothing EXCEPT !.state = "unlimited", !.used = figure]
             empty == [Nothing EXCEPT !.state = none]
  <2>1. sum = IF unlimited # {} /\ b[1][2] # "key" /\ others THEN mixed
              ELSE IF unlimited # {} THEN without
              ELSE IF finite = {} THEN empty
              ELSE IF b[1][2] # "key" THEN shared ELSE added
    BY DEF Aggregate
  <2>2. none \in {"unknown", "unavailable"}
    OBVIOUS
  <2> HIDE DEF figure, none
  <2>3. /\ mixed.state = "mixed" /\ without.state = "unlimited"
        /\ empty.state = none
    BY DEF Nothing
  <2> HIDE DEF sum, entries, unlimited, others, mixed, without, empty, shared, added
  <2>4. QED BY <2>1, <2>2, <2>3
<1>2. \A i \in finite :
        /\ Measured(entries[i]) /\ ~Flagged(entries[i]) /\ Coherent(entries[i])
  BY EntriesAreRows
<1>3. finite \subseteq 1..Len(rs)
  BY EntriesAreKeys
<1> HIDE DEF entries
<1>4. finite # {} =>
        /\ added.state = "finite" /\ InBetween(added.progress, S)
  BY <1>2, <1>3, AddedInBetween
<1>5. finite # {} =>
        /\ shared.state = "finite" => InBetween(shared.progress, S)
        /\ shared.state = "range" => shared.low = Min(S) /\ shared.high = Max(S)
  BY <1>2, <1>3, SharedInBetween
<1> HIDE DEF sum, shared, added, S
<1>6. QED BY <1>1, <1>4, <1>5

\* The share a summary shows is never outside the shares of its keys, and a
\* summary says exhausted only when all of them are, for any figures of any
\* number of keys whose rows do not contradict themselves (dashboard.go,
\* aggregateQuotaWindows).
THEOREM SharesAreInBetween == ViewSpec => []ShareInBetween
<1>1. ViewInit => SummaryInv /\ ReadInv
  BY DEF ViewInit, FetchInit, SummaryInv, ReadInv, NoEntries
<1>2. SummaryInv /\ ReadInv /\ [ViewNext]_viewVars => (SummaryInv /\ ReadInv)'
  BY SummaryFollows, ReadFollows
<1>3. SummaryInv /\ ReadInv => ShareInBetween
  <2> SUFFICES ASSUME SummaryInv, ReadInv, NEW b \in DOMAIN summary
      PROVE  LET sum == summary[b].sum
                 entries == Entries(results, b)
                 finite == {i \in DOMAIN entries : Finite(entries[i])}
                 shares == SharesOf(entries, finite)
             IN  (\A i \in finite : Coherent(entries[i])) =>
                   /\ (sum.state = "finite" /\ Known(sum.progress)) =>
                        InBetween(sum.progress, shares)
                   /\ sum.state = "range" =>
                        sum.low = Min(shares) /\ sum.high = Max(shares)
    BY Zenon DEF ShareInBetween, Coherent, SharesOf, InBetween
  <2>1. summary[b] = Aggregate(results, b)
    BY DEF SummaryInv, AggregateQuotaWindows
  <2>2. Len(results) \in Nat /\ DOMAIN results = 1..Len(results)
    BY DEF SummaryInv
  <2>3. \A i \in DOMAIN results : AllRead(results[i].rows)
    BY DEF ReadInv
  <2> DEFINE entries == Entries(results, b)
             finite == {i \in DOMAIN entries : Finite(entries[i])}
             shares == SharesOf(entries, finite)
  <2> SUFFICES ASSUME \A i \in finite : Coherent(entries[i])
      PROVE  /\ (summary[b].sum.state = "finite" /\ Known(summary[b].sum.progress)) =>
                  InBetween(summary[b].sum.progress, shares)
             /\ summary[b].sum.state = "range" =>
                  /\ summary[b].sum.low = Min(shares)
                  /\ summary[b].sum.high = Max(shares)
    OBVIOUS
  <2>4. finite = {i \in DOMAIN Entries(results, b) : Finite(Entries(results, b)[i])}
    OBVIOUS
  <2> HIDE DEF finite
  <2>5. QED BY <2>1, <2>2, <2>3, <2>4, AggregateInBetween
<1>4. QED BY <1>1, <1>2, <1>3, PTL DEF ViewSpec

\* The summary of a service is one of all its keys and of nothing else
\* (README: keys that fail or lack a figure are named; types.go: shared
\* allowances must not be summed), for any number of keys.
THEOREM SummariesAccountForAll == ViewSpec => []SummaryAccountsForAll
<1>1. KeysCountedOnce /\ SharedNotAdded /\ ShareInBetween => SummaryAccountsForAll
  BY DEF SummaryAccountsForAll
<1>2. QED
  BY <1>1, SummaryCountsAll, SharedAreNotAdded, SharesAreInBetween, PTL
===============================================================================
