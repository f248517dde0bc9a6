----------------------------- MODULE MCProviderView -----------------------------
(***************************************************************************)
(* ProviderView for TLC: queries of every provider, the answers that make  *)
(* a difference to each endpoint, and for every parser the figures that    *)
(* take each of its branches.  Claude reports have three pages at most.      *)
(***************************************************************************)
EXTENDS ProviderView

Query(type, token, address, proxy) ==
  [type |-> type, token |-> token, address |-> address, proxy |-> proxy]

MCFetches ==
  {Query(t, "key", "https", "") :
     t \in {"glm", "claude", "sub2api", "minimax", "newapi", "kimi_api",
            "deepseek", "minimax_api", "console"}}
  \cup {Query("kimi_code", "key", "", p) : p \in {"direct", "socks5h", "ftp"}}
  \cup {Query(t, k, a, "") : t \in {"claude", "newapi", "deepseek"},
                             k \in {"", "key"}, a \in {"", "ftp"}}

-------------------------------------------------------------------------------
(* Exchanges *)

NoError == [given |-> FALSE, code |-> "", says |-> {}]

ErrorOf(code, says) == [given |-> TRUE, code |-> code, says |-> says]

Body == [code |-> "", success |-> "absent", says |-> {}, error |-> NoError,
         rows |-> TRUE, more |-> FALSE, tokens |-> 1]

Now == [form |-> "none", value |-> 0]

Whole(body) ==
  [end |-> "whole", hops |-> <<>>, causes |-> {}, status |-> 200,
   after |-> Now, error |-> <<>>, body |-> body]

Ends(end, causes) == [Whole(Body) EXCEPT !.end = end, !.causes = causes]

Status(status, after, place, code, says) ==
  [Whole(Body) EXCEPT
     !.status = status, !.after = after,
     !.error = [p \in {place} |-> [code |-> code, says |-> says]]]

Plain(status) == Status(status, Now, "top", "", {})

Seconds(n) == [form |-> "seconds", value |-> n]
HalfSeconds(n) == [form |-> "date", value |-> n]

\* What can go wrong with any request.
Troubles ==
  {Ends("lost", {"timeout"}), Ends("lost", {"dns"}), Ends("cut", {"deadline"}),
   Ends("garbled", {}), Plain(401), Plain(404),
   Status(400, Now, "error", "invalid_api_key", {}),
   Status(401, Now, "data.error", "api_key_expired", {}),
   Status(429, Seconds(7), "base_resp", "", {}),
   Status(429, HalfSeconds(9), "top", "insufficient_quota", {}),
   Status(503, Now, "data", "", {"permission"})}

\* And what else, seen by the provider whose query is simple enough.
RareTroubles ==
  {Ends("lost", {}), Ends("lost", {"tls", "dns"}), Ends("oversized", {}),
   [Plain(200) EXCEPT !.hops = <<"same", "foreign">>],
   [Plain(200) EXCEPT !.hops = [i \in 1..MaxRedirects |-> "same"]],
   Status(400, Now, "top", "", {}), Status(402, Now, "top", "", {}),
   Status(403, Now, "data.base_resp", "", {}), Plain(405), Plain(408),
   Status(409, Seconds(-1), "top", "", {}),
   Status(418, Now, "error", "overloaded_error", {}),
   Status(429, Now, "top", "", {"overload"}),
   Status(451, Now, "top", "", {"credential"})}

Refusals(codes) ==
  {Whole([Body EXCEPT !.code = c]) : c \in codes}

\* A report that is only part of the data.
PartTroubles ==
  {Ends("lost", {"timeout"}), Plain(401),
   Whole([Body EXCEPT !.success = "yes", !.rows = FALSE]),
   Whole([Body EXCEPT !.code = "1302", !.rows = FALSE])}

Pages ==
  {Whole([Body EXCEPT !.tokens = n, !.more = m]) :
     n \in {-1, 2, 3}, m \in BOOLEAN}

PageTroubles ==
  {Ends("lost", {"timeout"}), Plain(401), Status(429, Seconds(7), "top", "", {}),
   Status(429, Seconds(3), "top", "", {}), Plain(500)}

Envelopes ==
  {Whole([Body EXCEPT !.success = "no"]),
   Whole([Body EXCEPT !.rows = FALSE]),
   Whole([Body EXCEPT !.error = ErrorOf("user_not_found", {})]),
   Whole([Body EXCEPT !.error = ErrorOf("", {"usage-limit"})]),
   Whole([Body EXCEPT !.error = ErrorOf("", {})])}

MCExchanges ==
  [e \in Endpoints |->
     CASE e = "glm-quota" ->
            {Whole(Body), Whole([Body EXCEPT !.rows = FALSE])}
              \cup Troubles \cup Refusals({"200", "1001", "1113"})
       [] e \in {"glm-models", "glm-tools"} ->
            {Whole([Body EXCEPT !.success = "yes"]), Whole(Body)}
              \cup PartTroubles
       [] e = "minimax-remains" ->
            {Whole(Body), Whole([Body EXCEPT !.rows = FALSE])}
              \cup Troubles \cup Refusals({"0", "1004", "2056"}) \cup Envelopes
       [] e = "newapi-status" -> {Whole(Body), Plain(500)}
       [] e = "kimi-balance" ->
            {Whole([Body EXCEPT !.code = "0", !.success = "yes"]),
             Whole([Body EXCEPT !.code = "0", !.success = "yes", !.rows = FALSE])}
              \cup Troubles \cup Refusals({"1"}) \cup Envelopes
       [] e = "kimi-usages" -> {Whole(Body)} \cup Troubles \cup RareTroubles
       [] e \in {"claude-usage", "claude-costs"} ->
            Pages \cup PageTroubles \cup {Whole([Body EXCEPT !.rows = FALSE])}
       [] OTHER -> {Whole(Body)} \cup Troubles \cup Envelopes]

-------------------------------------------------------------------------------
(* What the answers report *)

Limit(type, period, pct, current, remaining, total) ==
  [type |-> type, period |-> period, percentage |-> pct,
   currentValue |-> current, remaining |-> remaining, usage |-> 0,
   total |-> total]

FiveHours ==
  {Limit("TOKENS_LIMIT", "5h", p, c, r, t) :
     p \in {None, 0, 25, 100}, c \in {None, 0, 10, 40}, r \in {None, 0, 30},
     t \in {0, 40}}

Week(p) == Limit("TOKENS_LIMIT", "week", p, None, None, 0)
Tools == [Limit("TIME_LIMIT", "month", 25, None, None, 0) EXCEPT !.usage = 20]

GLMData ==
  {[limits |-> <<l>>] : l \in FiveHours}
  \cup {[limits |-> <<Limit("TOKENS_LIMIT", "5h", p, None, None, 0), Week(q)>>] :
           p \in {0, 100}, q \in {0, 25, 100}}
  \cup {[limits |-> <<Tools, Week(100), Week(25)>>]}

Part(total, count, pct, status, boost) ==
  [total |-> total, count |-> count, pct |-> pct, status |-> status,
   boost |-> boost, present |-> TRUE]

NoPart == [Part(0, None, None, 0, None) EXCEPT !.present = FALSE]

Intervals ==
  {Part(t, c, p, s, b) :
     t \in {0, 4}, c \in {None, 0, 1, 4}, p \in {None, 0, 50, 100},
     s \in {1, 2, 3}, b \in {None, 500, 1500, 3000}}

Model(interval, weekly) ==
  [name |-> "general", interval |-> interval, weekly |-> weekly]

MiniMaxData ==
  {[models |-> <<>>]}
  \cup {[models |-> <<Model(i, Part(0, None, 50, 1, None))>>] : i \in Intervals}
  \cup {[models |-> <<Model(i, w)>>] :
           i \in {NoPart, Part(0, None, None, 3, None)},
           w \in {NoPart, Part(0, None, None, 3, None), Part(4, 1, None, 1, 2000),
                  Part(0, None, 50, 2, None)}}

KeyLimit(total, used, remaining) ==
  [window |-> "5h", total |-> total, used |-> used, remaining |-> remaining]

Subscription(period, used, limit) ==
  [period |-> period, used |-> used, limit |-> limit]

Sub2APIData ==
  {[limits |-> <<KeyLimit(t, u, r)>>, subscription |-> <<>>, wallet |-> None] :
     t \in {None, 0, 40}, u \in {None, 0, 10, 50}, r \in {None, 0, 20, 30}}
  \cup {[limits |-> <<>>, wallet |-> w,
         subscription |-> <<Subscription("daily", u, l)>>] :
           u \in {None, 0, 10, 50}, l \in {None, -1, 0, 40}, w \in {None, 5}}

Display(success, perUnit, display) ==
  [success |-> success, perUnit |-> perUnit, display |-> display,
   usdRate |-> 7, customRate |-> 0]

AbsurdRate == [Display(TRUE, 1, "CNY") EXCEPT !.usdRate = MaxFloat]

Displays ==
  {Display(FALSE, 5, "USD"), Display(TRUE, 0, "USD")}
  \cup {Display(TRUE, 5, d) : d \in {"USD", "CNY", "CUSTOM", "TOKENS"}}

NewAPIData ==
  {[legacy |-> FALSE, unlimited |-> unlimited, granted |-> g, used |-> u,
    available |-> a, status |-> s] :
     unlimited \in BOOLEAN, g \in {0, 40}, u \in {0, 10, 40}, a \in {0, 30},
     s \in Displays}
  \cup {[legacy |-> FALSE, unlimited |-> TRUE, granted |-> 0, used |-> None,
         available |-> 0, status |-> Display(TRUE, 5, "USD")]}
  \cup {[legacy |-> FALSE, unlimited |-> FALSE, granted |-> g, used |-> 0,
         available |-> g, status |-> AbsurdRate] : g \in {1, 2}}
  \cup {[legacy |-> TRUE, hard |-> MaxFloat, system |-> 0, soft |-> 0,
         cents |-> c] : c \in {0, -100}}
  \cup {[legacy |-> TRUE, hard |-> h, system |-> y, soft |-> f, cents |-> c] :
           h \in {0, 40, NoHardLimit}, y \in {0, 100}, f \in {0, 20},
           c \in {0, 1000, 5000}}

Usage(limit, used) == [limit |-> limit, used |-> used, remaining |-> None]

NoUsage == Usage(None, None)

Booster(amount, left, enabled, cap, monthUsed) ==
  [amount |-> amount, left |-> left, enabled |-> enabled, cap |-> cap,
   monthUsed |-> monthUsed]

NoBooster == Booster(None, None, FALSE, None, None)

Kimi(week, all, rolling, booster) ==
  [week |-> week, all |-> all, rolling |-> rolling, booster |-> booster]

NoKimi == Kimi(NoUsage, NoUsage, NoUsage, NoBooster)

KimiTops ==
  {Kimi(Usage(l, u), NoUsage, Usage(40, v), NoBooster) :
     l \in {None, 0, 40}, u \in {None, 0, 10, 60}, v \in {10, 40}}
  \cup {Kimi(NoUsage, [limit |-> l, used |-> u, remaining |-> r], NoUsage,
             NoBooster) :
           l \in {None, 0, 40}, u \in {None, 10, 40}, r \in {None, 0, 20}}
  \cup {Kimi(Usage(40, 10), NoUsage, NoUsage, Booster(a, f, e, c, m)) :
           a \in {5, 4000}, f \in {None, 0, 1000}, e \in BOOLEAN,
           c \in {None, 200}, m \in {None, 50, 200}}

KimiData ==
  {[top |-> t, data |-> NoKimi] : t \in KimiTops}
  \cup {[top |-> NoKimi,
         data |-> Kimi(Usage(40, 40), Usage(40, 10), Usage(40, 10),
                       Booster(4000, 1000, TRUE, 200, 50))],
        [top |-> NoKimi, data |-> NoKimi]}

Money(currency, amount) == [currency |-> currency, amount |-> amount]

OwnData ==
  [t \in {f.type : f \in MCFetches} |->
     CASE t = "glm" -> GLMData
       [] t = "minimax" -> MiniMaxData
       [] t = "sub2api" -> Sub2APIData
       [] t = "newapi" -> NewAPIData
       [] t = "kimi_code" -> KimiData
       [] t = "kimi_api" -> {[available |-> a] : a \in {-1, 0, 5}}
       [] t = "deepseek" ->
            {[infos |-> i] :
               i \in {<<Money("cny", 3)>>, <<Money("", 1)>>,
                      <<Money("usd", 2), Money("cny", 3)>>}}
       [] OTHER -> {[none |-> TRUE]}]

-------------------------------------------------------------------------------
(* The other keys of the service: none, one or two *)

Samples ==
  [t \in DOMAIN OwnData |->
     CASE t = "glm" ->
            {[limits |-> <<Limit("TOKENS_LIMIT", "5h", None, 10, None, 40)>>],
             [limits |-> <<Limit("TOKENS_LIMIT", "5h", 100, None, None, 0), Week(25)>>],
             [limits |-> <<Limit("TOKENS_LIMIT", "5h", None, None, None, 0)>>]}
       [] t = "minimax" ->
            {[models |-> <<>>],
             [models |-> <<Model(Part(4, 1, None, 1, 1500), Part(0, None, 50, 3, None))>>],
             [models |-> <<Model(Part(0, None, 100, 1, None), NoPart)>>]}
       [] t = "sub2api" ->
            {[limits |-> <<KeyLimit(20, 5, None)>>, wallet |-> 2,
              subscription |-> <<Subscription("daily", 0, 20)>>],
             [limits |-> <<>>, wallet |-> 2,
              subscription |-> <<Subscription("daily", 0, 0)>>]}
       [] t = "newapi" ->
            {[legacy |-> FALSE, unlimited |-> FALSE, granted |-> 20, used |-> 20,
              available |-> 0, status |-> Display(TRUE, 5, "USD")],
             [legacy |-> FALSE, unlimited |-> TRUE, granted |-> 0, used |-> 20,
              available |-> 0, status |-> Display(TRUE, 5, "USD")],
             [legacy |-> TRUE, hard |-> 40, system |-> 0, soft |-> 0,
              cents |-> 1000]}
       [] t = "kimi_code" ->
            {[top |-> Kimi(Usage(40, 10), NoUsage, Usage(40, 40), NoBooster),
              data |-> NoKimi],
             [top |-> Kimi(Usage(40, 10), NoUsage, NoUsage,
                           Booster(4000, 1000, TRUE, 200, 50)),
              data |-> NoKimi]}
       [] OTHER -> OwnData[t]]

MCData == [t \in DOMAIN OwnData |-> OwnData[t] \cup Samples[t]]

MCOthers ==
  [t \in DOMAIN OwnData |->
     LET one == {ResultOf(t, d) : d \in Samples[t]} \cup {FailedResult}
     IN  {<<>>} \cup {<<r>> : r \in one} \cup {<<r, s>> : r, s \in one}]
===============================================================================
