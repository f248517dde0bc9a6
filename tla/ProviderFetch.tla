----------------------------- MODULE ProviderFetch -----------------------------
(***************************************************************************)
(* One key's query: the Fetch of internal/providers/*.go, its HTTP         *)
(* exchanges and the classification of what comes back.  QueryService      *)
(* takes this whole machine as its step FetchReturns.                      *)
(*                                                                         *)
(* A request is [to, try]: an endpoint and the number of the attempt at    *)
(* it.  An attempt after the first repeats it with another credential      *)
(* style (GLM, Sub2API, MiniMax) or asks for the next page (Claude).  The  *)
(* goroutines of GLM and Claude ask their endpoints independently.         *)
(***************************************************************************)
EXTENDS Failures, CacheOps

CONSTANTS
  Fetches,    \* the queries made: [type, token, address, proxy]
  Exchanges,  \* endpoint -> the exchanges it may have
  MaxPages,   \* pages of a Claude report that are read (20 in the code)
  MaxCount    \* the largest token count (math.MaxInt64 in the code)

VARIABLES
  fetch,    \* the query being made
  phase,    \* "new", "asking" or "done"
  flying,   \* the requests on their way
  answers,  \* request -> verdict, for the requests answered
  result    \* what Fetch returned and main.go made of it

fetchVars == <<fetch, phase, flying, answers, result>>

Endpoints ==
  {"glm-quota", "glm-models", "glm-tools", "sub2api-usage",
   "minimax-remains", "newapi-token", "newapi-status",
   "newapi-subscription", "newapi-billing", "kimi-balance", "kimi-usages",
   "deepseek-balance", "claude-usage", "claude-costs"}

MaxTries(to) ==
  CASE to \in {"glm-quota", "glm-models", "glm-tools", "minimax-remains"} -> 2
    [] to = "sub2api-usage" -> 3
    [] to \in {"claude-usage", "claude-costs"} -> MaxPages
    [] OTHER -> 1

Requests == UNION {[to : {e}, try : 1..MaxTries(e)] : e \in Endpoints}

\* An exchange is answered whole, lost, cut off, too large or no JSON; a wait
\* is a number of seconds.
ASSUME FetchAssumption ==
  /\ MaxPages \in Nat \ {0}
  /\ \A to \in Endpoints : \A ex \in Exchanges[to] :
       /\ ex.end \in {"whole", "lost", "cut", "oversized", "garbled"}
       /\ ex.after.value \in Int

-------------------------------------------------------------------------------
(* What an answer with a readable body says *)

\* businessCodeValue: "" is no code; zero, 200 and the OK words are success.
SuccessCode(code) == code \in {"0", "200", "ok", "success", "succeeded", "true"}
FailureCode(code) == code # "" /\ ~SuccessCode(code)

\* An "error" member that says something, for sub2APIBusinessFailure.
Present(error) == FailureCode(error.code) \/ error.says # {}

\* glmQuotaBusinessFailure and the check for rows.
GLMQuota(b) ==
  IF FailureCode(b.code) \/ b.success = "no" THEN Business(b.code, b.says)
  ELSE IF ~b.rows THEN InvalidResponse ELSE Fine

\* glmDetailFailure, then appendGLMModelDetails or appendGLMToolDetails.
GLMDetail(b) ==
  LET success == IF b.code # "" THEN SuccessCode(b.code) ELSE b.success = "yes"
  IN  CASE success -> IF b.rows THEN Fine ELSE InvalidResponse
        [] ~success /\ b.code = "" /\ b.says = {} -> InvalidResponse
        [] ~success /\ (b.code # "" \/ b.says # {}) -> Business(b.code, b.says)

\* sub2APIBusinessFailure and the check of parseSub2APIUsage for content.
Sub2APIUsage(b) ==
  LET nested == Present(b.error)
      refused == FailureCode(b.code) \/ b.success = "no" \/ nested
      code == IF nested /\ (b.code = "" \/ SuccessCode(b.code))
              THEN b.error.code ELSE b.code
  IN  IF refused
      THEN Business(code, IF b.says # {} \/ ~nested THEN b.says ELSE b.error.says)
      ELSE IF ~b.rows THEN InvalidResponse ELSE Fine

\* fetchMiniMaxCoding: a status that is not zero, or no status and no rows.
\* A status without rows is a plan without quota, and a success.
MiniMaxRemains(b) ==
  CASE b.code \notin {"", "0"} -> Business(b.code, b.says)
    [] b.code = "" /\ ~b.rows ->
         IF b.error.says # {} THEN Business(b.error.code, b.error.says)
         ELSE InvalidResponse
    [] b.code = "0" \/ (b.code = "" /\ b.rows) -> Fine

\* NewAPI.Fetch and fetchLegacyBilling: an error, whatever it says, a refusal,
\* missing fields.  The display settings are used if they can be read, and never
\* fail a query.
NewAPIAnswer(to, b) ==
  IF to # "newapi-status" /\ b.error.given
  THEN Business(b.error.code, b.error.says)
  ELSE IF to = "newapi-token" /\ b.success = "no" THEN Business("", b.says)
  ELSE IF to # "newapi-status" /\ ~b.rows THEN InvalidResponse ELSE Fine

\* KimiAPI.Fetch: code and status, then all three balances.
KimiBalance(b) ==
  IF b.code # "0" \/ b.success = "no"
  THEN Business(IF b.error.code # "" THEN b.error.code ELSE b.code, b.says)
  ELSE IF ~b.rows THEN InvalidResponse ELSE Fine

\* One page of a Claude report: its tokens are added to the total of the
\* pages before, and the last page allowed must be the last there is.
\* A cost is a float and has no such limit; an amount must be a number.
ClaudePage(to, b, try, before) ==
  LET total == before + b.tokens
  IN  IF (to = "claude-usage" /\ (b.tokens < 0 \/ total > MaxCount))
           \/ (to = "claude-costs" /\ ~b.rows)
           \/ (b.more /\ try >= MaxPages)
      THEN InvalidResponse
      ELSE [Fine EXCEPT !.more = b.more, !.total = total]

\* The verdict on the answer to request r; before is the total so far.
Judge(r, ex, proxy, before) ==
  LET v == DoGet(ex, proxy)
      b == ex.body
  IN  IF v.kind # "ok" THEN v
      ELSE CASE r.to = "glm-quota" -> GLMQuota(b)
             [] r.to \in {"glm-models", "glm-tools"} -> GLMDetail(b)
             [] r.to = "sub2api-usage" -> Sub2APIUsage(b)
             [] r.to = "minimax-remains" -> MiniMaxRemains(b)
             [] r.to \in {"newapi-token", "newapi-status",
                          "newapi-subscription", "newapi-billing"} ->
                  NewAPIAnswer(r.to, b)
             [] r.to = "kimi-balance" -> KimiBalance(b)
             \* KimiCode.Fetch accepts any JSON; DeepSeek.Fetch wants rows
             \* with amounts.
             [] r.to = "kimi-usages" -> Fine
             [] r.to = "deepseek-balance" ->
                  IF b.rows THEN Fine ELSE InvalidResponse
             [] r.to \in {"claude-usage", "claude-costs"} ->
                  ClaudePage(r.to, b, r.try, before)

-------------------------------------------------------------------------------
(* What is asked next *)

\* A bug to be caught: another style is tried whatever the failure was.
GoesOnAfterAnyFailure(to, try, v) ==
  /\ try < MaxTries(to)
  /\ IF to \in {"claude-usage", "claude-costs"} THEN v.kind = "ok" /\ v.more
     ELSE v.kind # "ok"

\* fetchGLMEndpoint and getSub2APIJSON go on after an HTTP 401, the loop of
\* fetchMiniMaxCoding after any refusal of the credential, a Claude report
\* while there are pages.
GoesOn(to, try, v) ==
  /\ try < MaxTries(to)
  /\ CASE to \in {"glm-quota", "glm-models", "glm-tools", "sub2api-usage"} ->
            v.kind = "authentication" /\ v.status = 401
       [] to = "minimax-remains" -> v.kind = "authentication"
       [] to \in {"claude-usage", "claude-costs"} -> v.kind = "ok" /\ v.more
       [] OTHER -> FALSE

Asked(ans, to) == {r \in DOMAIN ans : r.to = to}

\* The attempts at an endpoint are made one after the other.
LastTry(ans, to) == Max({r.try : r \in Asked(ans, to)})

Final(ans, to) == ans[[to |-> to, try |-> LastTry(ans, to)]]

Settled(ans, to) ==
  Asked(ans, to) # {} /\ ~GoesOn(to, LastTry(ans, to), Final(ans, to))

\* The endpoints a query asks, given what it was answered so far.
Open(type, ans) ==
  CASE type = "glm" -> {"glm-quota", "glm-models", "glm-tools"}
    [] type = "claude" -> {"claude-usage", "claude-costs"}
    [] type = "sub2api" -> {"sub2api-usage"}
    [] type = "minimax" -> {"minimax-remains"}
    [] type = "kimi_api" -> {"kimi-balance"}
    [] type = "kimi_code" -> {"kimi-usages"}
    [] type = "deepseek" -> {"deepseek-balance"}
    [] type = "newapi" ->
         LET Ended(to, kinds, statuses) ==
               /\ Settled(ans, to)
               /\ \/ Final(ans, to).kind \in kinds
                  \/ Final(ans, to).status \in statuses
             Then(to, P) == IF P THEN {to} ELSE {}
         IN  {"newapi-token"}
             \cup Then("newapi-status", Ended("newapi-token", {"ok"}, {}))
             \cup Then("newapi-subscription",
                       Ended("newapi-token", {}, {404, 405}))
             \cup Then("newapi-billing", Ended("newapi-subscription", {"ok"}, {}))
    [] OTHER -> {}

\* A bug to be caught: no attempt is the last.
WantedAgain(type, ans) ==
  {r \in Requests :
     /\ r.to \in Open(type, ans)
     /\ r.try > 1 =>
          LET before == [r EXCEPT !.try = @ - 1]
          IN  before \in DOMAIN ans /\ GoesOn(r.to, before.try, ans[before])}

\* The requests that may be made now: the next attempt at an open endpoint.
Wanted(type, ans) ==
  {r \in Requests :
     /\ r.to \in Open(type, ans)
     /\ r \notin DOMAIN ans
     /\ r.try > 1 =>
          LET before == [r EXCEPT !.try = @ - 1]
          IN  before \in DOMAIN ans /\ GoesOn(r.to, before.try, ans[before])}

-------------------------------------------------------------------------------
(* What the query returns *)

\* The endpoint a query stands or falls with; Claude's two reports share it.
Primary(type, ans) ==
  CASE type = "glm" -> "glm-quota"
    [] type = "newapi" ->
         IF "newapi-billing" \in Open(type, ans) THEN "newapi-billing"
         ELSE IF "newapi-subscription" \in Open(type, ans)
         THEN "newapi-subscription" ELSE "newapi-token"
    [] OTHER -> CHOOSE e \in Open(type, ans) : TRUE

Success(warnings) ==
  [kind |-> "ok", status |-> 0, retry |-> 0, retryable |-> FALSE,
   warnings |-> warnings]

\* errResult, then normalizeResultFailure.
Failure(type, v) ==
  LET f == ClassifyFetchFailure(type, v)
  IN  [kind |-> f.kind, status |-> f.status, retry |-> f.retry,
       retryable |-> f.retryable, warnings |-> {}]

\* The failed ones of some endpoints, as warnings beside the data.
Warnings(type, ans, tos) ==
  {[of |-> e, kind |-> ClassifyFetchFailure(type, Final(ans, e)).kind] :
     e \in {t \in tos : Final(ans, t).kind # "ok"}}

\* A bug to be caught: the wait one report asks for is forgotten.
CombinedForgetful(u, c) ==
  Verdict(IF u.kind = c.kind THEN u.kind ELSE "unknown",
          IF u.status = c.status THEN u.status ELSE 0,
          u.retry, "", u.says \cup c.says, u.cites \cup c.cites)

\* combinedClaudeReportError: what two failed reports agree on, and the
\* longer of the two waits.
Combined(u, c) ==
  LET same == u.kind = c.kind
  IN  Verdict(IF same THEN u.kind ELSE "unknown",
              IF same /\ u.status = c.status THEN u.status ELSE 0,
              Max({u.retry, c.retry}),
              IF same /\ u.code = c.code THEN u.code ELSE "",
              u.says \cup c.says, u.cites \cup c.cites)

\* The failure of the whole query, if it has one.
Failing(type, ans) ==
  LET usage == Final(ans, "claude-usage")
      costs == Final(ans, "claude-costs")
      first == Final(ans, Primary(type, ans))
  IN  IF type = "claude"
      THEN IF usage.kind # "ok" /\ costs.kind # "ok"
           THEN {Combined(usage, costs)} ELSE {}
      ELSE IF first.kind # "ok" THEN {first} ELSE {}

\* A query that does not fail has its data, with a warning for each part of
\* GLM's and Claude's that is missing.
Outcomes(type, ans) ==
  IF Failing(type, ans) # {} THEN {Failure(type, v) : v \in Failing(type, ans)}
  ELSE {Success(IF type \in {"glm", "claude"}
                THEN Warnings(type, ans, Open(type, ans)) ELSE {})}

\* What refuses a query before anything is sent; Fine if nothing does.  Each
\* provider checks its address and its key in an order of its own.
Refusal(f) ==
  LET noKey == Failed("authentication", {"key-is-empty"})
      KeyThen(v) == IF f.token = "" THEN noKey ELSE v
      address == IF f.address = "" \/ Usable(f.address) THEN Fine ELSE BadAddress
      AddressThen(v) == IF address.kind = "ok" THEN v ELSE address
  IN  CASE f.type \in {"glm", "minimax", "kimi_code"} -> KeyThen(Fine)
        [] f.type = "claude" -> KeyThen(address)
        [] f.type \in {"kimi_api", "deepseek"} -> AddressThen(KeyThen(Fine))
        [] f.type \in {"sub2api", "newapi"} ->
             IF f.address = "" THEN Failed("invalid_config", {"no-address"})
             ELSE AddressThen(KeyThen(Fine))
        \* MiniMaxAPI and the providers that only have a console.
        [] OTHER -> Failed("unsupported", {"audited-as-unsupported"})

-------------------------------------------------------------------------------
(* The machine *)

FetchInit ==
  /\ fetch \in Fetches
  /\ phase = "new"
  /\ flying = {}
  /\ answers = NoEntries
  /\ result = Success({})

\* Fetch: a query that cannot be made is refused without a request.
Begin ==
  /\ phase = "new"
  /\ LET v == Refusal(fetch)
     IN  IF v.kind = "ok"
         THEN phase' = "asking" /\ UNCHANGED result
         ELSE phase' = "done" /\ result' = Failure(fetch.type, v)
  /\ UNCHANGED <<fetch, flying, answers>>

\* A goroutine sends its next request.
Ask(r) ==
  /\ phase = "asking"
  /\ r \in Wanted(fetch.type, answers) \ flying
  /\ flying' = flying \cup {r}
  /\ UNCHANGED <<fetch, phase, answers, result>>

\* A request ends: answered, failed or timed out.
Answer(r) ==
  /\ phase = "asking"
  /\ r \in flying
  /\ LET page == [r EXCEPT !.try = @ - 1]
         before == IF page \in DOMAIN answers THEN answers[page].total ELSE 0
     IN  \E ex \in Exchanges[r.to] :
           answers' = Put(answers, r, Judge(r, ex, fetch.proxy, before))
  /\ flying' = flying \ {r}
  /\ UNCHANGED <<fetch, phase, result>>

\* A bug to be caught: the secondary reports are not waited for.
FinishUnwaited ==
  /\ phase = "asking"
  /\ Settled(answers, Primary(fetch.type, answers))
  /\ phase' = "done"
  /\ result' \in {Success({})}
  /\ UNCHANGED <<fetch, flying, answers>>

\* Every goroutine is done: wait.Wait(), or both reports received.
Finish ==
  /\ phase = "asking"
  /\ flying = {}
  /\ Wanted(fetch.type, answers) = {}
  /\ phase' = "done"
  /\ result' \in Outcomes(fetch.type, answers)
  /\ UNCHANGED <<fetch, flying, answers>>

FetchNext ==
  \/ Begin
  \/ \E r \in Requests : Answer(r) \/ Ask(r)
  \/ Finish

\* Goroutines run, and every request ends: http.Client has a timeout of ten
\* seconds, a Claude report one of 75 over all its pages.
FetchFairness == WF_fetchVars(FetchNext)

FetchSpec == FetchInit /\ [][FetchNext]_fetchVars /\ FetchFairness

-------------------------------------------------------------------------------
(* Properties *)

Sections == {"glm-models", "glm-tools", "claude-usage", "claude-costs"}

\* Requests are those the endpoints allow, only while a query is under way;
\* a query returns data, perhaps with warnings, or one failure.
FetchTypeOK ==
  /\ fetch \in Fetches
  /\ phase \in {"new", "asking", "done"}
  /\ flying \subseteq Requests
  /\ phase # "asking" => flying = {}
  /\ DOMAIN answers \subseteq Requests
  /\ result.kind \in {"ok"} \cup FailureKinds

\* An endpoint is tried again with the other credential style only after a
\* rejection of the one before (minimax.go: retrying on timeouts, rate
\* limits, or service failures doubles load): all its earlier attempts were
\* answered, by an authentication failure, over HTTP 401 but for MiniMax;
\* and no two attempts at an endpoint are ever on their way together.
RetriesOnlyAfterRejection ==
  \A r \in flying \cup DOMAIN answers :
    /\ \A s \in flying : (s.to = r.to /\ s.try >= r.try) => (s = r \/ r \in DOMAIN answers)
    /\ r.to \notin {"claude-usage", "claude-costs"} =>
         \A t \in 1..(r.try - 1) :
           LET earlier == [to |-> r.to, try |-> t]
           IN  /\ earlier \in DOMAIN answers
               /\ answers[earlier].kind = "authentication"
               /\ r.to # "minimax-remains" => answers[earlier].status = 401

\* The query a caller sees tells what its exchanges told: no endpoint is
\* left unasked; data without a warning means that every report of it was
\* read to its end; a secondary report never fails the query (Claude's two
\* only together); and a wait that a provider asked for, with the failure
\* that decides, reaches the caller as a failure that may be retried.
OutcomeMatchesAnswers ==
  (phase = "done" /\ DOMAIN answers # {}) =>
    LET open == Open(fetch.type, answers)
        failed == {e \in open : Final(answers, e).kind # "ok"}
        decide == IF fetch.type = "claude" THEN open
                  ELSE {Primary(fetch.type, answers)}
    IN  /\ \A e \in open : Settled(answers, e)
        /\ (result.kind = "ok") <=> ~(decide \subseteq failed)
        /\ (result.kind = "ok" /\ result.warnings = {}) =>
             failed \cap (decide \cup Sections) = {}
        /\ \A e \in open \cap {"claude-usage", "claude-costs"} :
             ~Final(answers, e).more \/ e \in failed
        /\ result.kind # "ok" =>
             \A e \in decide :
               Final(answers, e).retry > 0 =>
                 result.retry >= Final(answers, e).retry /\ result.retryable

\* The promise a query makes (QueryService relies on it), and that this
\* machine keeps it: it returns, once, and what it returned stays.
Promise == INSTANCE FetchPromise WITH
  returned <- phase = "done",
  outcome  <- [kind |-> result.kind, warned |-> {w.of : w \in result.warnings}],
  Kinds    <- FailureKinds

KeepsPromise == Promise!Spec
===============================================================================
