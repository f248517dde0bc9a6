-------------------------- MODULE ProviderFetchProofs --------------------------
(***************************************************************************)
(* Proofs about ProviderFetch for any queries, answers and page limit: an  *)
(* endpoint is asked again only after its credential was rejected, the     *)
(* machine takes no step its promise (FetchPromise) does not allow, and    *)
(* what a query returns is what its exchanges told.                        *)
(***************************************************************************)
EXTENDS ProviderFetch, WellFoundedInduction, TLAPS

-------------------------------------------------------------------------------
(* The least and the greatest of a set of numbers *)

\* The least of some numbers is one of them.
LEMMA NatMin ==
  ASSUME NEW S, S \subseteq Nat, S # {}
  PROVE  Min(S) \in S /\ \A x \in S : Min(S) <= x
<1> DEFINE R == {ss \in Nat \X Nat : ss[1] < ss[2]}
<1>0. OpToRel(<, Nat) = R
  BY Zenon DEF OpToRel
<1>1. IsWellFoundedOn(R, Nat)
  BY <1>0, NatLessThanWellFounded, Zenon
<1> HIDE DEF R
<1>2. \E x \in S : \A y \in S : ~ (<<y, x>> \in R)
  BY <1>1, WFMin, Zenon
<1>3. \E x \in S : \A y \in S : x <= y
  <2>1. PICK x \in S : \A y \in S : ~ (<<y, x>> \in R)
    BY <1>2
  <2>2. ASSUME NEW y \in S PROVE x <= y
    <3>1. x \in Nat /\ y \in Nat
      OBVIOUS
    <3>2. <<y, x>> \in Nat \X Nat /\ <<y, x>>[1] = y /\ <<y, x>>[2] = x
      BY <3>1
    <3>3. ~ (y < x)
      BY <2>1, <3>2 DEF R
    <3>4. QED BY <3>1, <3>3
  <2>3. QED BY <2>2
<1>4. QED BY <1>3 DEF Min

\* So is the greatest of a bounded set of them: there is a last attempt.
LEMMA NatMax ==
  ASSUME NEW n \in Nat, NEW S, S \subseteq 0..n, S # {}
  PROVE  Max(S) \in S /\ \A x \in S : x <= Max(S)
<1> DEFINE T == {n - x : x \in S}
<1>1. T \subseteq Nat /\ T # {}
  <2>1. \A x \in S : n - x \in Nat /\ n - x \in T
    OBVIOUS
  <2>2. QED BY <2>1
<1>2. Min(T) \in T /\ \A x \in T : Min(T) <= x
  BY <1>1, NatMin
<1>3. \E x \in S : \A y \in S : x >= y
  <2>1. PICK x \in S : Min(T) = n - x
    BY <1>2
  <2>2. \A y \in S : n - y \in T /\ y \in 0..n /\ x \in 0..n
    OBVIOUS
  <2>3. \A y \in S : x >= y
    BY <2>1, <2>2, <1>2
  <2> QED BY <2>3
<1>4. QED BY <1>3 DEF Max

-------------------------------------------------------------------------------
(* Every failure has a kind *)

\* What a table names is a kind of failure when its rows name one.
LEMMA NamedIsKind ==
  ASSUME NEW table, NEW entries, Len(table) \in Nat,
         \A i \in 1..Len(table) : table[i][1] \in FailureKinds
  PROVE  Named(table, entries) \in FailureKinds
<1> DEFINE I == {i \in 1..Len(table) : table[i][2] \cap entries # {}}
<1>0. Named(table, entries) = LET i == IF I # {} THEN Min(I) ELSE 0
                              IN  IF i = 0 THEN "unknown" ELSE table[i][1]
  BY DEF Named, SelectInSeq
<1>1. CASE I = {} 
  BY <1>0, <1>1 DEF FailureKinds
<1>2. CASE I # {}
  <2>1. Min(I) \in I
    <3>1. I \subseteq Nat
      OBVIOUS
    <3>2. QED BY <3>1, <1>2, NatMin
  <2>2. QED
    BY <1>0, <1>2, <2>1
<1>3. QED BY <1>1, <1>2

\* The first kind of several that is not "unknown" is one of them.
LEMMA FirstNamedIsKind ==
  ASSUME NEW kinds \in Seq(FailureKinds)
  PROVE  FirstNamed(kinds) \in FailureKinds
<1> DEFINE I == {i \in 1..Len(kinds) : kinds[i] # "unknown"}
<1>0. FirstNamed(kinds) = LET i == IF I # {} THEN Min(I) ELSE 0
                          IN  IF i = 0 THEN "unknown" ELSE kinds[i]
  BY DEF FirstNamed, SelectInSeq
<1>1. CASE I = {}
  BY <1>0, <1>1 DEF FailureKinds
<1>2. CASE I # {}
  <2>1. Min(I) \in I
    <3>1. I \subseteq Nat
      OBVIOUS
    <3>2. QED BY <3>1, <1>2, NatMin
  <2>2. QED
    BY <1>0, <1>2, <2>1
<1>3. QED BY <1>1, <1>2

\* The names in FailureKinds, one by one.
LEMMA KindNames ==
  /\ "authentication" \in FailureKinds
  /\ "permission" \in FailureKinds
  /\ "insufficient_funds" \in FailureKinds
  /\ "quota_exhausted" \in FailureKinds
  /\ "rate_limited" \in FailureKinds
  /\ "conflict" \in FailureKinds
  /\ "invalid_config" \in FailureKinds
  /\ "endpoint" \in FailureKinds
  /\ "proxy" \in FailureKinds
  /\ "timeout" \in FailureKinds
  /\ "dns" \in FailureKinds
  /\ "tls" \in FailureKinds
  /\ "network" \in FailureKinds
  /\ "invalid_response" \in FailureKinds
  /\ "service_unavailable" \in FailureKinds
  /\ "account_restricted" \in FailureKinds
  /\ "no_data" \in FailureKinds
  /\ "unsupported" \in FailureKinds
  /\ "unknown" \in FailureKinds
BY DEF FailureKinds

\* Every table of Failures names kinds of failure only.
LEMMA TablesNameKinds ==
  ASSUME NEW entries, NEW type
  PROVE  /\ Named(HttpCodes, entries) \in FailureKinds
         /\ Named(Statuses, entries) \in FailureKinds
         /\ Named(HttpWords, entries) \in FailureKinds
         /\ Named(TransportCauses, entries) \in FailureKinds
         /\ Named(ProviderCodes(type), entries) \in FailureKinds
         /\ Named(MainCodes, entries) \in FailureKinds
         /\ Named(MainWords, entries) \in FailureKinds
<1>1. Named(HttpCodes, entries) \in FailureKinds
  <2>1. Len(HttpCodes) \in Nat /\ \A i \in 1..Len(HttpCodes) : HttpCodes[i][1] \in FailureKinds
    BY KindNames DEF HttpCodes
  <2>2. QED BY <2>1, NamedIsKind
<1>2. Named(Statuses, entries) \in FailureKinds
  <2>1. Len(Statuses) \in Nat /\ \A i \in 1..Len(Statuses) : Statuses[i][1] \in FailureKinds
    BY KindNames DEF Statuses
  <2>2. QED BY <2>1, NamedIsKind
<1>3. Named(HttpWords, entries) \in FailureKinds
  <2>1. Len(HttpWords) \in Nat /\ \A i \in 1..Len(HttpWords) : HttpWords[i][1] \in FailureKinds
    <3>1. Len(HttpWords) = 13
      BY DEF HttpWords
    <3>2. \A i \in 1..7 : HttpWords[i][1] \in FailureKinds
      BY KindNames DEF HttpWords
    <3>3. \A i \in 8..13 : HttpWords[i][1] \in FailureKinds
      BY KindNames DEF HttpWords
    <3>4. QED BY <3>1, <3>2, <3>3
  <2>2. QED BY <2>1, NamedIsKind
<1>4. Named(TransportCauses, entries) \in FailureKinds
  <2>1. Len(TransportCauses) \in Nat /\ \A i \in 1..Len(TransportCauses) : TransportCauses[i][1] \in FailureKinds
    BY KindNames DEF TransportCauses
  <2>2. QED BY <2>1, NamedIsKind
<1>5. Named(ProviderCodes(type), entries) \in FailureKinds
  <2>1. Len(ProviderCodes(type)) \in Nat /\ \A i \in 1..Len(ProviderCodes(type)) : ProviderCodes(type)[i][1] \in FailureKinds
    BY KindNames DEF ProviderCodes
  <2>2. QED BY <2>1, NamedIsKind
<1>6. Named(MainCodes, entries) \in FailureKinds
  <2>1. Len(MainCodes) \in Nat /\ \A i \in 1..Len(MainCodes) : MainCodes[i][1] \in FailureKinds
    BY KindNames DEF MainCodes
  <2>2. QED BY <2>1, NamedIsKind
<1>7. Named(MainWords, entries) \in FailureKinds
  <2>1. Len(MainWords) \in Nat /\ \A i \in 1..Len(MainWords) : MainWords[i][1] \in FailureKinds
    <3>1. Len(MainWords) = 14
      BY DEF MainWords
    <3>2. \A i \in 1..7 : MainWords[i][1] \in FailureKinds
      BY KindNames DEF MainWords
    <3>3. \A i \in 8..14 : MainWords[i][1] \in FailureKinds
      BY KindNames DEF MainWords
    <3>4. QED BY <3>1, <3>2, <3>3
  <2>2. QED BY <2>1, NamedIsKind
<1>8. QED BY <1>1, <1>2, <1>3, <1>4, <1>5, <1>6, <1>7

\* classifyProviderFailure names a kind, whatever it is told.
LEMMA ClassificationIsKind ==
  ASSUME NEW status, NEW code, NEW says
  PROVE  ClassifyProviderFailure(status, code, says) \in FailureKinds
<1> DEFINE text == says \cup WordsOfCode(code)
           overdrawn == status = 429 /\ text \cap QuotaWords # {}
           overloaded == status = 429 /\ "overload" \in text
           a == IF status \in 300..399 THEN "endpoint" ELSE "unknown"
           b == Named(HttpCodes, {code})
           c == IF overdrawn THEN "quota_exhausted" ELSE "unknown"
           d == IF overloaded THEN "service_unavailable" ELSE "unknown"
           e == Named(Statuses, {status})
           f == IF status >= 500 THEN "service_unavailable" ELSE "unknown"
           g == Named(HttpWords, text)
<1>1. /\ a \in FailureKinds /\ b \in FailureKinds /\ c \in FailureKinds
      /\ d \in FailureKinds /\ e \in FailureKinds /\ f \in FailureKinds
      /\ g \in FailureKinds
  BY KindNames, TablesNameKinds
<1>2. ClassifyProviderFailure(status, code, says) = FirstNamed(<<a, b, c, d, e, f, g>>)
  BY Zenon DEF ClassifyProviderFailure
<1> HIDE DEF a, b, c, d, e, f, g
<1>3. <<a, b, c, d, e, f, g>> \in Seq(FailureKinds)
  BY <1>1
<1>4. QED BY <1>2, <1>3, FirstNamedIsKind

\* So does main.go's second look at a failure.
LEMMA FetchFailureIsKind ==
  ASSUME NEW type, NEW v, v.kind \in FailureKinds
  PROVE  ClassifyFetchFailure(type, v).kind \in FailureKinds
<1>1. ASSUME NEW status, NEW code, NEW says
      PROVE  InferFailureKind(type, status, code, says) \in FailureKinds
  <2> DEFINE a == Named(ProviderCodes(type), {code})
             b == Named(MainCodes, {code})
             c == Named(Statuses, {status})
             d == IF status >= 500 THEN "service_unavailable" ELSE "unknown"
             e == Named(MainWords, says)
  <2>1. /\ a \in FailureKinds /\ b \in FailureKinds /\ c \in FailureKinds
        /\ d \in FailureKinds /\ e \in FailureKinds
    BY KindNames, TablesNameKinds
  <2>2. InferFailureKind(type, status, code, says) = FirstNamed(<<a, b, c, d, e>>)
    BY Zenon DEF InferFailureKind
  <2> HIDE DEF a, b, c, d, e
  <2>3. <<a, b, c, d, e>> \in Seq(FailureKinds)
    BY <2>1
  <2>4. QED BY <2>2, <2>3, FirstNamedIsKind
<1>2. QED BY <1>1 DEF ClassifyFetchFailure

\* A verdict is a success or has a kind of failure.
VerdictKinds == {"ok"} \cup FailureKinds

\* doGetContext ends in one of them, however the exchange ends.
LEMMA VerdictIsKind ==
  ASSUME NEW to \in Endpoints, NEW ex \in Exchanges[to], NEW proxy
  PROVE  DoGet(ex, proxy).kind \in VerdictKinds
<1>1. ASSUME NEW causes, NEW client, NEW status
      PROVE  TransportFailure(causes, client, status).kind \in FailureKinds
  <2> DEFINE a == Named(TransportCauses, causes \cup {client})
  <2>1. <<a, "network">> \in Seq(FailureKinds)
    BY KindNames, TablesNameKinds
  <2>2. FirstNamed(<<a, "network">>) \in FailureKinds
    BY <2>1, FirstNamedIsKind
  <2>3. QED BY <2>2 DEF TransportFailure, Verdict
<1>2. ASSUME NEW status PROVE ErrorAnswer(ex, status).kind \in FailureKinds
  BY ClassificationIsKind DEF ErrorAnswer, Verdict
<1>3. ex.end \in {"whole", "lost", "cut", "oversized", "garbled"}
  BY FetchAssumption
<1>4. QED
  BY <1>1, <1>2, <1>3, KindNames DEF DoGet, Failed, Fine, Verdict, VerdictKinds

\* So does a provider's own look at the body.
LEMMA JudgeIsKind ==
  ASSUME NEW r, r.to \in Endpoints, NEW ex \in Exchanges[r.to],
         NEW proxy, NEW before
  PROVE  Judge(r, ex, proxy, before).kind \in VerdictKinds
<1>1. ASSUME NEW code, NEW says PROVE Business(code, says).kind \in VerdictKinds
  BY ClassificationIsKind DEF Business, Verdict, VerdictKinds
<1>2. Fine.kind \in VerdictKinds /\ InvalidResponse.kind \in VerdictKinds
  BY KindNames DEF Fine, InvalidResponse, Failed, Verdict, VerdictKinds
<1> DEFINE b == ex.body
<1>3. GLMQuota(b).kind \in VerdictKinds
  BY <1>1, <1>2 DEF GLMQuota
<1>4. GLMDetail(b).kind \in VerdictKinds
  BY <1>1, <1>2 DEF GLMDetail, SuccessCode
<1>5. Sub2APIUsage(b).kind \in VerdictKinds
  BY <1>1, <1>2 DEF Sub2APIUsage
<1>6. MiniMaxRemains(b).kind \in VerdictKinds
  BY <1>1, <1>2 DEF MiniMaxRemains
<1>7. NewAPIAnswer(r.to, b).kind \in VerdictKinds
  BY <1>1, <1>2 DEF NewAPIAnswer
<1>8. KimiBalance(b).kind \in VerdictKinds
  BY <1>1, <1>2 DEF KimiBalance
<1>9. ClaudePage(r.to, b, r.try, before).kind \in VerdictKinds
  BY <1>2 DEF ClaudePage, Fine, Verdict
<1>10. DoGet(ex, proxy).kind \in VerdictKinds
  BY VerdictIsKind
<1>11. QED
  BY <1>2, <1>3, <1>4, <1>5, <1>6, <1>7, <1>8, <1>9, <1>10 DEF Judge, Endpoints

-------------------------------------------------------------------------------
(* Requests and attempts *)

\* A request is an endpoint and an attempt within the endpoint's limit.
LEMMA RequestShape ==
  ASSUME NEW r \in Requests
  PROVE  /\ r.to \in Endpoints /\ r.try \in 1..MaxTries(r.to)
         /\ MaxTries(r.to) \in Nat /\ r.try \in Nat
         /\ r = [to |-> r.to, try |-> r.try]
         /\ [r EXCEPT !.try = @ - 1] = [to |-> r.to, try |-> r.try - 1]
<1>1. PICK e \in Endpoints : r \in [to : {e}, try : 1..MaxTries(e)]
  BY DEF Requests
<1>2. MaxTries(e) \in Nat
  BY FetchAssumption DEF MaxTries
<1>3. r.to = e /\ r.try \in 1..MaxTries(e) /\ r = [to |-> r.to, try |-> r.try]
  BY <1>1
<1>4. [r EXCEPT !.try = @ - 1] = [to |-> r.to, try |-> r.try - 1]
  BY <1>3
<1>5. QED BY <1>2, <1>3, <1>4

\* Every endpoint a query may open can be asked, and its primary is open.
LEMMA OpenEndpoints ==
  ASSUME NEW f, NEW ans, Refusal(f).kind = "ok"
  PROVE  /\ Open(f.type, ans) \subseteq Endpoints
         /\ \A e \in Open(f.type, ans) : [to |-> e, try |-> 1] \in Requests
         /\ Primary(f.type, ans) \in Open(f.type, ans)
<1>1. f.type \in {"glm", "claude", "sub2api", "minimax", "kimi_api",
                  "kimi_code", "deepseek", "newapi"}
  BY DEF Refusal, Failed, Verdict
<1>2. Open(f.type, ans) \subseteq Endpoints
  BY <1>1 DEF Open, Endpoints
<1>3. \A e \in Endpoints : [to |-> e, try |-> 1] \in Requests
  <2>1. \A e \in Endpoints : 1 \in 1..MaxTries(e)
    BY FetchAssumption DEF MaxTries
  <2>2. QED BY <2>1 DEF Requests
<1>4. Primary(f.type, ans) \in Open(f.type, ans)
  <2>1. CASE f.type = "newapi"
    BY <2>1 DEF Open, Primary
  <2>2. CASE f.type = "glm"
    BY <2>2 DEF Open, Primary
  <2>3. CASE f.type \notin {"glm", "newapi"}
    <3>1. Open(f.type, ans) # {}
      BY <1>1, <2>3 DEF Open
    <3>2. Primary(f.type, ans) = CHOOSE e \in Open(f.type, ans) : TRUE
      BY <2>3 DEF Primary
    <3>3. QED BY <3>1, <3>2
  <2>4. QED BY <2>1, <2>2, <2>3
<1>5. QED BY <1>2, <1>3, <1>4

-------------------------------------------------------------------------------
(* The inductive invariant *)

\* Every attempt before one that was made was answered, in a way after which
\* the endpoint is asked again.
AttemptsInOrder ==
  \A r \in flying \cup DOMAIN answers :
    \A t \in 1..(r.try - 1) :
      LET earlier == [to |-> r.to, try |-> t]
      IN  earlier \in DOMAIN answers /\ GoesOn(r.to, t, answers[earlier])

FetchInv ==
  /\ FetchTypeOK
  /\ \A r \in DOMAIN answers : answers[r].kind \in VerdictKinds
  /\ flying \cap DOMAIN answers = {}
  /\ AttemptsInOrder
  /\ phase = "asking" => Refusal(fetch).kind = "ok"
  /\ phase # "done" => result = Success({})

\* A query starts in the invariant ...
LEMMA InitInv == FetchInit => FetchInv
<1> SUFFICES ASSUME FetchInit PROVE FetchInv
  OBVIOUS
<1>1. DOMAIN answers = {}
  BY DEF FetchInit, NoEntries
<1>2. QED
  BY <1>1 DEF FetchInit, FetchInv, FetchTypeOK, AttemptsInOrder, Success

\* Once nothing is left to ask, the last attempt at an open endpoint is among
\* the answers, and it settles the endpoint.
LEMMA AllSettled ==
  ASSUME FetchInv, phase = "asking", Wanted(fetch.type, answers) = {},
         NEW e \in Open(fetch.type, answers)
  PROVE  /\ Settled(answers, e)
         /\ [to |-> e, try |-> LastTry(answers, e)] \in DOMAIN answers
<1> DEFINE one == [to |-> e, try |-> 1]
           T == {r.try : r \in Asked(answers, e)}
<1>1. one \in Requests /\ e \in Endpoints
  BY OpenEndpoints DEF FetchInv
<1>2. one \in DOMAIN answers
  <2>1. one.to = e /\ ~ (one.try > 1)
    OBVIOUS
  <2> HIDE DEF one
  <2>2. one \notin DOMAIN answers => one \in Wanted(fetch.type, answers)
    BY <1>1, <2>1, Zenon DEF Wanted
  <2>3. QED BY <2>2
<1>3. one \in Asked(answers, e)
  BY <1>2 DEF Asked
<1>4. \A r \in Asked(answers, e) :
        /\ r \in DOMAIN answers /\ r.to = e
        /\ r.try \in 1..MaxTries(e) /\ r = [to |-> e, try |-> r.try]
  <2>1. ASSUME NEW r \in Asked(answers, e)
        PROVE  /\ r \in DOMAIN answers /\ r.to = e
               /\ r.try \in 1..MaxTries(e) /\ r = [to |-> e, try |-> r.try]
    <3>1. r \in Requests /\ r \in DOMAIN answers /\ r.to = e
      BY DEF Asked, FetchInv, FetchTypeOK
    <3>2. /\ r.try \in 1..MaxTries(e) /\ r = [to |-> e, try |-> r.try]
      BY <3>1, RequestShape, Zenon
    <3>3. QED BY <3>1, <3>2
  <2>2. QED BY <2>1
<1>5. MaxTries(e) \in Nat
  BY <1>1, RequestShape
<1>6. T \subseteq 0..MaxTries(e) /\ T # {}
  BY <1>3, <1>4, <1>5
<1>7. Max(T) \in T /\ \A x \in T : x <= Max(T)
  BY <1>5, <1>6, NatMax
<1>8. PICK r \in Asked(answers, e) : r.try = Max(T)
  BY <1>7
<1>9. /\ LastTry(answers, e) = r.try
      /\ [to |-> e, try |-> LastTry(answers, e)] = r
      /\ Final(answers, e) = answers[r]
  BY <1>4, <1>8 DEF LastTry, Final
<1>10. ~ GoesOn(e, r.try, answers[r])
  <2> DEFINE next == [to |-> e, try |-> r.try + 1]
  <2> SUFFICES ASSUME GoesOn(e, r.try, answers[r]) PROVE FALSE
    OBVIOUS
  <2>1. r.try \in Nat /\ 1 <= r.try /\ r.try < MaxTries(e)
    BY <1>4, <1>5 DEF GoesOn
  <2>2. next \in Requests
    <3>1. r.try + 1 \in 1..MaxTries(e)
      BY <1>5, <2>1
    <3>2. next \in [to : {e}, try : 1..MaxTries(e)]
      BY <3>1
    <3>3. QED BY <1>1, <3>2 DEF Requests
  <2>3. next \notin DOMAIN answers
    <3>1. SUFFICES ASSUME next \in DOMAIN answers PROVE FALSE
      OBVIOUS
    <3>2. next \in Asked(answers, e) /\ next.try = r.try + 1
      BY <3>1 DEF Asked
    <3>3. r.try + 1 \in T
      BY <3>2
    <3>4. r.try + 1 <= r.try
      BY <1>7, <1>8, <3>3
    <3>5. QED BY <2>1, <3>4
  <2>4. [next EXCEPT !.try = @ - 1] = r
    BY <1>4, <2>1
  <2>5. next.to = e /\ r \in DOMAIN answers
    BY <1>4
  <2> HIDE DEF next
  <2>6. next \in Wanted(fetch.type, answers)
    BY <2>2, <2>3, <2>4, <2>5 DEF Wanted
  <2>7. QED BY <2>6
<1>11. QED BY <1>3, <1>4, <1>9, <1>10 DEF Settled

\* ... so that every open endpoint has an answer that decides it.
LEMMA FinalIsKind ==
  ASSUME FetchInv, phase = "asking", Wanted(fetch.type, answers) = {},
         NEW e \in Open(fetch.type, answers)
  PROVE  Final(answers, e).kind \in VerdictKinds
BY AllSettled DEF Final, FetchInv

\* The failure of a query has a kind.
LEMMA FailingIsKind ==
  ASSUME FetchInv, phase = "asking", Wanted(fetch.type, answers) = {},
         NEW v \in Failing(fetch.type, answers)
  PROVE  v.kind \in FailureKinds
<1> DEFINE type == fetch.type
<1>1. Primary(type, answers) \in Open(type, answers)
  BY OpenEndpoints DEF FetchInv
<1>2. \A e \in Open(type, answers) : Final(answers, e).kind \in VerdictKinds
  BY FinalIsKind
<1>3. CASE type = "claude"
  <2> DEFINE u == Final(answers, "claude-usage")
             c == Final(answers, "claude-costs")
  <2>1. u.kind \in VerdictKinds /\ c.kind \in VerdictKinds
    BY <1>2, <1>3 DEF Open
  <2>2. u.kind # "ok" /\ c.kind # "ok" /\ v = Combined(u, c)
    BY <1>3 DEF Failing
  <2> HIDE DEF u, c
  <2>3. v.kind = IF u.kind = c.kind THEN u.kind ELSE "unknown"
    BY <2>2 DEF Combined, Verdict
  <2>4. QED BY <2>1, <2>2, <2>3, KindNames DEF VerdictKinds
<1>4. CASE type # "claude"
  BY <1>1, <1>2, <1>4 DEF Failing, VerdictKinds
<1>5. QED BY <1>3, <1>4

\* What a query returns: data and warnings about its lesser parts, or a
\* failure of some kind.
LEMMA OutcomeKind ==
  ASSUME FetchInv, phase = "asking", Wanted(fetch.type, answers) = {},
         NEW x \in Outcomes(fetch.type, answers)
  PROVE  \/ x.kind = "ok" /\ {w.of : w \in x.warnings} \subseteq Sections
         \/ x.kind \in FailureKinds /\ x.warnings = {}
<1> DEFINE type == fetch.type
<1>1. /\ Refusal(fetch).kind = "ok"
      /\ Primary(type, answers) \in Open(type, answers)
  BY OpenEndpoints DEF FetchInv
<1>2. \A e \in Open(type, answers) : Final(answers, e).kind \in VerdictKinds
  BY FinalIsKind
<1>3. type = "claude" =>
        Open(type, answers) = {"claude-usage", "claude-costs"}
  BY DEF Open
<1>4. \A v \in Failing(type, answers) : v.kind \in FailureKinds
  BY FailingIsKind
<1>5. CASE Failing(type, answers) # {}
  <2>1. PICK v \in Failing(type, answers) : x = Failure(type, v)
    BY <1>5 DEF Outcomes
  <2>2. ClassifyFetchFailure(type, v).kind \in FailureKinds
    BY <1>4, FetchFailureIsKind
  <2>3. QED BY <2>1, <2>2 DEF Failure
<1>6. CASE Failing(type, answers) = {}
  <2> DEFINE W == IF type \in {"glm", "claude"}
                  THEN Warnings(type, answers, Open(type, answers)) ELSE {}
  <2>1. x = Success(W)
    BY <1>6 DEF Outcomes
  <2>2. \A w \in W : w.of \in Open(type, answers) /\ Final(answers, w.of).kind # "ok"
    BY DEF Warnings
  <2>3. type = "glm" =>
          /\ Open(type, answers) = {"glm-quota", "glm-models", "glm-tools"}
          /\ Final(answers, "glm-quota").kind = "ok"
    BY <1>6 DEF Open, Failing, Primary
  <2>4. \A w \in W : w.of \in Sections
    BY <1>3, <2>2, <2>3 DEF Sections
  <2> HIDE DEF W
  <2>5. QED BY <2>1, <2>4 DEF Success
<1>7. QED BY <1>5, <1>6

\* What may be asked next was not asked, and the attempt before it was
\* answered in a way that calls for another.
LEMMA WantedShape ==
  ASSUME NEW r \in Wanted(fetch.type, answers)
  PROVE  /\ r \in Requests /\ r \notin DOMAIN answers
         /\ r.try > 1 =>
              LET before == [to |-> r.to, try |-> r.try - 1]
              IN  before \in DOMAIN answers /\ GoesOn(r.to, before.try, answers[before])
<1>1. r \in Requests /\ r \notin DOMAIN answers
  BY DEF Wanted
<1>2. r.try > 1 =>
        LET before == [r EXCEPT !.try = @ - 1]
        IN  before \in DOMAIN answers /\ GoesOn(r.to, before.try, answers[before])
  BY Zenon DEF Wanted
<1>3. [r EXCEPT !.try = @ - 1] = [to |-> r.to, try |-> r.try - 1]
  BY <1>1, RequestShape
<1>4. QED BY <1>1, <1>2, <1>3

\* ... and every step of it stays there ...
LEMMA NextInv == FetchInv /\ [FetchNext]_fetchVars => FetchInv'
<1> SUFFICES ASSUME FetchInv, [FetchNext]_fetchVars PROVE FetchInv'
  OBVIOUS
<1>1. CASE UNCHANGED fetchVars
  BY <1>1 DEF fetchVars, FetchInv, FetchTypeOK, AttemptsInOrder
<1>2. CASE Begin
  <2> DEFINE v == Refusal(fetch)
  <2>1. /\ phase = "new" /\ UNCHANGED <<fetch, flying, answers>>
        /\ flying = {} /\ result = Success({})
    BY <1>2 DEF Begin, FetchInv, FetchTypeOK
  <2>2. CASE v.kind = "ok"
    <3>1. phase' = "asking" /\ UNCHANGED result
      BY <1>2, <2>2 DEF Begin
    <3>2. QED BY <2>1, <2>2, <3>1 DEF FetchInv, FetchTypeOK, AttemptsInOrder
  <2>3. CASE v.kind # "ok"
    <3>1. phase' = "done" /\ result' = Failure(fetch.type, v)
      BY <1>2, <2>3 DEF Begin
    <3>2. v.kind \in FailureKinds
      BY <2>3, ClassificationIsKind, KindNames
         DEF Refusal, Failed, BadAddress, Fine, Verdict
    <3>3. ClassifyFetchFailure(fetch.type, v).kind \in FailureKinds
      BY <3>2, FetchFailureIsKind
    <3>4. result'.kind \in FailureKinds
      BY <3>1, <3>3 DEF Failure
    <3>5. QED BY <2>1, <3>1, <3>4 DEF FetchInv, FetchTypeOK, AttemptsInOrder
  <2>4. QED BY <2>2, <2>3
<1>3. ASSUME NEW r \in Requests, Ask(r) PROVE FetchInv'
  <2>1. /\ phase = "asking" /\ r \in Wanted(fetch.type, answers)
        /\ flying' = flying \cup {r}
        /\ UNCHANGED <<fetch, phase, answers, result>>
    BY <1>3 DEF Ask
  <2>2. /\ r \notin DOMAIN answers
        /\ r.try > 1 =>
             LET before == [to |-> r.to, try |-> r.try - 1]
             IN  /\ before \in DOMAIN answers
                 /\ GoesOn(r.to, r.try - 1, answers[before])
    BY <2>1, WantedShape
  <2>3. AttemptsInOrder'
    <3>1. ASSUME NEW t \in 1..(r.try - 1)
          PROVE  LET earlier == [to |-> r.to, try |-> t]
                 IN  earlier \in DOMAIN answers /\ GoesOn(r.to, t, answers[earlier])
      <4> DEFINE before == [to |-> r.to, try |-> r.try - 1]
      <4>1. r.try \in Nat /\ r.try > 1
        <5>1. r.try \in Nat
          BY RequestShape, Zenon
        <5>2. QED BY <5>1
      <4>2. before \in DOMAIN answers /\ before.to = r.to /\ before.try = r.try - 1
        BY <2>2, <4>1
      <4>3. CASE t = r.try - 1
        BY <2>2, <4>1, <4>3
      <4>4. CASE t # r.try - 1
        <5>1. t \in 1..(before.try - 1)
          BY <4>1, <4>2, <4>4
        <5>2. QED BY <4>2, <5>1 DEF FetchInv, AttemptsInOrder
      <4>5. QED BY <4>3, <4>4
    <3>2. QED BY <2>1, <3>1 DEF FetchInv, AttemptsInOrder
  <2>4. QED BY <2>1, <2>2, <2>3 DEF FetchInv, FetchTypeOK
<1>4. ASSUME NEW r \in Requests, Answer(r) PROVE FetchInv'
  <2>1. /\ phase = "asking" /\ r \in flying /\ flying' = flying \ {r}
        /\ UNCHANGED <<fetch, phase, result>>
    BY <1>4 DEF Answer
  <2>2. r.to \in Endpoints
    BY RequestShape
  <2>3. PICK v : answers' = Put(answers, r, v) /\ v.kind \in VerdictKinds
    BY <1>4, <2>2, JudgeIsKind DEF Answer
  <2>4. /\ DOMAIN answers' = DOMAIN answers \cup {r} /\ answers'[r] = v
        /\ r \notin DOMAIN answers
        /\ \A q \in DOMAIN answers : q # r /\ answers'[q] = answers[q]
    <3>1. r \notin DOMAIN answers
      BY <2>1 DEF FetchInv
    <3>2. /\ DOMAIN Put(answers, r, v) = DOMAIN answers \cup {r}
          /\ Put(answers, r, v)[r] = v
          /\ \A j \in DOMAIN answers \ {r} : Put(answers, r, v)[j] = answers[j]
      BY DEF Put
    <3>3. QED BY <2>3, <3>1, <3>2
  <2>5. AttemptsInOrder'
    BY <2>1, <2>4 DEF FetchInv, AttemptsInOrder
  <2>6. QED BY <2>1, <2>3, <2>4, <2>5 DEF FetchInv, FetchTypeOK
<1>5. CASE Finish
  <2>1. /\ phase = "asking" /\ flying = {} /\ Wanted(fetch.type, answers) = {}
        /\ phase' = "done" /\ result' \in Outcomes(fetch.type, answers)
        /\ UNCHANGED <<fetch, flying, answers>>
    BY <1>5 DEF Finish
  <2>2. result'.kind \in {"ok"} \cup FailureKinds
    BY <2>1, OutcomeKind
  <2>3. QED BY <2>1, <2>2 DEF FetchInv, FetchTypeOK, AttemptsInOrder
<1>6. QED
  BY <1>1, <1>2, <1>3, <1>4, <1>5 DEF FetchNext

\* ... so that it always holds.
LEMMA InvHolds == FetchSpec => []FetchInv
BY InitInv, NextInv, PTL DEF FetchSpec

-------------------------------------------------------------------------------
(* The theorems *)

\* Requests are made only while a query is under way, and a failure always
\* has a kind, whatever the providers answer.
THEOREM FetchTypeCorrect == FetchSpec => []FetchTypeOK
<1>1. FetchInv => FetchTypeOK
  BY DEF FetchInv
<1>2. QED BY <1>1, InvHolds, PTL

\* Attempts in order, and one of them at a time, are justified retries.
LEMMA InvRetries == FetchInv => RetriesOnlyAfterRejection
<1> SUFFICES ASSUME FetchInv, NEW r \in flying \cup DOMAIN answers
    PROVE  /\ \A s \in flying :
                (s.to = r.to /\ s.try >= r.try) => (s = r \/ r \in DOMAIN answers)
           /\ r.to \notin {"claude-usage", "claude-costs"} =>
                \A t \in 1..(r.try - 1) :
                  LET earlier == [to |-> r.to, try |-> t]
                  IN  /\ earlier \in DOMAIN answers
                      /\ answers[earlier].kind = "authentication"
                      /\ r.to # "minimax-remains" => answers[earlier].status = 401
  BY DEF RetriesOnlyAfterRejection
<1>1. r \in Requests
  BY DEF FetchInv, FetchTypeOK
<1>2. r = [to |-> r.to, try |-> r.try] /\ r.try \in Nat /\ 1 <= r.try
  <2>1. r.try \in 1..MaxTries(r.to)
    BY <1>1, RequestShape, Zenon
  <2>2. r = [to |-> r.to, try |-> r.try] /\ MaxTries(r.to) \in Nat
    BY <1>1, RequestShape, Zenon
  <2>3. QED BY <2>1, <2>2
<1>3. ASSUME NEW s \in flying, s.to = r.to, s.try >= r.try
      PROVE  s = r \/ r \in DOMAIN answers
  <2>1. s \in Requests
    BY DEF FetchInv, FetchTypeOK
  <2>2. s = [to |-> s.to, try |-> s.try] /\ s.try \in Nat
    BY <2>1, RequestShape, Zenon
  <2>3. CASE s.try = r.try
    BY <1>2, <1>3, <2>2, <2>3
  <2>4. CASE s.try # r.try
    <3>1. r.try \in 1..(s.try - 1)
      BY <1>2, <1>3, <2>2, <2>4
    <3>2. [to |-> s.to, try |-> r.try] \in DOMAIN answers
      BY <3>1 DEF FetchInv, AttemptsInOrder
    <3>3. QED BY <1>2, <1>3, <3>2
  <2>5. QED BY <2>3, <2>4
<1>4. ASSUME r.to \notin {"claude-usage", "claude-costs"},
             NEW t \in 1..(r.try - 1)
      PROVE  LET earlier == [to |-> r.to, try |-> t]
             IN  /\ earlier \in DOMAIN answers
                 /\ answers[earlier].kind = "authentication"
                 /\ r.to # "minimax-remains" => answers[earlier].status = 401
  BY <1>4 DEF FetchInv, AttemptsInOrder, GoesOn
<1>5. QED BY <1>3, <1>4

\* No endpoint is asked again but with another credential style, after a
\* rejection of the one before.
THEOREM RetriesAreJustified == FetchSpec => []RetriesOnlyAfterRejection
BY InvHolds, InvRetries, PTL

\* Fetch returns once, with data and warnings about its lesser parts or with
\* one failure, and what it returned stays: every step of the machine is the
\* promised step or none.  (That it returns at all is left to TLC.)
THEOREM ReturnsWhatIsPromised ==
  FetchSpec => Promise!Init /\ [][Promise!Next]_(Promise!vars)
<1>1. FetchInit => Promise!Init
  BY DEF FetchInit, Promise!Init, Promise!Pending, Success
<1>2. FetchInv /\ [FetchNext]_fetchVars => [Promise!Next]_(Promise!vars)
  <2> SUFFICES ASSUME FetchInv, [FetchNext]_fetchVars
      PROVE  [Promise!Next]_(Promise!vars)
    OBVIOUS
  <2>1. CASE UNCHANGED <<phase, result>>
    BY <2>1 DEF Promise!vars
  <2>2. CASE Begin
    <3>1. CASE Refusal(fetch).kind = "ok"
      BY <2>2, <3>1 DEF Begin, Promise!vars
    <3>2. CASE Refusal(fetch).kind # "ok"
      <4>1. /\ phase = "new" /\ phase' = "done"
            /\ result' = Failure(fetch.type, Refusal(fetch))
        BY <2>2, <3>2 DEF Begin
      <4>2. result'.kind \in {"ok"} \cup FailureKinds /\ result'.warnings = {}
        BY <4>1, NextInv DEF Failure, FetchInv, FetchTypeOK
      <4>3. Refusal(fetch).kind \in FailureKinds
        BY <3>2, ClassificationIsKind, KindNames
           DEF Refusal, Failed, BadAddress, Fine, Verdict
      <4>4. result'.kind \in FailureKinds
        BY <4>1, <4>3, FetchFailureIsKind DEF Failure
      <4>5. QED
        BY <4>1, <4>2, <4>4 DEF Promise!Next, Promise!Return, Promise!Outcomes
    <3>3. QED BY <3>1, <3>2
  <2>3. CASE Finish
    <3>1. /\ phase = "asking" /\ phase' = "done"
          /\ Wanted(fetch.type, answers) = {}
          /\ result' \in Outcomes(fetch.type, answers)
      BY <2>3 DEF Finish
    <3>2. \/ result'.kind = "ok" /\ {w.of : w \in result'.warnings} \subseteq Sections
          \/ result'.kind \in FailureKinds /\ result'.warnings = {}
      BY <3>1, OutcomeKind
    <3>3. QED
      BY <3>1, <3>2 DEF Promise!Next, Promise!Return, Promise!Outcomes
  <2>4. QED
    BY <2>1, <2>2, <2>3 DEF FetchNext, Ask, Answer, fetchVars
<1>3. QED
  BY <1>1, <1>2, InvHolds, PTL DEF FetchSpec

-------------------------------------------------------------------------------
(* What the query returns is what its exchanges told *)

Reports == {"claude-usage", "claude-costs"}

\* What the answers of an exchange never are: a wait that is no number, or a
\* report's last page that promises another.
AnswersInv ==
  /\ phase = "new" => DOMAIN answers = {}
  /\ \A r \in DOMAIN answers :
       /\ answers[r].retry \in Nat
       /\ (r.to \in Reports /\ answers[r].kind = "ok" /\ answers[r].more) =>
            r.try < MaxPages

\* The wait of a verdict is a number of seconds.
LEMMA DoGetRetry ==
  ASSUME NEW to \in Endpoints, NEW ex \in Exchanges[to], NEW proxy
  PROVE  DoGet(ex, proxy).retry \in Nat
<1>1. /\ ex.end \in {"whole", "lost", "cut", "oversized", "garbled"}
      /\ ex.after.value \in Int
  BY FetchAssumption
<1>2. ParseRetryAfter(ex.after) \in Nat
  BY <1>1 DEF ParseRetryAfter
<1>3. \A status : ErrorAnswer(ex, status).retry \in Nat
  BY <1>2 DEF ErrorAnswer, Verdict
<1>4. \A causes, client, status : TransportFailure(causes, client, status).retry \in Nat
  BY DEF TransportFailure, Verdict
<1>5. QED
  BY <1>1, <1>3, <1>4 DEF DoGet, Failed, Fine, Verdict

\* A provider that reads the body asks for no wait, and the last page that a
\* report may have does not promise another.
LEMMA JudgeAnswer ==
  ASSUME NEW r, r.to \in Endpoints, NEW ex \in Exchanges[r.to],
         NEW proxy, NEW before, r.try \in Nat
  PROVE  LET v == Judge(r, ex, proxy, before)
         IN  /\ v.retry \in Nat
             /\ (r.to \in Reports /\ v.kind = "ok" /\ v.more) => r.try < MaxPages
<1> DEFINE b == ex.body
           v == Judge(r, ex, proxy, before)
<1>1. \A code, says : Business(code, says).retry \in Nat
  BY DEF Business, Verdict
<1>2. Fine.retry \in Nat /\ InvalidResponse.retry \in Nat
  BY DEF Fine, InvalidResponse, Failed, Verdict
<1>3. /\ GLMQuota(b).retry \in Nat /\ GLMDetail(b).retry \in Nat
  BY <1>1, <1>2 DEF GLMQuota, GLMDetail, SuccessCode
<1>4. Sub2APIUsage(b).retry \in Nat
  BY <1>1, <1>2 DEF Sub2APIUsage
<1>5. MiniMaxRemains(b).retry \in Nat
  BY <1>1, <1>2 DEF MiniMaxRemains
<1>6. NewAPIAnswer(r.to, b).retry \in Nat
  BY <1>1, <1>2 DEF NewAPIAnswer
<1>7. KimiBalance(b).retry \in Nat
  BY <1>1, <1>2 DEF KimiBalance
<1>8. ClaudePage(r.to, b, r.try, before).retry \in Nat
  BY <1>2 DEF ClaudePage, Fine, Verdict
<1>9. DoGet(ex, proxy).retry \in Nat
  BY DoGetRetry
<1>10. v.retry \in Nat
  BY <1>2, <1>3, <1>4, <1>5, <1>6, <1>7, <1>8, <1>9 DEF Judge, Endpoints
<1>11. ASSUME r.to \in Reports, v.kind = "ok", v.more PROVE r.try < MaxPages
  <2>1. v = ClaudePage(r.to, b, r.try, before)
    BY <1>11 DEF Judge, Reports
  <2>2. InvalidResponse.kind # "ok"
    BY DEF InvalidResponse, Failed, Verdict
  <2>3. ClaudePage(r.to, b, r.try, before) # InvalidResponse
    BY <1>11, <2>1, <2>2
  <2>4. ~ (b.more /\ r.try >= MaxPages)
    BY <2>3 DEF ClaudePage
  <2>5. v.more = b.more
    BY <2>1, <2>3 DEF ClaudePage, Fine, Verdict
  <2>6. QED BY <1>11, <2>4, <2>5, FetchAssumption
<1>12. QED BY <1>10, <1>11

\* What a result has to do with the answers it was made of.
Matches(type, ans, res) ==
  LET open == Open(type, ans)
      failed == {e \in open : Final(ans, e).kind # "ok"}
      decide == IF type = "claude" THEN open ELSE {Primary(type, ans)}
  IN  /\ \A e \in open : Settled(ans, e)
      /\ (res.kind = "ok") <=> ~(decide \subseteq failed)
      /\ (res.kind = "ok" /\ res.warnings = {}) =>
           failed \cap (decide \cup Sections) = {}
      /\ \A e \in open \cap Reports : ~Final(ans, e).more \/ e \in failed
      /\ res.kind # "ok" =>
           \A e \in decide :
             Final(ans, e).retry > 0 =>
               res.retry >= Final(ans, e).retry /\ res.retryable

\* The longer of two waits.
LEMMA LongerWait ==
  ASSUME NEW x \in Nat, NEW y \in Nat
  PROVE  Max({x, y}) \in Nat /\ x <= Max({x, y}) /\ y <= Max({x, y})
<1>1. \E m \in {x, y} : \A z \in {x, y} : m >= z
  BY x >= y \/ y >= x
<1>2. Max({x, y}) \in {x, y} /\ \A z \in {x, y} : Max({x, y}) >= z
  BY <1>1 DEF Max
<1>3. QED BY <1>2

\* A report that was read to its end has no other page, or it failed.
LEMMA ReportsEnd ==
  ASSUME FetchInv, AnswersInv, phase = "asking",
         Wanted(fetch.type, answers) = {},
         NEW e \in Open(fetch.type, answers), e \in Reports,
         Final(answers, e).kind = "ok"
  PROVE  ~Final(answers, e).more
<1> DEFINE r == [to |-> e, try |-> LastTry(answers, e)]
<1>1. r \in DOMAIN answers /\ Final(answers, e) = answers[r]
  BY AllSettled DEF Final
<1>2. ~GoesOn(e, LastTry(answers, e), Final(answers, e))
  BY AllSettled DEF Settled
<1>3. SUFFICES ASSUME Final(answers, e).more PROVE FALSE
  OBVIOUS
<1>4. LastTry(answers, e) < MaxPages
  <2>1. r.to = e /\ r.try = LastTry(answers, e)
    OBVIOUS
  <2> HIDE DEF r
  <2>2. QED BY <1>1, <1>3, <2>1 DEF AnswersInv
<1>5. MaxTries(e) = MaxPages
  BY DEF MaxTries, Reports
<1>6. GoesOn(e, LastTry(answers, e), Final(answers, e))
  BY <1>3, <1>4, <1>5 DEF GoesOn, Reports
<1>7. QED BY <1>2, <1>6

\* A query that failed asks its caller to wait as long as the failure that
\* decided it does, and may then be retried.
LEMMA WaitsReachTheCaller ==
  ASSUME FetchInv, AnswersInv, phase = "asking",
         Wanted(fetch.type, answers) = {},
         NEW v \in Failing(fetch.type, answers),
         NEW e \in IF fetch.type = "claude" THEN Open(fetch.type, answers)
                   ELSE {Primary(fetch.type, answers)},
         Final(answers, e).retry > 0
  PROVE  /\ Failure(fetch.type, v).retry >= Final(answers, e).retry
         /\ Failure(fetch.type, v).retryable
<1> DEFINE type == fetch.type
<1>1. Refusal(fetch).kind = "ok" /\ Primary(type, answers) \in Open(type, answers)
  BY OpenEndpoints DEF FetchInv
<1>2. \A t \in Open(type, answers) : Final(answers, t).retry \in Nat
  BY AllSettled DEF Final, AnswersInv
<1>3. e \in Open(type, answers)
  BY <1>1
<1>4. v.retry \in Nat /\ Final(answers, e).retry <= v.retry
  <2>1. CASE type = "claude"
    <3> DEFINE u == Final(answers, "claude-usage")
               c == Final(answers, "claude-costs")
    <3>1. Open(type, answers) = {"claude-usage", "claude-costs"}
      BY <2>1 DEF Open
    <3>2. u.retry \in Nat /\ c.retry \in Nat
      BY <1>2, <3>1
    <3>3. v = Combined(u, c)
      BY <2>1 DEF Failing
    <3>4. Final(answers, e) = u \/ Final(answers, e) = c
      BY <1>3, <3>1
    <3> HIDE DEF u, c
    <3>5. v.retry = Max({u.retry, c.retry})
      BY <3>3 DEF Combined, Verdict
    <3>6. QED BY <3>2, <3>4, <3>5, LongerWait
  <2>2. CASE type # "claude"
    <3>1. e = Primary(type, answers) /\ v = Final(answers, Primary(type, answers))
      BY <2>2 DEF Failing
    <3>2. QED BY <1>2, <1>3, <3>1
  <2>3. QED BY <2>1, <2>2
<1>5. /\ Failure(type, v).retry = v.retry
      /\ v.retry > 0 => Failure(type, v).retryable
  BY DEF Failure, ClassifyFetchFailure
<1>6. QED BY <1>2, <1>3, <1>4, <1>5

\* What Finish returns matches the answers there are.
LEMMA FinishMatches ==
  ASSUME FetchInv, AnswersInv, phase = "asking",
         Wanted(fetch.type, answers) = {},
         NEW x \in Outcomes(fetch.type, answers)
  PROVE  Matches(fetch.type, answers, x)
<1> DEFINE type == fetch.type
           open == Open(type, answers)
           failed == {e \in open : Final(answers, e).kind # "ok"}
           decide == IF type = "claude" THEN open ELSE {Primary(type, answers)}
<1>1. Refusal(fetch).kind = "ok" /\ Primary(type, answers) \in open
  BY OpenEndpoints DEF FetchInv
<1>2. type = "claude" => open = Reports
  BY DEF Open, Reports
<1>3. Failing(type, answers) # {} <=> decide \subseteq failed
  <2>1. CASE type = "claude"
    BY <1>2, <2>1 DEF Failing, Reports
  <2>2. CASE type # "claude"
    BY <1>1, <2>2 DEF Failing
  <2>3. QED BY <2>1, <2>2
<1>4. CASE Failing(type, answers) # {}
  <2>1. PICK v \in Failing(type, answers) : x = Failure(type, v)
    BY <1>4 DEF Outcomes
  <2>2. x.kind # "ok"
    <3>1. v.kind \in FailureKinds
      BY FailingIsKind
    <3>2. x.kind \in FailureKinds
      BY <2>1, <3>1, FetchFailureIsKind DEF Failure
    <3>3. QED BY <3>2 DEF FailureKinds
  <2>3. \A e \in decide :
          Final(answers, e).retry > 0 =>
            x.retry >= Final(answers, e).retry /\ x.retryable
    BY <2>1, WaitsReachTheCaller
  <2>4. \A e \in open : Settled(answers, e)
    BY AllSettled
  <2>5. \A e \in open \cap Reports : ~Final(answers, e).more \/ e \in failed
    BY ReportsEnd
  <2>6. QED BY <1>3, <1>4, <2>2, <2>3, <2>4, <2>5 DEF Matches
<1>5. CASE Failing(type, answers) = {}
  <2> DEFINE W == IF type \in {"glm", "claude"}
                  THEN Warnings(type, answers, open) ELSE {}
  <2>1. x = Success(W)
    BY <1>5 DEF Outcomes
  <2>2. x.kind = "ok" /\ x.warnings = W
    BY <2>1 DEF Success
  <2>3. ASSUME W = {} PROVE failed \cap (decide \cup Sections) = {}
    <3>1. CASE type \in {"glm", "claude"}
      <4>1. Warnings(type, answers, open) = {}
        BY <2>3, <3>1
      <4>2. failed = {}
        BY <4>1 DEF Warnings
      <4>3. QED BY <4>2
    <3>2. CASE type \notin {"glm", "claude"}
      <4>1. open \cap Sections = {}
        BY <3>2 DEF Open, Sections
      <4>2. decide \cap failed = {}
        BY <1>3, <1>5, <3>2
      <4>3. QED BY <4>1, <4>2
    <3>3. QED BY <3>1, <3>2
  <2>4. \A e \in open : Settled(answers, e)
    BY AllSettled
  <2>5. \A e \in open \cap Reports : ~Final(answers, e).more \/ e \in failed
    BY ReportsEnd
  <2> HIDE DEF W
  <2>6. QED BY <1>3, <1>5, <2>2, <2>3, <2>4, <2>5 DEF Matches
<1>6. QED BY <1>4, <1>5

\* The property, of a query that is done.
LEMMA MatchesIsProperty ==
  OutcomeMatchesAnswers <=>
    ((phase = "done" /\ DOMAIN answers # {}) => Matches(fetch.type, answers, result))
BY Zenon DEF OutcomeMatchesAnswers, Matches, Reports

\* Answers are of numbers and pages, and a query that is done matches them.
OutcomeInv ==
  /\ AnswersInv
  /\ (phase = "done" /\ DOMAIN answers # {}) => Matches(fetch.type, answers, result)

\* A query that was not made yet has no answers.
LEMMA InitOutcome == FetchInit => OutcomeInv
BY DEF FetchInit, OutcomeInv, AnswersInv, NoEntries

\* Answers are judged as they come, and the result as the query ends.
LEMMA NextOutcome ==
  FetchInv /\ OutcomeInv /\ [FetchNext]_fetchVars => OutcomeInv'
<1> SUFFICES ASSUME FetchInv, OutcomeInv, [FetchNext]_fetchVars PROVE OutcomeInv'
  OBVIOUS
<1>1. CASE UNCHANGED fetchVars
  BY <1>1 DEF fetchVars, OutcomeInv, AnswersInv
<1>2. CASE Begin
  <2>1. DOMAIN answers' = {} /\ answers' = answers
    BY <1>2 DEF Begin, OutcomeInv, AnswersInv
  <2>2. QED BY <2>1 DEF OutcomeInv, AnswersInv
<1>3. ASSUME NEW r \in Requests, Ask(r) PROVE OutcomeInv'
  <2>1. phase = "asking" /\ UNCHANGED <<fetch, phase, answers, result>>
    BY <1>3 DEF Ask
  <2>2. QED BY <2>1 DEF OutcomeInv, AnswersInv
<1>4. ASSUME NEW r \in Requests, Answer(r) PROVE OutcomeInv'
  <2>1. phase = "asking" /\ phase' = "asking"
    BY <1>4 DEF Answer
  <2>2. r.to \in Endpoints /\ r.try \in Nat
    BY RequestShape
  <2>3. PICK v : /\ answers' = Put(answers, r, v)
                 /\ v.retry \in Nat
                 /\ (r.to \in Reports /\ v.kind = "ok" /\ v.more) => r.try < MaxPages
    <3> DEFINE page == [r EXCEPT !.try = @ - 1]
               before == IF page \in DOMAIN answers THEN answers[page].total ELSE 0
    <3>1. PICK ex \in Exchanges[r.to] :
            answers' = Put(answers, r, Judge(r, ex, fetch.proxy, before))
      BY <1>4 DEF Answer
    <3> HIDE DEF before
    <3>2. QED BY <2>2, <3>1, JudgeAnswer
  <2>4. /\ DOMAIN answers' = DOMAIN answers \cup {r} /\ answers'[r] = v
        /\ \A q \in DOMAIN answers \ {r} : answers'[q] = answers[q]
    BY <2>3 DEF Put
  <2>5. QED BY <2>1, <2>3, <2>4 DEF OutcomeInv, AnswersInv
<1>5. CASE Finish
  <2>1. /\ phase = "asking" /\ Wanted(fetch.type, answers) = {}
        /\ phase' = "done" /\ result' \in Outcomes(fetch.type, answers)
        /\ UNCHANGED <<fetch, flying, answers>>
    BY <1>5 DEF Finish
  <2>2. Matches(fetch.type, answers, result')
    BY <2>1, FinishMatches DEF OutcomeInv
  <2>3. QED BY <2>1, <2>2 DEF OutcomeInv, AnswersInv
<1>6. QED
  BY <1>1, <1>2, <1>3, <1>4, <1>5 DEF FetchNext

\* The query a caller sees tells what its exchanges told, for any answers:
\* every endpoint was asked to its end, data without a warning is complete,
\* a lesser report does not fail it, and a wait reaches the caller.
THEOREM OutcomesAreFaithful == FetchSpec => []OutcomeMatchesAnswers
<1>1. OutcomeInv => OutcomeMatchesAnswers
  BY MatchesIsProperty DEF OutcomeInv
<1>2. QED BY <1>1, InvHolds, InitOutcome, NextOutcome, PTL DEF FetchSpec
===============================================================================
