------------------------------- MODULE Failures -------------------------------
(***************************************************************************)
(* What an exchange with a provider comes to: internal/providers/http.go   *)
(* turns it into a success or into a failure of one kind, and main.go      *)
(* looks at that failure once more before the page sees it.                *)
(*                                                                         *)
(* A text (a provider's message, a code) is the set of the known words it  *)
(* contains; the program's Chinese phrases are glossed in English.  A word *)
(* or code table is a sequence of <<kind, entries>>, searched in order as  *)
(* the cases of the Go switches are.                                       *)
(***************************************************************************)
EXTENDS Integers, FiniteSets, SequencesExt

FailureKinds ==
  {"authentication", "permission", "insufficient_funds", "quota_exhausted",
   "rate_limited", "conflict", "invalid_config", "endpoint", "proxy",
   "timeout", "dns", "tls", "network", "invalid_response",
   "service_unavailable", "account_restricted", "no_data", "unsupported",
   "unknown"}

\* The kind of the first row of a table that shares an entry with the set.
Named(table, entries) ==
  LET i == SelectInSeq(table, LAMBDA row : row[2] \cap entries # {})
  IN  IF i = 0 THEN "unknown" ELSE table[i][1]

FirstNamed(kinds) ==
  LET i == SelectInSeq(kinds, LAMBDA k : k # "unknown")
  IN  IF i = 0 THEN "unknown" ELSE kinds[i]

-------------------------------------------------------------------------------
(* http.go: classifyProviderFailure *)

HttpCodes == <<
  <<"authentication",
    {"401", "api_key_required", "api_key_invalid", "invalid_api_key",
     "invalid_key", "invalid_token", "token_invalid", "unauthenticated",
     "unauthorized", "invalid_authentication_error",
     "incorrect_api_key_error", "authentication_error",
     "auth_unauthorized", "1004", "2049"}>>,
  <<"account_restricted",
    {"api_key_disabled", "api_key_expired", "expired_api_key",
     "key_disabled", "account_disabled", "account_suspended",
     "user_not_found"}>>,
  <<"permission",
    {"403", "access_denied", "forbidden", "insufficient_permissions",
     "permission_denied", "permission_denied_error"}>>,
  <<"insufficient_funds",
    {"insufficient_balance", "insufficient_funds", "balance_insufficient"}>>,
  <<"quota_exhausted",
    {"quota_exceeded", "quota_exhausted", "usage_limit_exceeded"}>>,
  <<"rate_limited",
    {"429", "1002", "rate_limit_exceeded", "rate_limited",
     "too_many_requests"}>>,
  <<"conflict", {"409", "conflict", "request_conflict"}>>,
  <<"service_unavailable",
    {"api_key_auth_overloaded", "engine_overloaded_error",
     "server_unavailable"}>> >>

Statuses == <<
  <<"invalid_config", {400, 413, 422}>>, <<"authentication", {401}>>,
  <<"insufficient_funds", {402}>>, <<"permission", {403}>>,
  <<"conflict", {409}>>, <<"endpoint", {404, 405}>>,
  <<"timeout", {408, 504}>>, <<"rate_limited", {429}>> >>

HttpWords == <<
  <<"authentication",
    {"invalid-api-key", "invalid_api_key", "incorrect-api-key",
     "incorrect_api_key", "authentication", "unauthorized", "key-is-empty"}>>,
  <<"permission", {"permission", "access-denied"}>>,
  <<"insufficient_funds", {"insufficient-balance", "exceeded_current_quota"}>>,
  <<"quota_exhausted", {"quota_exhausted", "quota-exhausted", "usage-limit"}>>,
  <<"rate_limited", {"rate-limit", "too-many"}>>,
  <<"timeout", {"timeout", "timed-out"}>>,
  <<"proxy", {"proxy"}>>,
  <<"dns", {"dns"}>>,
  <<"tls", {"tls", "certificate"}>>,
  <<"unsupported", {"not-offered"}>>,
  <<"invalid_config", {"endpoint-address"}>>,
  <<"invalid_response", {"not-returned", "response"}>>,
  <<"service_unavailable", {"overload", "service-unavailable"}>> >>

\* The words by which a 429 is a spent quota rather than a rate limit.
QuotaWords == {"quota", "balance", "usage-limit"}

\* The words in a code that HttpCodes lacks: code and message are searched
\* together.
WordsOfCode(code) ==
  CASE code = "overloaded_error" -> {"overload"}
    [] code = "permission_error" -> {"permission"}
    [] code = "invalid_api_key_error" -> {"invalid_api_key"}
    [] code = "insufficient_quota" -> {"quota"}
    [] code = "exceeded_current_quota_error" -> {"quota", "exceeded_current_quota"}
    [] OTHER -> {}

ClassifyProviderFailure(status, code, says) ==
  LET text == says \cup WordsOfCode(code)
      overdrawn == status = 429 /\ text \cap QuotaWords # {}
      overloaded == status = 429 /\ "overload" \in text
  IN  FirstNamed(<<
        IF status \in 300..399 THEN "endpoint" ELSE "unknown",
        Named(HttpCodes, {code}),
        IF overdrawn THEN "quota_exhausted" ELSE "unknown",
        IF overloaded THEN "service_unavailable" ELSE "unknown",
        Named(Statuses, {status}),
        IF status >= 500 THEN "service_unavailable" ELSE "unknown",
        Named(HttpWords, text)>>)

-------------------------------------------------------------------------------
(* http.go: one GET *)

\* What becomes of a request: kind "ok", or the failure it is; code and says
\* are what the failure quotes, cites the HTTP statuses its text names.
Verdict(kind, status, retry, code, says, cites) ==
  [kind |-> kind, status |-> status, retry |-> retry, code |-> code,
   says |-> says, cites |-> cites, more |-> FALSE, total |-> 0]

Fine == Verdict("ok", 0, 0, "", {}, {})

Failed(kind, says) == Verdict(kind, 0, 0, "", says, {})

InvalidResponse == Failed("invalid_response", {})

\* providerBusinessError: the answer came, and says that it is a refusal.
Business(code, says) ==
  Verdict(ClassifyProviderFailure(0, code, says), 0, 0, code, says, {})

\* clientForProxy
ClientForProxy(proxy) ==
  CASE proxy \in {"", "direct", "none"} -> "direct"
    [] proxy \in {"http", "https", "socks5", "socks5h"} -> "proxied"
    [] OTHER -> "unusable"

MaxRedirects == 10

\* providerRedirectPolicy along the origins a chain of redirects leads to: a
\* foreign origin is not visited, its 3xx is the answer, and a tenth hop is
\* an error.
RedirectFate(hops) ==
  LET stop == SelectInSeq(hops, LAMBDA h : h = "foreign")
  IN  CASE stop > 0 /\ stop < MaxRedirects -> "handed-over"
        [] Len(hops) >= MaxRedirects -> "refused"
        [] OTHER -> "arrived"

\* transportProviderError: what is known of the error, in order of weight.
TransportCauses == <<
  <<"timeout", {"deadline", "timeout"}>>, <<"tls", {"tls"}>>,
  <<"endpoint", {"redirect"}>>, <<"proxy", {"proxied"}>>, <<"dns", {"dns"}>> >>

TransportFailure(causes, client, status) ==
  LET kind == FirstNamed(<<Named(TransportCauses, causes \cup {client}), "network">>)
      says == CASE kind = "proxy" -> {"the-proxy", "asking-failed"}
                [] kind = "network" -> {"asking-failed"}
                [] kind = "tls" -> {"tls"}
                [] OTHER -> {}
  IN  Verdict(kind, status, 0, "", says, {})

\* parseRetryAfter: seconds, or a date that is some half seconds ahead.
ParseRetryAfter(after) ==
  CASE after.form = "seconds" /\ after.value > 0 -> after.value
    [] after.form = "date" /\ after.value > 0 -> (after.value + 1) \div 2
    [] OTHER -> 0

\* parseProviderErrorBody: where a code or a message may stand, in order.
ErrorPlaces ==
  <<"error", "top", "base_resp", "data.error", "data", "data.base_resp">>

FirstOf(body, field, blank) ==
  LET Fills(p) == p \in DOMAIN body /\ body[p][field] # blank
      i == SelectInSeq(ErrorPlaces, Fills)
  IN  IF i = 0 THEN blank ELSE body[ErrorPlaces[i]][field]

ErrorAnswer(ex, status) ==
  LET legible == ex.end = "whole"
      code == IF legible THEN FirstOf(ex.error, "code", "") ELSE ""
      says == IF legible THEN FirstOf(ex.error, "says", {}) ELSE {}
  IN  Verdict(ClassifyProviderFailure(status, code, says), status,
              ParseRetryAfter(ex.after), code, says,
              {status} \cap (400..599))

\* doGetContext: what an exchange comes to before anyone reads its body.
DoGet(ex, proxy) ==
  LET client == ClientForProxy(proxy)
      fate == RedirectFate(ex.hops)
      status == IF fate = "handed-over" THEN 302 ELSE ex.status
  IN  IF client = "unusable" THEN Failed("proxy", {"proxy-address"})
      ELSE IF fate = "refused" THEN TransportFailure({"redirect"}, client, 0)
      ELSE IF ex.end = "lost" THEN TransportFailure(ex.causes, client, 0)
      ELSE IF status >= 300 THEN ErrorAnswer(ex, status)
      ELSE CASE ex.end = "cut" -> TransportFailure(ex.causes, client, status)
             [] ex.end = "oversized" ->
                  Verdict("invalid_response", status, 0, "", {"too-large"}, {})
             [] ex.end = "garbled" ->
                  Verdict("invalid_response", status, 0, "", {"undecodable"}, {})
             [] ex.end = "whole" -> Fine

\* serviceEndpoint: only a plain HTTP(S) address of a host can be asked.
Usable(address) == address \in {"http", "https"}

BadAddress == Failed(ClassifyProviderFailure(0, "", {"endpoint-address"}),
                     {"bad-address"})

-------------------------------------------------------------------------------
(* main.go: classifyFetchFailure *)

MainCodes == <<
  <<"authentication",
    {"api_key_required", "invalid_api_key", "unauthorized",
     "authentication_error", "invalid_api_key_error"}>>,
  <<"account_restricted", {"api_key_disabled", "user_not_found"}>>,
  <<"permission", {"access_denied", "permission_error", "forbidden"}>>,
  <<"service_unavailable", {"engine_overloaded_error", "overloaded_error"}>>,
  <<"quota_exhausted",
    {"exceeded_current_quota_error", "insufficient_quota",
     "insufficient_balance"}>>,
  <<"rate_limited",
    {"rate_limit_reached_error", "rate_limit_error",
     "api_key_auth_overloaded"}>> >>

\* providerFailureKind: what a provider means by its numeric codes.
ProviderCodes(type) ==
  CASE type = "minimax" -> <<
         <<"timeout", {"1001"}>>, <<"rate_limited", {"1002", "1041"}>>,
         <<"authentication", {"1004", "2049"}>>,
         <<"insufficient_funds", {"1008"}>>,
         <<"quota_exhausted", {"1039", "2056"}>>,
         <<"service_unavailable", {"1024", "1033"}>> >>
    [] type = "glm" -> <<
         <<"authentication", {"1000", "1001", "1003", "1315"}>>,
         <<"insufficient_funds", {"1113"}>>,
         <<"permission", {"1220", "1311"}>>,
         <<"rate_limited", {"1302", "1313"}>>,
         <<"service_unavailable", {"1305"}>>,
         <<"quota_exhausted",
           {"1308", "1309", "1310", "1316", "1317", "1318", "1319", "1320",
            "1321"}>> >>
    [] OTHER -> <<>>

MainWords == <<
  <<"unsupported", {"audited-as-unsupported"}>>,
  <<"proxy", {"the-proxy", "proxy-address", "proxyconnect", "proxy-error"}>>,
  <<"timeout", {"context-deadline", "deadline-exceeded", "timeout", "timed-out"}>>,
  <<"dns", {"no-such-host", "server-misbehaving", "lookup"}>>,
  <<"tls", {"tls", "x509", "certificate"}>>,
  <<"network",
    {"connection-refused", "connection-reset", "broken-pipe", "dial-tcp",
     "network-is-unreachable", "asking-failed"}>>,
  <<"invalid_response", {"undecodable", "invalid-character", "too-large"}>>,
  <<"invalid_config", {"key-is-empty", "no-address", "bad-address"}>>,
  <<"no_data", {"not-returned", "nothing-recognisable"}>>,
  <<"authentication",
    {"unauthorized", "invalid-api-key", "invalid_api_key", "credential",
     "token-invalid"}>>,
  <<"permission", {"forbidden", "permission", "access-denied"}>>,
  <<"insufficient_funds", {"insufficient-balance", "payment-required"}>>,
  <<"quota_exhausted", {"quota-exhausted", "usage-limit"}>>,
  <<"rate_limited", {"too-many-requests", "rate-limit"}>> >>

InferFailureKind(type, status, code, says) ==
  FirstNamed(<<Named(ProviderCodes(type), {code}), Named(MainCodes, {code}),
               Named(Statuses, {status}),
               IF status >= 500 THEN "service_unavailable" ELSE "unknown",
               Named(MainWords, says)>>)

\* httpStatusFromMessage: the lowest status the text names.
HttpStatusFromMessage(cites) == IF cites = {} THEN 0 ELSE Min(cites)

RetryableKinds ==
  {"rate_limited", "conflict", "timeout", "dns", "tls", "network", "proxy",
   "invalid_response", "service_unavailable", "quota_exhausted"}

ClassifyFetchFailure(type, v) ==
  LET status == IF v.status = 0 THEN HttpStatusFromMessage(v.cites) ELSE v.status
      kind == IF v.kind = "unknown"
              THEN InferFailureKind(type, status, v.code, v.says)
              ELSE v.kind
  IN  [kind |-> kind, status |-> status, retry |-> v.retry,
       retryable |-> v.retry > 0 \/ kind \in RetryableKinds]
===============================================================================
