---------------------------- MODULE DashboardSession ----------------------------
(***************************************************************************)
(* One dashboard page (src/internal/ui/dashboard.go) from its opening on:  *)
(* connecting, loading the configuration, querying balances, and keeping   *)
(* the results in the browser's session so that they show at once when the *)
(* page is opened again.  SettingsSync has what saving does to the         *)
(* configuration; here a save only ends.                                   *)
(*                                                                         *)
(* Requests that are superseded are aborted and leave no trace.  Digests   *)
(* (SHA-256, asynchronous) cannot be aborted, but what is computed with    *)
(* them carries the generation it began in and is ignored in a later one.  *)
(* A load has its data in view before the digests that it ends with are    *)
(* done (stage "read"): the user may click, a query may be answered and a  *)
(* save may end before they are.                                           *)
(***************************************************************************)
EXTENDS Integers, FiniteSets, Functions

CONSTANTS
  Connections,  \* address of a CPA with a management key
  Accounts,     \* keys of AI providers, each of a configuration source of its own
  Types,        \* query types
  None,         \* no mapping, connection, record, query, load
  AtFirst,      \* the mapping of every CPA at first: a bound for TLC
  MaxLoads, MaxFaults, MaxChanges, MaxQueries   \* bounds for TLC

Mapping == [Accounts -> Types \cup {None}]

\* Partial functions on accounts.
Some(S) == UNION {[A -> S] : A \in SUBSET Accounts}
Nothing == [a \in {} |-> None]

ASSUME SessionAssumption ==
  /\ None \notin Connections \cup Types
  /\ AtFirst \in Mapping
  /\ MaxLoads \in Nat /\ MaxFaults \in Nat /\ MaxChanges \in Nat /\ MaxQueries \in Nat

VARIABLES
  remote,      \* provider_mappings at each CPA
  cred,        \* state.credentials, None without a management key
  form,        \* the connection form is in view instead of the app
  view,        \* state.view
  ready,       \* dataReady
  config,      \* state.config.provider_mappings
  live,        \* the accounts of state.providers
  preview,     \* state.previewAccounts: the type each was queried as
  results,     \* state.results, by account
  needsQuery,  \* state.needsQuery
  query,       \* the query under way
  manual,      \* the query of a key typed in: under way or answered
  load,        \* the load under way
  digests,     \* computations that wait for a digest
  snapshot,    \* the record in sessionStorage
  erred,       \* history: the last query or load came to nothing, and the page says so
  overtaken,   \* history: what overtook the digests of the last load, its data in view
  used         \* events so far, for the bounds

shown == <<form, view, ready>>
data == <<config, live, preview, results>>
vars == <<remote, cred, form, view, ready, config, live, preview, results,
          needsQuery, query, manual, load, digests, snapshot, erred, overtaken, used>>

-------------------------------------------------------------------------------
(* Results, accounts and records *)

\* of, the connection a result was fetched over, is history.
Result == [type : Types, ok : BOOLEAN, of : Connections]

\* A bug to be caught: accounts that are not mapped are queried as well.
BuiltUnmapped(mapping, accounts) == [a \in accounts |-> mapping[a]]

\* buildAccounts: the accounts to query, with their types.
Built(mapping, accounts) ==
  [a \in {x \in accounts : mapping[x] # None} |-> mapping[a]]

\* resultMatchesAccount: the digest of an account includes its query type.
Match(rs, accs) == {a \in DOMAIN rs \cap DOMAIN accs : rs[a].type = accs[a]}

Over(f, g) == [a \in DOMAIN f \cup DOMAIN g |-> IF a \in DOMAIN f THEN f[a] ELSE g[a]]

\* displayAccounts
Displayed ==
  LET built == Built(config, live)
  IN  IF ~ready /\ preview # Nothing THEN preview
      ELSE Over(built, Restrict(preview, Match(results, preview)))

\* appendUnavailablePreviewResults: earlier results of accounts whose source
\* could not be read are kept.
WithUnavailable(rs, previous, accs, unavailable) ==
  Over(rs, Restrict(previous, Match(previous, unavailable) \ Match(previous, accs)))

Records == [scope : Connections, accounts : Some(Types), results : Some(Result), mapping : Mapping]
Digests == [kind : {"preview", "read", "persist"}, of : Connections, record : Records \cup {None}]

\* A new generation of loads, or of records to be written, begins: what was
\* being computed for the older one has no effect when it is done.
NewGeneration(kinds) == {d \in digests : d.kind \notin kinds}

\* clearResultSnapshot
ClearSnapshot == digests' = NewGeneration({"persist"}) /\ snapshot' = None

\* persistResultSnapshot, when it has one result for each account.
Persist(c, accs, rs, mapping) ==
  digests' = NewGeneration({"persist"}) \cup
    {[kind |-> "persist", of |-> c,
      record |-> [scope |-> c, accounts |-> accs, results |-> rs, mapping |-> mapping]]}

\* restored, history: since the query began a load has put other results in view.
Queries == [accounts : Some(Types), previous : Some(Result), of : Connections \cup {None},
            restored : BOOLEAN]

NoQuery == [accounts |-> Nothing, previous |-> Nothing, of |-> None, restored |-> FALSE]

\* queryBalances has accounts to ask for, with the results rs in view.
Asked(accs, rs) == [accounts |-> accs, previous |-> rs, of |-> cred, restored |-> FALSE]

\* Without an account only results of sources that could not be read stay.
Emptied(accs, rs) == accs = Nothing /\ (preview = Nothing \/ rs = Nothing)

\* queryBalances with the results rs in view.
Query(accs, rs) ==
  /\ needsQuery' = FALSE
  /\ query' = IF accs = Nothing THEN NoQuery ELSE Asked(accs, rs)
  /\ results' = IF Emptied(accs, rs) THEN Nothing ELSE rs
  /\ erred' = (accs = Nothing /\ ~Emptied(accs, rs))

\* The user has the balances of all accounts queried.
QueryAll ==
  /\ Query(Built(config, live), results)
  /\ IF Emptied(Built(config, live), results) THEN ClearSnapshot ELSE UNCHANGED <<digests, snapshot>>

Querying == query # NoQuery

\* of, the connection a manual query is sent over, is history.
Manuals == [stage : {"none", "asking", "answered"}, of : Connections \cup {None}]

NoManual == [stage |-> "none", of |-> None]

\* resetManualQuery: its request is called off and its answer leaves the view.
ResetManual == manual' = NoManual

Spend(kind, bound) == used[kind] < bound /\ used' = [used EXCEPT ![kind] = @ + 1]

-------------------------------------------------------------------------------
(* Loading *)

NoLoad == [stage |-> "idle", retained |-> Nothing, retainedAccounts |-> Nothing,
           found |-> None, mapping |-> None, failing |-> {}, accounts |-> Nothing]

\* loadData over connection c with the results rs in view: everything under way
\* is called off, and the snapshot is looked up.  (setView owes no query here:
\* every way to this point has reset needsQuery.)
StartLoad(c, rs, accs) ==
  /\ load' = [NoLoad EXCEPT !.stage = "get", !.retained = rs, !.retainedAccounts = accs]
  /\ query' = NoQuery
  /\ ResetManual
  /\ needsQuery' = FALSE
  /\ digests' = NewGeneration({"preview", "read", "persist"}) \cup
       (IF snapshot = None THEN {}
        ELSE {[kind |-> "preview", of |-> c, record |-> snapshot]})
  /\ form' = FALSE
  /\ ready' = FALSE
  /\ erred' = FALSE
  /\ Spend("load", MaxLoads)

\* The connection form is submitted.
Connect(c) ==
  /\ form
  /\ cred' = c
  /\ IF c = cred
     THEN /\ StartLoad(c, results, Displayed)
          /\ UNCHANGED <<results, preview>>
     ELSE /\ StartLoad(c, Nothing, Built(config, live))
          /\ results' = Nothing /\ preview' = Nothing
  /\ UNCHANGED <<remote, view, config, live, snapshot, overtaken>>

\* The reconnect button, after a confirmation if there are unsaved edits.
Reconnect ==
  /\ ~form
  /\ \/ cred # None /\ StartLoad(cred, results, Displayed)
     \/ /\ cred = None
        /\ form' = TRUE
        /\ query' = NoQuery /\ load' = NoLoad /\ needsQuery' = FALSE
        /\ ResetManual
        /\ digests' = NewGeneration({"preview", "read", "persist"})
        /\ UNCHANGED <<ready, erred, used>>
  /\ overtaken' = IF load.stage = "read" THEN "reconnect" ELSE overtaken
  /\ UNCHANGED <<remote, cred, view, data, snapshot>>

\* The page is opened again: only sessionStorage is left.  Credentials that
\* CPA's own pages stored are used at once.
Reopen(c) ==
  /\ cred' = c
  /\ config' = [a \in Accounts |-> None]
  /\ live' = {}
  /\ preview' = Nothing
  /\ results' = Nothing
  /\ view' = "overview"
  /\ needsQuery' = FALSE
  /\ query' = NoQuery
  /\ ResetManual
  /\ ready' = FALSE
  /\ erred' = FALSE
  /\ form' = (c = None)
  /\ load' = IF c = None THEN NoLoad ELSE [NoLoad EXCEPT !.stage = "get"]
  /\ digests' = IF c = None \/ snapshot = None THEN {}
                ELSE {[kind |-> "preview", of |-> c, record |-> snapshot]}
  /\ overtaken' = "no"
  /\ Spend("load", MaxLoads)
  /\ UNCHANGED <<remote, snapshot>>

\* A bug to be caught: a snapshot of any connection will do.
AnyScope(d) == TRUE

\* The snapshot was written over the connection it is read for.
SameScope(d) == d.record.scope = d.of

\* readResultSnapshotPreview has its digest.
PreviewArrives(d) ==
  /\ d \in digests /\ d.kind = "preview"
  /\ digests' = digests \ {d}
  /\ IF SameScope(d)
     THEN /\ load' = [load EXCEPT !.found = d.record]
          /\ IF results = Nothing
             THEN /\ live' = {}
                  /\ config' = d.record.mapping
                  /\ preview' = d.record.accounts
                  /\ results' = d.record.results
             ELSE UNCHANGED data
     ELSE UNCHANGED <<load, data>>
  /\ UNCHANGED <<remote, cred, shown, needsQuery, query, manual, snapshot, erred, overtaken, used>>

PreviewPending == \E d \in digests : d.kind = "preview"

\* The configurations are read; some sources may fail for themselves.
LoadGetServed ==
  /\ load.stage = "get" /\ ~PreviewPending
  /\ \E failing \in SUBSET Accounts :
       /\ load' = [load EXCEPT !.stage = "apply", !.mapping = remote[cred], !.failing = failing]
       /\ IF failing = {} THEN UNCHANGED used ELSE Spend("fault", MaxFaults)
  /\ UNCHANGED <<remote, cred, shown, data, needsQuery, query, manual, digests, snapshot, erred, overtaken>>

\* The runtime got the configuration, or could not: the page shows the data and
\* looks for the snapshot of exactly these accounts.
LoadApplied ==
  LET known == IF load.retained = Nothing /\ load.found # None THEN load.found.accounts
               ELSE load.retainedAccounts
  IN  /\ load.stage = "apply"
      /\ load' = [load EXCEPT !.stage = "read",
                              !.retained = IF results # Nothing THEN results ELSE load.retained,
                              !.accounts = Built(load.mapping, Accounts \ load.failing)]
      /\ config' = load.mapping
      /\ live' = Accounts \ load.failing
      /\ preview' = Restrict(known, load.failing \cap DOMAIN known)
      /\ needsQuery' = FALSE
      /\ ready' = TRUE
      /\ overtaken' = "no"
      /\ digests' = digests \cup {[kind |-> "read", of |-> cred, record |-> snapshot]}
      /\ UNCHANGED <<remote, cred, form, view, results, query, manual, snapshot, erred, used>>

\* A bug to be caught: a record of fewer or other accounts will do.
FoundAny(d, accs) == d.record # None /\ accs # Nothing /\ SameScope(d)

\* readResultSnapshot: a record for exactly the accounts to be queried.
Found(d, accs) ==
  /\ d.record # None /\ accs # Nothing
  /\ SameScope(d) /\ d.record.accounts = accs

\* readResultSnapshot has its digests, and the load ends: with the snapshot,
\* with what was in view as far as it is of these accounts, or with nothing;
\* and with a query unless the snapshot is fresh.  The accounts are those of
\* the moment the data came into view; the query is for those of now.
ReadArrives(d) ==
  LET accs == load.accounts
      earlier == load.retained
      rs == IF Found(d, accs)
            THEN WithUnavailable(d.record.results, earlier, accs, preview)
            ELSE Restrict(earlier, Match(earlier, Over(accs, preview)))
  IN  /\ d \in digests /\ d.kind = "read"
      /\ load' = NoLoad /\ form' = FALSE
      /\ \/ /\ Found(d, accs) \/ accs = Nothing
            /\ results' = rs
            /\ query' = IF Querying THEN [query EXCEPT !.restored = TRUE] ELSE query
            /\ UNCHANGED <<needsQuery, erred>>
         \/ accs # Nothing /\ Query(Built(config, live), rs)
      /\ digests' = (IF results' = Nothing THEN NewGeneration({"persist"}) ELSE digests) \ {d}
      /\ snapshot' = IF results' = Nothing THEN None ELSE snapshot
      /\ UNCHANGED <<remote, cred, view, ready, config, live, preview, manual, overtaken, used>>

\* A load fails: a refused key leads to the connection form; otherwise what is
\* in view stays, or the form comes up if nothing is.
LoadFails ==
  /\ \/ /\ load.stage \in {"get", "apply"}
        /\ cred' = None /\ form' = TRUE /\ ResetManual
        /\ UNCHANGED ready
     \/ /\ load.stage = "get" /\ results # Nothing
        /\ ready' = TRUE
        /\ UNCHANGED <<cred, form, manual>>
     \/ /\ load.stage = "get" /\ results = Nothing
        /\ form' = TRUE /\ ResetManual
        /\ UNCHANGED <<cred, ready>>
  /\ ~PreviewPending
  /\ load' = NoLoad
  /\ erred' = TRUE
  /\ Spend("fault", MaxFaults)
  /\ UNCHANGED <<remote, view, data, needsQuery, query, digests, snapshot, overtaken>>

-------------------------------------------------------------------------------
(* Querying *)

\* The refresh button.
Refresh ==
  /\ ~form /\ ready /\ view = "overview" /\ ~Querying
  /\ QueryAll
  /\ Spend("query", MaxQueries)
  /\ UNCHANGED <<remote, cred, shown, config, live, preview, manual, load, overtaken>>

\* A bug to be caught: every answer replaces what is in view.
TakeAll(answer, previous) == answer

\* mergeQueryResults for one account: a failure does not replace a success.
Merged(answer, previous) ==
  [a \in DOMAIN answer |->
     IF ~answer[a].ok /\ a \in Match(previous, [x \in DOMAIN answer |-> answer[x].type])
                      /\ previous[a].ok
     THEN previous[a] ELSE answer[a]]

\* CPA answers for every account, each with a success or a failure; without a
\* connection it refuses.
QueryAnswered ==
  LET accs == query.accounts
  IN  /\ Querying /\ query.of # None
      /\ \E ok \in [DOMAIN accs -> BOOLEAN] :
           LET answer == [a \in DOMAIN accs |-> [type |-> accs[a], ok |-> ok[a], of |-> query.of]]
               rs == WithUnavailable(Merged(answer, query.previous), query.previous, accs, preview)
           IN  /\ results' = rs
               /\ IF DOMAIN rs = DOMAIN accs THEN Persist(query.of, accs, rs, config) ELSE UNCHANGED digests
      /\ query' = NoQuery
      /\ overtaken' = IF load = NoLoad THEN "no" ELSE overtaken
      /\ UNCHANGED <<remote, cred, shown, config, live, preview, needsQuery, manual, load, snapshot, erred, used>>

\* A query fails as a whole: what is in view stays.
QueryFails ==
  /\ Querying
  /\ query' = NoQuery
  /\ erred' = TRUE
  /\ Spend("fault", MaxFaults)
  /\ UNCHANGED <<remote, cred, shown, data, needsQuery, manual, load, digests, snapshot, overtaken>>

\* persistResultSnapshot has its digests; storage may be full.
PersistArrives(d) ==
  /\ d \in digests /\ d.kind = "persist"
  /\ digests' = digests \ {d}
  /\ snapshot' \in {d.record, None}
  /\ UNCHANGED <<remote, cred, shown, data, needsQuery, query, manual, load, erred, overtaken, used>>

\* The record grows too old: it is discarded where it is read next.
SnapshotExpires ==
  /\ snapshot # None
  /\ snapshot' = None
  /\ Spend("fault", MaxFaults)
  /\ UNCHANGED <<remote, cred, shown, data, needsQuery, query, manual, load, digests, erred, overtaken>>

\* The form for a key typed in: allowed whenever the overview is, also while
\* the page loads; queryManualBalance asks over the connection of the moment.
AskManual ==
  /\ ~form /\ view = "overview" /\ manual.stage # "asking"
  /\ manual' = [stage |-> "asking", of |-> cred]
  /\ Spend("query", MaxQueries)
  /\ UNCHANGED <<remote, cred, shown, data, needsQuery, query, load, digests, snapshot, erred, overtaken>>

\* The answer comes into view, or a message that there is none.
ManualAnswered ==
  /\ manual.stage = "asking"
  /\ \/ manual.of # None /\ manual' = [manual EXCEPT !.stage = "answered"]
     \/ manual' = NoManual
  /\ UNCHANGED <<remote, cred, shown, data, needsQuery, query, load, digests, snapshot, erred, overtaken, used>>

-------------------------------------------------------------------------------
(* Views, saves, other pages *)

\* setView
SwitchView(v) ==
  /\ ~form /\ view # v
  /\ v = "settings" => ready
  /\ view' = v
  /\ IF v = "overview" /\ needsQuery /\ ~Querying
     THEN QueryAll
     ELSE UNCHANGED <<results, query, needsQuery, erred, digests, snapshot>>
  /\ UNCHANGED <<remote, cred, form, ready, config, live, preview, manual, load, overtaken, used>>

\* A bug to be caught: results of another mapping stay in view.
KeepResults == UNCHANGED results

\* What is in view goes with the mapping it was queried by.
DropResults == results' = Nothing

\* saveSettings has written mapping m and ends: applied, or with the runtime
\* not reached, or with a key that is refused by then.
SaveEnds(m, how) ==
  LET mappingChanged == \E a \in live : m[a] # config[a]
  IN  /\ ~form /\ ready /\ cred # None
      /\ remote' = [remote EXCEPT ![cred] = m]
      /\ config' = m
      /\ form' = (how = "auth")
      /\ cred' = IF how = "auth" THEN None ELSE cred
      /\ IF how = "auth" THEN ResetManual ELSE UNCHANGED manual
      /\ \/ /\ mappingChanged
            /\ ClearSnapshot
            /\ DropResults
            /\ overtaken' = IF load.stage = "read" THEN "save" ELSE overtaken
            /\ IF how = "applied" /\ view = "overview"
               THEN /\ query' = IF Built(m, live) = Nothing THEN NoQuery ELSE Asked(Built(m, live), Nothing)
                    /\ needsQuery' = FALSE /\ erred' = FALSE
               ELSE query' = NoQuery /\ needsQuery' = TRUE /\ UNCHANGED erred
         \/ /\ ~mappingChanged
            /\ IF /\ how = "applied" /\ results # Nothing
                  /\ DOMAIN results = DOMAIN Built(m, live)
                  /\ Match(results, Built(m, live)) = DOMAIN results
               THEN Persist(cred, Built(m, live), results, m)
               ELSE UNCHANGED digests
            /\ UNCHANGED <<results, query, needsQuery, erred, snapshot, overtaken>>
      /\ Spend("change", MaxChanges)
      /\ UNCHANGED <<view, ready, live, preview, load>>

\* Another page or client changes the mapping.
RemoteChange(c, a, t) ==
  /\ remote[c][a] # t
  /\ remote' = [remote EXCEPT ![c][a] = t]
  /\ Spend("change", MaxChanges)
  /\ UNCHANGED <<cred, shown, data, needsQuery, query, manual, load, digests, snapshot, erred, overtaken>>

-------------------------------------------------------------------------------
Init ==
  /\ remote = [c \in Connections |-> AtFirst]
  /\ cred = None
  /\ form = TRUE
  /\ view = "overview"
  /\ ready = FALSE
  /\ config = [a \in Accounts |-> None]
  /\ live = {}
  /\ preview = Nothing
  /\ results = Nothing
  /\ needsQuery = FALSE
  /\ query = NoQuery
  /\ manual = NoManual
  /\ load = NoLoad
  /\ digests = {}
  /\ snapshot = None
  /\ erred = FALSE
  /\ overtaken = "no"
  /\ used = [load |-> 0, fault |-> 0, change |-> 0, query |-> 0]

Next ==
  \/ \E c \in Connections : Connect(c)
  \/ \E c \in Connections \cup {None} : Reopen(c)
  \/ Reconnect
  \/ LoadGetServed \/ LoadApplied \/ LoadFails
  \/ \E d \in digests : PreviewArrives(d) \/ ReadArrives(d) \/ PersistArrives(d)
  \/ SnapshotExpires
  \/ Refresh \/ QueryAnswered \/ QueryFails \/ AskManual \/ ManualAnswered
  \/ \E v \in {"overview", "settings"} : SwitchView(v)
  \/ \E m \in Mapping : \E how \in {"applied", "not applied", "auth"} : SaveEnds(m, how)
  \/ \E c \in Connections : \E a \in Accounts : \E t \in Types \cup {None} : RemoteChange(c, a, t)

Spec == Init /\ [][Next]_vars

-------------------------------------------------------------------------------
(* Properties *)

SessionTypeOK ==
  /\ remote \in [Connections -> Mapping]
  /\ cred \in Connections \cup {None}
  /\ form \in BOOLEAN /\ ready \in BOOLEAN /\ needsQuery \in BOOLEAN /\ erred \in BOOLEAN
  /\ view \in {"overview", "settings"}
  /\ config \in Mapping
  /\ live \subseteq Accounts
  /\ preview \in Some(Types)
  /\ results \in Some(Result)
  /\ query \in Queries /\ manual \in Manuals
  /\ load.stage \in {"idle", "get", "apply", "read"}
  /\ load.retained \in Some(Result) /\ load.retainedAccounts \in Some(Types)
  /\ load.found \in Records \cup {None}
  /\ load.mapping \in Mapping \cup {None} /\ load.failing \subseteq Accounts
  /\ load.accounts \in Some(Types)
  /\ digests \subseteq Digests
  /\ snapshot \in Records \cup {None}
  /\ overtaken \in {"no", "reconnect", "save"}
  /\ DOMAIN used = {"load", "fault", "change", "query"}

\* Results that were fetched over one connection are never in view, or kept for
\* later, in the name of another: not those of a query or a load under way when
\* the user connects elsewhere, not the answer for a key typed in, not those of
\* the session's snapshot.
ResultsAreOfTheirConnection ==
  /\ cred # None => \A a \in DOMAIN results : results[a].of = cred
  /\ manual # NoManual => manual.of = cred
  /\ snapshot # None => \A a \in DOMAIN snapshot.results : snapshot.results[a].of = snapshot.scope

\* Once the page is loaded, a balance in view is one of the kind that the
\* account is mapped to, whatever was retained, previewed or in flight when
\* the mapping changed, and whichever loads and queries failed.  Not so only
\* after a load whose digests were overtaken, until the next answer or load: by
\* a save that changed the mapping, or by a reconnect (dashboard.go:4334), and
\* then the page is asking again, or says that the last load or query failed.
ResultsFollowMapping ==
  ready /\ load = NoLoad =>
    \/ \A a \in DOMAIN results \cap live : config[a] = results[a].type
    \/ overtaken = "reconnect" /\ (Querying \/ erred)
    \/ overtaken = "save"

\* README.md:42, a refresh that fails does not replace results in view: no
\* answer takes away a success of an account that is queried the same way, or
\* of one whose source could not be read, also while a load waits for its
\* digests.  Not so only for a query that began then and is answered when the
\* load has put other results in view (restored).
SuccessesSurviveQueries ==
  [][/\ Querying /\ query' = NoQuery /\ results' # results /\ load' = load /\ config' = config
     /\ ~query.restored
     => \A a \in Match(results, Over(query.accounts, preview)) :
          results[a].ok => a \in DOMAIN results' /\ results'[a].ok]_vars

\* No account is forgotten: with the page loaded, the overview in view and
\* nothing under way, every account has a result, or a query is owed, or the
\* page says that the last query or load came to nothing.  Not so only after a
\* load whose digests were overtaken by a whole save, until the next answer or
\* load.
NothingForgotten ==
  ~form /\ ready /\ load = NoLoad /\ ~Querying /\ ~needsQuery /\ ~erred /\ overtaken # "save" =>
    DOMAIN Built(config, live) \subseteq DOMAIN results
===============================================================================
