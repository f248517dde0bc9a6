------------------------- MODULE DashboardSessionProofs -------------------------
(***************************************************************************)
(* Proofs that a dashboard page shows results of its connection and of its *)
(* mapping only, and forgets no account, for any number of connections,    *)
(* accounts and query types, and any order of requests and digests.        *)
(***************************************************************************)
EXTENDS DashboardSession, TLAPS

-------------------------------------------------------------------------------
(* The inductive invariant *)

Loads == [stage : {"idle", "get", "apply", "read"}, retained : Some(Result),
          retainedAccounts : Some(Types), found : Records \cup {None},
          mapping : Mapping \cup {None}, failing : SUBSET Accounts, accounts : Some(Types)]

\* The results rs were fetched over connection c.
FetchedOver(rs, c) == \A a \in DOMAIN rs : rs[a].of = c

\* A record has a result for each of its accounts, of its type, all fetched
\* over the connection that it is filed under.
RecordMeans(r) ==
  /\ DOMAIN r.results = DOMAIN r.accounts
  /\ \A a \in DOMAIN r.results : r.results[a].type = r.accounts[a]
  /\ FetchedOver(r.results, r.scope)

\* A digest is of the load under way, but for those of records to be written.
DigestMeans(d) ==
  /\ d.record # None => RecordMeans(d.record)
  /\ d.kind \in {"preview", "persist"} => d.record \in Records /\ RecordMeans(d.record)
  /\ d.kind = "preview" => load.stage = "get" /\ d.of = cred
  /\ d.kind = "read" => load.stage = "read" /\ (cred # None => d.of = cred)

\* There is one digest for a load to end with.
OneReads == \A d, e \in digests : d.kind = "read" /\ e.kind = "read" => d = e

\* While a load has no data in view there is no query, and none is owed.  Then
\* its accounts are those in view, unless a save overtakes it; one that finds
\* the key refused leads to the connection form, and the load back from it.
LoadMeans ==
  /\ load.stage = "idle" => load = NoLoad
  /\ load.stage \in {"get", "apply"} => cred # None /\ ~form /\ ~Querying /\ ~needsQuery /\ ~ready
  /\ load.stage = "apply" => load.mapping \in Mapping
  /\ load.stage = "read" =>
       /\ form <=> cred = None
       /\ overtaken # "reconnect"
       /\ overtaken # "save" => load.accounts = Built(config, live)
  /\ load.stage # "idle" /\ cred # None => FetchedOver(load.retained, cred)
  /\ ~form /\ cred = None => overtaken # "reconnect"

\* A query is for the accounts in view, and began with the results in view,
\* unless a load has restored others.
QueryMeans ==
  Querying =>
    /\ query.accounts = Built(config, live) /\ query.accounts # Nothing
    /\ ~query.restored => query.previous = results
    /\ query.of # None => /\ query.of \in Connections /\ (cred # None => query.of = cred)
                          /\ FetchedOver(query.previous, query.of)

\* Until a load replaces the configuration in view, and if nothing overtook the
\* last one that did, each result in view is of an account that can be queried,
\* or of one whose source could not be read.
Accounted ==
  /\ DOMAIN preview \cap live = {}
  /\ load.stage # "read" /\ overtaken = "no" =>
       \A a \in DOMAIN results :
         \/ a \in live /\ config[a] = results[a].type
         \/ a \in DOMAIN preview /\ preview[a] = results[a].type

SessionInv ==
  /\ SessionTypeOK /\ load \in Loads
  /\ ResultsAreOfTheirConnection
  /\ snapshot # None => RecordMeans(snapshot)
  /\ \A d \in digests : DigestMeans(d)
  /\ OneReads
  /\ LoadMeans
  /\ QueryMeans
  /\ Accounted
  /\ ResultsFollowMapping
  /\ NothingForgotten

-------------------------------------------------------------------------------
(* Partial functions *)

\* None is neither a query type nor a connection.
LEMMA NoneApart ==
  /\ None \notin Types /\ None \notin Connections
BY SessionAssumption

\* Some(S): functions on some of the accounts.
LEMMA SomeByValue ==
  ASSUME NEW S, NEW f, f = [a \in DOMAIN f |-> f[a]], DOMAIN f \subseteq Accounts,
         \A a \in DOMAIN f : f[a] \in S
  PROVE  f \in Some(S)
<1>1. f \in [DOMAIN f -> S]
  OBVIOUS
<1> QED
  BY <1>1 DEF Some

\* What a function of Some(S) is.
LEMMA ValuesOfSome ==
  ASSUME NEW S, NEW f \in Some(S)
  PROVE  /\ f = [a \in DOMAIN f |-> f[a]] /\ DOMAIN f \subseteq Accounts
         /\ \A a \in DOMAIN f : f[a] \in S
<1>1. PICK A \in SUBSET Accounts : f \in [A -> S]
  BY DEF Some
<1> QED
  BY <1>1

\* Nothing is a function on no account.
LEMMA NothingProperties ==
  /\ DOMAIN Nothing = {}
  /\ \A S : Nothing \in Some(S)
<1>1. DOMAIN Nothing = {} /\ Nothing = [a \in DOMAIN Nothing |-> Nothing[a]]
  BY DEF Nothing
<1>2. ASSUME NEW S
      PROVE  Nothing \in Some(S)
  <2> HIDE DEF Nothing
  <2> QED
    BY <1>1, SomeByValue
<1> QED
  BY <1>1, <1>2

\* There is one function on no account.
LEMMA OnlyNothingIsEmpty ==
  ASSUME NEW S, NEW f \in Some(S), DOMAIN f = {}
  PROVE  f = Nothing
<1>1. f = [a \in {} |-> f[a]]
  BY ValuesOfSome
<1>2. [a \in {} |-> f[a]] = [a \in {} |-> None]
  OBVIOUS
<1> QED
  BY <1>1, <1>2 DEF Nothing

\* What buildAccounts returns.
LEMMA BuiltProperties ==
  ASSUME NEW m \in Mapping, NEW L \in SUBSET Accounts
  PROVE  /\ Built(m, L) \in Some(Types)
         /\ DOMAIN Built(m, L) = {a \in L : m[a] # None}
         /\ \A a \in DOMAIN Built(m, L) : Built(m, L)[a] = m[a]
<1> DEFINE f == Built(m, L)
<1>1. DOMAIN f = {a \in L : m[a] # None} /\ (\A a \in DOMAIN f : f[a] = m[a])
      /\ f = [a \in DOMAIN f |-> f[a]]
  BY DEF Built
<1>2. DOMAIN f \subseteq Accounts /\ \A a \in DOMAIN f : f[a] \in Types
  BY <1>1 DEF Mapping
<1> HIDE DEF f
<1>3. f \in Some(Types)
  BY <1>1, <1>2, SomeByValue
<1> QED
  BY <1>1, <1>3 DEF f

\* Two mappings that agree on the accounts in view are built alike.
LEMMA BuiltAlike ==
  ASSUME NEW m, NEW n, NEW L, \A a \in L : m[a] = n[a]
  PROVE  Built(m, L) = Built(n, L)
<1>1. {x \in L : m[x] # None} = {x \in L : n[x] # None}
  OBVIOUS
<1> QED
  BY <1>1 DEF Built

\* Restricting a function keeps its values.
LEMMA RestrictValuesKept ==
  ASSUME NEW f, NEW A
  PROVE  /\ DOMAIN Restrict(f, A) = A
         /\ \A a \in A : Restrict(f, A)[a] = f[a]
BY DEF Restrict

\* A function on some accounts, restricted to fewer, is one.
LEMMA RestrictTyped ==
  ASSUME NEW S, NEW f \in Some(S), NEW A, A \subseteq DOMAIN f
  PROVE  Restrict(f, A) \in Some(S)
<1> DEFINE g == Restrict(f, A)
<1>1. g = [a \in DOMAIN g |-> g[a]]
  BY DEF Restrict
<1>2. DOMAIN g \subseteq Accounts /\ \A a \in DOMAIN g : g[a] \in S
  BY ValuesOfSome, RestrictValuesKept
<1> HIDE DEF g
<1>3. g \in Some(S)
  BY <1>1, <1>2, SomeByValue
<1> QED
  BY <1>3 DEF g

\* Where both have a value, the first one counts.
LEMMA OverValues ==
  ASSUME NEW f, NEW g
  PROVE  /\ DOMAIN Over(f, g) = DOMAIN f \cup DOMAIN g
         /\ \A a \in DOMAIN f : Over(f, g)[a] = f[a]
         /\ \A a \in DOMAIN g \ DOMAIN f : Over(f, g)[a] = g[a]
BY DEF Over

\* Two functions on some accounts, one over the other, are one.
LEMMA OverTyped ==
  ASSUME NEW S, NEW f \in Some(S), NEW g \in Some(S)
  PROVE  Over(f, g) \in Some(S)
<1> DEFINE h == Over(f, g)
<1>1. h = [a \in DOMAIN h |-> h[a]]
  BY DEF Over
<1>2. DOMAIN h \subseteq Accounts /\ \A a \in DOMAIN h : h[a] \in S
  <2>1. /\ DOMAIN f \subseteq Accounts /\ DOMAIN g \subseteq Accounts
        /\ \A a \in DOMAIN f : f[a] \in S
        /\ \A a \in DOMAIN g : g[a] \in S
    BY ValuesOfSome
  <2>2. DOMAIN h = DOMAIN f \cup DOMAIN g
    BY DEF Over
  <2>3. \A a \in DOMAIN f \cup DOMAIN g : h[a] \in S
    BY <2>1 DEF Over
  <2> QED
    BY <2>1, <2>2, <2>3
<1> HIDE DEF h
<1>3. h \in Some(S)
  BY <1>1, <1>2, SomeByValue
<1> QED
  BY <1>3 DEF h

\* resultMatchesAccount: a match is a result of the type that the account has.
LEMMA MatchProperties ==
  ASSUME NEW rs, NEW accs
  PROVE  /\ Match(rs, accs) \subseteq DOMAIN rs /\ Match(rs, accs) \subseteq DOMAIN accs
         /\ \A a \in Match(rs, accs) : rs[a].type = accs[a]
         /\ \A a \in DOMAIN rs \cap DOMAIN accs : rs[a].type = accs[a] => a \in Match(rs, accs)
BY DEF Match

\* appendUnavailablePreviewResults: w is the results rs, and the previous ones
\* of accounts whose source could not be read.
KeepsEarlier(w, rs, previous, accs, unavailable) ==
  /\ w \in Some(Result) /\ DOMAIN rs \subseteq DOMAIN w
  /\ \A a \in DOMAIN rs : w[a] = rs[a]
  /\ \A a \in DOMAIN w \ DOMAIN rs :
       /\ a \in DOMAIN previous /\ w[a] = previous[a]
       /\ a \in DOMAIN unavailable /\ unavailable[a] = previous[a].type
  /\ \A a \in (DOMAIN previous \cap DOMAIN unavailable) \ DOMAIN accs :
       unavailable[a] = previous[a].type => a \in DOMAIN w

\* What appendUnavailablePreviewResults returns.
LEMMA UnavailableProperties ==
  ASSUME NEW rs \in Some(Result), NEW previous \in Some(Result), NEW accs, NEW unavailable
  PROVE  KeepsEarlier(WithUnavailable(rs, previous, accs, unavailable), rs, previous, accs, unavailable)
<1>0. PICK w : w = WithUnavailable(rs, previous, accs, unavailable)
  OBVIOUS
<1>1. PICK A : A = Match(previous, unavailable) \ Match(previous, accs)
  OBVIOUS
<1>2. /\ A \subseteq DOMAIN previous
      /\ \A a \in A : a \in DOMAIN unavailable /\ unavailable[a] = previous[a].type
      /\ \A a \in (DOMAIN previous \cap DOMAIN unavailable) \ DOMAIN accs :
           unavailable[a] = previous[a].type => a \in A
  BY <1>1 DEF Match
<1>3. PICK g \in Some(Result) : g = Restrict(previous, A)
  BY <1>2, RestrictTyped, RestrictValuesKept
<1>4. DOMAIN g = A /\ \A a \in A : g[a] = previous[a]
  BY <1>2, <1>3, RestrictTyped, RestrictValuesKept
<1>5. w = Over(rs, g)
  BY <1>0, <1>1, <1>3 DEF WithUnavailable
<1>6. /\ Over(rs, g) \in Some(Result)
      /\ DOMAIN Over(rs, g) = DOMAIN rs \cup DOMAIN g
      /\ \A a \in DOMAIN rs : Over(rs, g)[a] = rs[a]
      /\ \A a \in DOMAIN g \ DOMAIN rs : Over(rs, g)[a] = g[a]
  BY OverTyped, OverValues
<1>7. KeepsEarlier(w, rs, previous, accs, unavailable)
  BY <1>2, <1>4, <1>5, <1>6 DEF KeepsEarlier
<1> QED
  BY <1>0, <1>7

\* mergeQueryResults: an answer for each account, or the success it had.
LEMMA MergedProperties ==
  ASSUME NEW answer \in Some(Result), NEW previous \in Some(Result)
  PROVE  /\ Merged(answer, previous) \in Some(Result)
         /\ DOMAIN Merged(answer, previous) = DOMAIN answer
         /\ \A a \in DOMAIN answer :
              /\ Merged(answer, previous)[a].type = answer[a].type
              /\ \/ Merged(answer, previous)[a] = answer[a]
                 \/ a \in DOMAIN previous /\ Merged(answer, previous)[a] = previous[a]
              /\ a \in DOMAIN previous /\ previous[a].ok /\ previous[a].type = answer[a].type
                 => Merged(answer, previous)[a].ok
<1> DEFINE types == [x \in DOMAIN answer |-> answer[x].type]
           m == Merged(answer, previous)
<1>1. \A a \in Match(previous, types) :
        a \in DOMAIN previous /\ a \in DOMAIN answer /\ previous[a].type = answer[a].type
  BY DEF Match
<1>2. \A a \in DOMAIN answer :
        a \in DOMAIN previous /\ previous[a].type = answer[a].type => a \in Match(previous, types)
  BY DEF Match
<1>3. /\ m = [a \in DOMAIN m |-> m[a]] /\ DOMAIN m = DOMAIN answer
      /\ \A a \in DOMAIN answer :
           m[a] = IF ~answer[a].ok /\ a \in Match(previous, types) /\ previous[a].ok
                  THEN previous[a] ELSE answer[a]
  BY DEF Merged
<1> HIDE DEF m, types
<1>4. DOMAIN m \subseteq Accounts /\ \A a \in DOMAIN m : m[a] \in Result
  BY <1>1, <1>3, ValuesOfSome
<1>5. m \in Some(Result)
  BY <1>3, <1>4, SomeByValue
<1>6. ASSUME NEW a \in DOMAIN answer
      PROVE  /\ m[a].type = answer[a].type
             /\ m[a] = answer[a] \/ (a \in DOMAIN previous /\ m[a] = previous[a])
             /\ a \in DOMAIN previous /\ previous[a].ok /\ previous[a].type = answer[a].type => m[a].ok
  <2>1. m[a] = IF ~answer[a].ok /\ a \in Match(previous, types) /\ previous[a].ok
               THEN previous[a] ELSE answer[a]
    BY <1>3
  <2>2. answer[a].ok \in BOOLEAN
    <3>1. answer[a] \in Result
      BY ValuesOfSome
    <3> QED
      BY <3>1 DEF Result
  <2>3. CASE ~answer[a].ok /\ a \in Match(previous, types) /\ previous[a].ok
    BY <1>1, <2>1, <2>3
  <2>4. CASE ~(~answer[a].ok /\ a \in Match(previous, types) /\ previous[a].ok)
    <3>1. m[a] = answer[a]
      BY <2>1, <2>4
    <3>2. a \in DOMAIN previous /\ previous[a].ok /\ previous[a].type = answer[a].type => answer[a].ok
      BY <1>2, <2>4
    <3> QED
      BY <3>1, <3>2
  <2> QED
    BY <2>3, <2>4
<1> QED
  BY <1>3, <1>5, <1>6 DEF m

-------------------------------------------------------------------------------
(* Loads, digests and records *)

\* No load under way is a value of load.
LEMMA NoLoadTyped ==
  /\ NoLoad \in Loads /\ NoLoad.stage = "idle"
  /\ NoLoad.retained = Nothing
BY NothingProperties DEF NoLoad, Loads

\* A load begins with nothing retained.
LEMMA FreshLoad ==
  [NoLoad EXCEPT !.stage = "get"]
    = [NoLoad EXCEPT !.stage = "get", !.retained = Nothing, !.retainedAccounts = Nothing]
<1>1. ASSUME NEW l \in Loads, NEW m \in Loads,
             l.stage = m.stage, l.retained = m.retained, l.retainedAccounts = m.retainedAccounts,
             l.found = m.found, l.mapping = m.mapping, l.failing = m.failing,
             l.accounts = m.accounts
      PROVE  l = m
  BY <1>1 DEF Loads
<1>2. NoLoad \in Loads /\ NoLoad.retained = Nothing /\ NoLoad.retainedAccounts = Nothing
  BY NoLoadTyped DEF NoLoad
<1>3. PICK o \in Loads : o = NoLoad
  BY <1>2
<1>4. PICK l : l = [o EXCEPT !.stage = "get"]
  OBVIOUS
<1>5. PICK m : m = [o EXCEPT !.stage = "get", !.retained = Nothing, !.retainedAccounts = Nothing]
  OBVIOUS
<1>6. /\ l \in Loads /\ l.stage = "get" /\ l.retained = o.retained
      /\ l.retainedAccounts = o.retainedAccounts /\ l.found = o.found
      /\ l.mapping = o.mapping /\ l.failing = o.failing /\ l.accounts = o.accounts
  BY <1>4 DEF Loads
<1>7. /\ m \in Loads /\ m.stage = "get" /\ m.retained = Nothing
      /\ m.retainedAccounts = Nothing /\ m.found = o.found
      /\ m.mapping = o.mapping /\ m.failing = o.failing /\ m.accounts = o.accounts
  BY <1>5, NothingProperties DEF Loads
<1>8. l = m
  BY <1>1, <1>2, <1>3, <1>6, <1>7
<1> QED
  BY <1>3, <1>4, <1>5, <1>8

\* No query under way asks for nothing.
LEMMA NoQueryTyped ==
  /\ NoQuery.accounts = Nothing /\ NoQuery.previous = Nothing /\ NoQuery.of = None
  /\ NoQuery.restored = FALSE /\ NoQuery \in Queries
BY NothingProperties DEF NoQuery, Queries

\* No manual query is a value of manual.
LEMMA NoManualTyped == NoManual \in Manuals
BY DEF NoManual, Manuals

\* No results are results of any connection.
LEMMA NothingFetched == \A c : FetchedOver(Nothing, c)
BY NothingProperties DEF FetchedOver

\* What is still being computed when a new generation begins is of another kind.
LEMMA NewGenerationProperties ==
  ASSUME SessionInv, NEW kinds, NEW e \in NewGeneration(kinds)
  PROVE  e \in digests /\ e \in Digests /\ e.kind \notin kinds /\ DigestMeans(e)
BY DEF NewGeneration, SessionInv, SessionTypeOK

\* The parts that a load beginning over connection c settles.
LEMMA LoadBegins ==
  ASSUME SessionInv, NEW c \in Connections, NEW rs \in Some(Result), NEW accs \in Some(Types),
         FetchedOver(rs, c), cred' = c,
         load' = [NoLoad EXCEPT !.stage = "get", !.retained = rs, !.retainedAccounts = accs],
         query' = NoQuery, manual' = NoManual, needsQuery' = FALSE,
         form' = FALSE, ready' = FALSE, snapshot' = snapshot,
         \A d \in digests' : \/ d \in NewGeneration({"preview", "read", "persist"})
                             \/ /\ snapshot # None
                                /\ d = [kind |-> "preview", of |-> c, record |-> snapshot]
  PROVE  /\ load' \in Loads /\ digests' \subseteq Digests
         /\ \A d \in digests' : DigestMeans(d)'
         /\ OneReads' /\ LoadMeans' /\ QueryMeans' /\ ResultsFollowMapping' /\ NothingForgotten'
         /\ (snapshot # None => RecordMeans(snapshot))'
<1>1. load' \in Loads /\ load'.stage = "get" /\ load'.retained = rs
  BY NoLoadTyped, NothingProperties DEF NoLoad, Loads
<1>2. load' # NoLoad
  BY <1>1, NoLoadTyped
<1>3. ASSUME NEW d \in digests'
      PROVE  /\ d \in Digests /\ d.kind = "preview" /\ d.of = c
             /\ d.record \in Records /\ RecordMeans(d.record)
  <2>1. d \notin NewGeneration({"preview", "read", "persist"})
    BY NewGenerationProperties DEF Digests
  <2>2. snapshot # None /\ d = [kind |-> "preview", of |-> c, record |-> snapshot]
    BY <1>3, <2>1
  <2>3. snapshot \in Records /\ RecordMeans(snapshot)
    BY <2>2 DEF SessionInv, SessionTypeOK
  <2> QED
    BY <2>2, <2>3 DEF Digests
<1>4. \A d \in digests' : DigestMeans(d)'
  BY <1>1, <1>3 DEF DigestMeans, RecordMeans, FetchedOver
<1>5. OneReads'
  BY <1>3 DEF OneReads
<1>6. LoadMeans'
  BY <1>1, NoneApart DEF LoadMeans, Querying, FetchedOver
<1>7. QueryMeans' /\ ResultsFollowMapping' /\ NothingForgotten'
  BY <1>2 DEF QueryMeans, Querying, ResultsFollowMapping, NothingForgotten
<1>8. (snapshot # None => RecordMeans(snapshot))'
  BY DEF SessionInv, RecordMeans, FetchedOver
<1> QED
  BY <1>1, <1>3, <1>4, <1>5, <1>6, <1>7, <1>8

\* displayAccounts returns accounts with their types.
LEMMA DisplayedTyped ==
  ASSUME SessionTypeOK
  PROVE  Displayed \in Some(Types) /\ Built(config, live) \in Some(Types)
<1>1. Built(config, live) \in Some(Types)
  BY BuiltProperties DEF SessionTypeOK
<1>2. Match(results, preview) \subseteq DOMAIN preview
  BY MatchProperties
<1>3. Restrict(preview, Match(results, preview)) \in Some(Types)
  BY <1>2, RestrictTyped DEF SessionTypeOK
<1>4. Over(Built(config, live), Restrict(preview, Match(results, preview))) \in Some(Types)
  BY <1>1, <1>3, OverTyped
<1> QED
  BY <1>1, <1>4 DEF Displayed, SessionTypeOK

\* The invariant of the snapshot only depends on it.
LEMMA SnapshotStands ==
  ASSUME SessionInv, snapshot' = snapshot
  PROVE  (snapshot # None => RecordMeans(snapshot))'
BY DEF SessionInv, RecordMeans, FetchedOver

-------------------------------------------------------------------------------
(* Connecting and opening *)

\* Connecting to another CPA takes the results of the earlier one out of view.
LEMMA ConnectKeeps ==
  ASSUME SessionInv, NEW c \in Connections, Connect(c)
  PROVE  SessionInv'
<1>1. SessionTypeOK /\ LoadMeans /\ Accounted /\ ResultsAreOfTheirConnection
  BY DEF SessionInv
<1>2. /\ cred' = c /\ form /\ c # None /\ UNCHANGED <<remote, view, config, live, snapshot, overtaken>>
      /\ load.stage = "read" => c # cred
  BY <1>1, NoneApart DEF Connect, LoadMeans
<1>3. PICK rs, accs : /\ StartLoad(c, rs, accs)
                      /\ \/ c = cred /\ rs = results /\ accs = Displayed /\ UNCHANGED <<results, preview>>
                         \/ /\ c # cred /\ rs = Nothing /\ accs = Built(config, live)
                            /\ results' = Nothing /\ preview' = Nothing
  BY DEF Connect
<1>4. rs \in Some(Result) /\ accs \in Some(Types) /\ FetchedOver(rs, c)
  BY <1>1, <1>2, <1>3, DisplayedTyped, NothingProperties, NothingFetched
     DEF SessionTypeOK, ResultsAreOfTheirConnection, FetchedOver
<1>5. \A d \in digests' : \/ d \in NewGeneration({"preview", "read", "persist"})
                          \/ /\ snapshot # None
                             /\ d = [kind |-> "preview", of |-> c, record |-> snapshot]
  BY <1>3 DEF StartLoad
<1>6. /\ load' = [NoLoad EXCEPT !.stage = "get", !.retained = rs, !.retainedAccounts = accs]
      /\ query' = NoQuery /\ manual' = NoManual /\ needsQuery' = FALSE
      /\ form' = FALSE /\ ready' = FALSE /\ erred' = FALSE
      /\ DOMAIN used' = DOMAIN used
  BY <1>3 DEF StartLoad, ResetManual, Spend
<1>7. /\ load' \in Loads /\ digests' \subseteq Digests
      /\ \A d \in digests' : DigestMeans(d)'
      /\ OneReads' /\ LoadMeans' /\ QueryMeans' /\ ResultsFollowMapping' /\ NothingForgotten'
      /\ (snapshot # None => RecordMeans(snapshot))'
  BY <1>2, <1>4, <1>5, <1>6, LoadBegins
<1>8. /\ results' \in Some(Result) /\ preview' \in Some(Types) /\ FetchedOver(results', c)
  BY <1>1, <1>3, <1>4, NothingProperties, NothingFetched DEF SessionTypeOK
<1>9. SessionTypeOK'
  BY <1>1, <1>2, <1>6, <1>7, <1>8, NoQueryTyped, NoManualTyped DEF SessionTypeOK, Loads
<1>10. ResultsAreOfTheirConnection'
  BY <1>1, <1>2, <1>6, <1>8 DEF ResultsAreOfTheirConnection, FetchedOver
<1>11. Accounted'
  BY <1>1, <1>2, <1>3, NothingProperties DEF Accounted
<1> QED
  BY <1>7, <1>9, <1>10, <1>11 DEF SessionInv

\* Reconnecting keeps the results in view, which are of the connection.
LEMMA ReconnectKeeps ==
  ASSUME SessionInv, Reconnect
  PROVE  SessionInv'
<1>1. /\ SessionTypeOK /\ LoadMeans /\ Accounted /\ ResultsAreOfTheirConnection /\ QueryMeans
      /\ ResultsFollowMapping
  BY DEF SessionInv
<1>2. /\ UNCHANGED <<remote, cred, view, config, live, preview, results, snapshot>> /\ ~form
      /\ overtaken' = IF load.stage = "read" THEN "reconnect" ELSE overtaken
  BY DEF Reconnect, data
<1>3. Accounted' /\ overtaken' \in {"no", "reconnect", "save"}
  BY <1>1, <1>2 DEF Accounted, SessionTypeOK
<1>4. CASE cred # None
  <2>1. StartLoad(cred, results, Displayed) /\ cred \in Connections
    BY <1>1, <1>4 DEF Reconnect, SessionTypeOK
  <2>2. results \in Some(Result) /\ Displayed \in Some(Types) /\ FetchedOver(results, cred)
    BY <1>1, <1>4, DisplayedTyped DEF SessionTypeOK, ResultsAreOfTheirConnection, FetchedOver
  <2>3. \A d \in digests' : \/ d \in NewGeneration({"preview", "read", "persist"})
                            \/ /\ snapshot # None
                               /\ d = [kind |-> "preview", of |-> cred, record |-> snapshot]
    BY <2>1 DEF StartLoad
  <2>4. /\ load' = [NoLoad EXCEPT !.stage = "get", !.retained = results, !.retainedAccounts = Displayed]
        /\ query' = NoQuery /\ manual' = NoManual /\ needsQuery' = FALSE
        /\ form' = FALSE /\ ready' = FALSE /\ erred' = FALSE
        /\ DOMAIN used' = DOMAIN used
    BY <2>1 DEF StartLoad, ResetManual, Spend
  <2>5. /\ load' \in Loads /\ digests' \subseteq Digests
        /\ \A d \in digests' : DigestMeans(d)'
        /\ OneReads' /\ LoadMeans' /\ QueryMeans' /\ ResultsFollowMapping' /\ NothingForgotten'
        /\ (snapshot # None => RecordMeans(snapshot))'
    <3>1. PICK c \in Connections, rs \in Some(Result), accs \in Some(Types) :
            c = cred /\ rs = results /\ accs = Displayed
      BY <2>1, <2>2
    <3> QED
      BY <1>2, <2>2, <2>3, <2>4, <3>1, LoadBegins
  <2>6. SessionTypeOK'
    BY <1>1, <1>2, <1>3, <2>4, <2>5, NoQueryTyped, NoManualTyped DEF SessionTypeOK, Loads
  <2>7. ResultsAreOfTheirConnection'
    BY <1>1, <1>2, <2>4 DEF ResultsAreOfTheirConnection
  <2> QED
    BY <1>3, <2>5, <2>6, <2>7 DEF SessionInv
<1>5. CASE cred = None
  <2>1. load.stage = "idle" /\ overtaken # "reconnect" /\ overtaken' = overtaken
    BY <1>1, <1>2, <1>5 DEF LoadMeans, SessionTypeOK
  <2>2. /\ form' = TRUE /\ query' = NoQuery /\ load' = NoLoad /\ needsQuery' = FALSE
        /\ manual' = NoManual /\ UNCHANGED <<ready, erred, used>>
        /\ digests' = NewGeneration({"preview", "read", "persist"})
    BY <1>5 DEF Reconnect, ResetManual
  <2>3. digests' = {}
    BY <2>2, NewGenerationProperties DEF Digests
  <2>4. SessionTypeOK' /\ load' \in Loads
    BY <1>1, <1>2, <1>3, <2>2, <2>3, NoQueryTyped, NoManualTyped, NoLoadTyped DEF SessionTypeOK, Loads
  <2>5. ResultsAreOfTheirConnection' /\ OneReads' /\ QueryMeans' /\ NothingForgotten'
    BY <1>1, <1>2, <2>2, <2>3
       DEF ResultsAreOfTheirConnection, OneReads, QueryMeans, Querying, NothingForgotten
  <2>6. LoadMeans'
    BY <1>2, <2>2, NoLoadTyped DEF LoadMeans
  <2>7. ResultsFollowMapping'
    BY <1>1, <1>2, <2>1, <2>2, NoLoadTyped DEF ResultsFollowMapping, LoadMeans
  <2> QED
    BY <1>2, <1>3, <2>3, <2>4, <2>5, <2>6, <2>7, SnapshotStands DEF SessionInv
<1> QED
  BY <1>4, <1>5

\* A page opened again shows nothing but what the session may give it.
LEMMA ReopenKeeps ==
  ASSUME SessionInv, NEW c \in Connections \cup {None}, Reopen(c)
  PROVE  SessionInv'
<1>1. SessionTypeOK /\ (snapshot # None => RecordMeans(snapshot)) /\ ResultsAreOfTheirConnection
  BY DEF SessionInv
<1>2. /\ cred' = c /\ config' = [a \in Accounts |-> None] /\ live' = {}
      /\ preview' = Nothing /\ results' = Nothing /\ view' = "overview" /\ needsQuery' = FALSE
      /\ query' = NoQuery /\ manual' = NoManual /\ ready' = FALSE /\ erred' = FALSE
      /\ form' = (c = None) /\ DOMAIN used' = DOMAIN used /\ overtaken' = "no"
      /\ UNCHANGED <<remote, snapshot>>
  BY DEF Reopen, ResetManual, Spend
<1>3. CASE c = None
  <2>1. load' = NoLoad /\ digests' = {} /\ form' = TRUE
    BY <1>2, <1>3 DEF Reopen
  <2>2. config' \in Mapping
    BY <1>2 DEF Mapping
  <2>3. SessionTypeOK' /\ load' \in Loads
    BY <1>1, <1>2, <1>3, <2>1, <2>2, NoQueryTyped, NoManualTyped, NoLoadTyped, NothingProperties
       DEF SessionTypeOK, Loads
  <2>4. ResultsAreOfTheirConnection' /\ (snapshot # None => RecordMeans(snapshot))'
    BY <1>1, <1>2, NothingProperties DEF ResultsAreOfTheirConnection, RecordMeans, FetchedOver
  <2>5. /\ OneReads' /\ LoadMeans' /\ QueryMeans' /\ Accounted' /\ ResultsFollowMapping'
        /\ NothingForgotten'
    BY <1>2, <2>1, NoLoadTyped, NothingProperties
       DEF OneReads, LoadMeans, QueryMeans, Querying, Accounted, ResultsFollowMapping, NothingForgotten
  <2> QED
    BY <2>1, <2>3, <2>4, <2>5 DEF SessionInv
<1>4. CASE c # None
  <2>1. /\ c \in Connections /\ load' = [NoLoad EXCEPT !.stage = "get"] /\ form' = FALSE
        /\ \A d \in digests' : /\ snapshot # None
                               /\ d = [kind |-> "preview", of |-> c, record |-> snapshot]
    BY <1>2, <1>4 DEF Reopen
  <2>2. load' = [NoLoad EXCEPT !.stage = "get", !.retained = Nothing, !.retainedAccounts = Nothing]
    BY <2>1, FreshLoad
  <2>3. /\ load' \in Loads /\ digests' \subseteq Digests
        /\ \A d \in digests' : DigestMeans(d)'
        /\ OneReads' /\ LoadMeans' /\ QueryMeans' /\ ResultsFollowMapping' /\ NothingForgotten'
        /\ (snapshot # None => RecordMeans(snapshot))'
    <3>1. Nothing \in Some(Result) /\ Nothing \in Some(Types) /\ FetchedOver(Nothing, c)
      BY NothingProperties, NothingFetched
    <3> QED
      BY <1>2, <2>1, <2>2, <3>1, LoadBegins
  <2>4. config' \in Mapping
    BY <1>2 DEF Mapping
  <2>5. SessionTypeOK'
    BY <1>1, <1>2, <2>1, <2>3, <2>4, NoQueryTyped, NoManualTyped, NothingProperties
       DEF SessionTypeOK, Loads
  <2>6. ResultsAreOfTheirConnection'
    BY <1>1, <1>2, NothingProperties DEF ResultsAreOfTheirConnection
  <2>7. Accounted'
    BY <1>2, NothingProperties DEF Accounted
  <2> QED
    BY <2>3, <2>5, <2>6, <2>7 DEF SessionInv
<1> QED
  BY <1>3, <1>4

-------------------------------------------------------------------------------
(* The course of a load *)

\* Digests that are done with leave the others as they are.
LEMMA DigestsLeft ==
  ASSUME SessionInv, digests' \subseteq digests, load'.stage = load.stage,
         load.stage # "idle" => cred' = cred \/ (load.stage = "read" /\ cred' = None)
  PROVE  /\ digests' \subseteq Digests
         /\ \A d \in digests' : DigestMeans(d)'
         /\ OneReads'
<1>1. digests \subseteq Digests /\ (\A d \in digests : DigestMeans(d)) /\ OneReads
      /\ load.stage \in {"idle", "get", "apply", "read"}
  BY DEF SessionInv, SessionTypeOK
<1>2. \A d \in digests' : DigestMeans(d)'
  BY <1>1 DEF DigestMeans, RecordMeans, FetchedOver
<1>3. OneReads'
  BY <1>1 DEF OneReads
<1> QED
  BY <1>1, <1>2, <1>3

\* The session's record comes into view only over its own connection.
LEMMA PreviewArrivesKeeps ==
  ASSUME SessionInv, NEW d \in digests, PreviewArrives(d)
  PROVE  SessionInv'
<1>1. /\ SessionTypeOK /\ load \in Loads /\ LoadMeans /\ Accounted /\ ResultsAreOfTheirConnection
      /\ QueryMeans /\ ResultsFollowMapping /\ NothingForgotten /\ DigestMeans(d) /\ d \in Digests
  BY DEF SessionInv, SessionTypeOK
<1>2. /\ d.kind = "preview" /\ digests' = digests \ {d}
      /\ UNCHANGED <<remote, cred, form, view, ready, needsQuery, query, manual, snapshot, erred,
                     overtaken, used>>
  BY DEF PreviewArrives, shown
<1>3. (snapshot # None => RecordMeans(snapshot))'
  BY <1>2, SnapshotStands
<1>4. ASSUME load'.stage = load.stage
      PROVE  /\ digests' \subseteq Digests
             /\ \A e \in digests' : DigestMeans(e)'
             /\ OneReads'
  <2>1. digests' \subseteq digests /\ cred' = cred
    BY <1>2
  <2> QED
    BY <1>4, <2>1, DigestsLeft
<1>5. CASE UNCHANGED <<load, data>>
  <2>1. SessionTypeOK'
    BY <1>1, <1>2, <1>4, <1>5 DEF SessionTypeOK, data
  <2>2. load' \in Loads /\ LoadMeans' /\ QueryMeans' /\ Accounted' /\ NothingForgotten'
        /\ ResultsAreOfTheirConnection' /\ ResultsFollowMapping'
    BY <1>1, <1>2, <1>5 DEF LoadMeans, QueryMeans, Accounted, NothingForgotten, ResultsAreOfTheirConnection,
                            ResultsFollowMapping, Querying, FetchedOver, data
  <2> QED
    BY <1>3, <1>4, <1>5, <2>1, <2>2 DEF SessionInv
<1>6. CASE SameScope(d) /\ ~UNCHANGED <<load, data>>
  <2> DEFINE r == d.record
  <2>1. /\ r \in Records /\ RecordMeans(r) /\ r.scope = cred /\ load.stage = "get"
    BY <1>1, <1>2, <1>6 DEF DigestMeans, Digests, SameScope
  <2>2. load' = [load EXCEPT !.found = r]
    BY <1>6 DEF PreviewArrives
  <2>3. /\ \/ UNCHANGED data
           \/ live' = {} /\ config' = r.mapping /\ preview' = r.accounts /\ results' = r.results
    BY <1>6 DEF PreviewArrives
  <2> HIDE DEF r
  <2>4. /\ r.accounts \in Some(Types) /\ r.results \in Some(Result) /\ r.mapping \in Mapping
    BY <2>1 DEF Records
  <2>5. /\ load' \in Loads /\ load'.stage = "get" /\ load'.retained = load.retained
        /\ load'.retainedAccounts = load.retainedAccounts /\ load'.mapping = load.mapping
        /\ load'.failing = load.failing /\ load'.found = r /\ load'.accounts = load.accounts
    BY <1>1, <2>1, <2>2 DEF Loads
  <2>6. load' # NoLoad
    BY <2>5, NoLoadTyped
  <2>7. /\ config' \in Mapping /\ live' \subseteq Accounts /\ preview' \in Some(Types)
        /\ results' \in Some(Result)
    BY <1>1, <2>3, <2>4 DEF SessionTypeOK, data
  <2>8. SessionTypeOK'
    BY <1>1, <1>2, <1>4, <2>1, <2>5, <2>7 DEF SessionTypeOK, Loads
  <2>9. FetchedOver(results', cred)
    BY <1>1, <2>1, <2>3 DEF RecordMeans, LoadMeans, ResultsAreOfTheirConnection, FetchedOver, data
  <2>10. ResultsAreOfTheirConnection'
    BY <1>1, <1>2, <2>9 DEF ResultsAreOfTheirConnection, FetchedOver
  <2>11. ~Querying /\ cred # None /\ ~form /\ ~needsQuery /\ ~ready /\ FetchedOver(load.retained, cred)
    BY <1>1, <2>1 DEF LoadMeans
  <2>12. LoadMeans'
    BY <1>2, <2>5, <2>11 DEF LoadMeans, Querying, FetchedOver
  <2>13. QueryMeans' /\ ResultsFollowMapping' /\ NothingForgotten'
    BY <1>2, <2>6, <2>11 DEF QueryMeans, Querying, ResultsFollowMapping, NothingForgotten
  <2>14. Accounted'
    <3>1. CASE UNCHANGED data
      <4>1. UNCHANGED <<config, live, preview, results, overtaken>> /\ load'.stage = load.stage
        BY <1>2, <2>1, <2>5, <3>1 DEF data
      <4> QED
        BY <1>1, <4>1 DEF Accounted
    <3>2. CASE live' = {} /\ config' = r.mapping /\ preview' = r.accounts /\ results' = r.results
      BY <2>1, <3>2 DEF Accounted, RecordMeans
    <3> QED
      BY <2>3, <3>1, <3>2
  <2> QED
    BY <1>3, <1>4, <2>1, <2>5, <2>8, <2>10, <2>12, <2>13, <2>14 DEF SessionInv
<1> QED
  BY <1>5, <1>6 DEF PreviewArrives

\* A load that has read the configurations changes nothing in view yet.
LEMMA LoadGetServedKeeps ==
  ASSUME SessionInv, LoadGetServed
  PROVE  SessionInv'
<1>1. /\ SessionTypeOK /\ load \in Loads /\ LoadMeans /\ Accounted /\ ResultsAreOfTheirConnection
      /\ QueryMeans /\ OneReads /\ \A d \in digests : DigestMeans(d)
  BY DEF SessionInv
<1>2. PICK failing \in SUBSET Accounts :
        load' = [load EXCEPT !.stage = "apply", !.mapping = remote[cred], !.failing = failing]
  BY DEF LoadGetServed
<1>3. /\ load.stage = "get" /\ ~PreviewPending /\ DOMAIN used' = DOMAIN used
      /\ UNCHANGED <<remote, cred, form, view, ready, config, live, preview, results, needsQuery, query,
                     manual, digests, snapshot, erred, overtaken>>
  BY DEF LoadGetServed, Spend, shown, data
<1>4. ~Querying /\ cred # None /\ ~form /\ ~needsQuery /\ ~ready /\ FetchedOver(load.retained, cred)
  BY <1>1, <1>3 DEF LoadMeans
<1>5. PICK m \in Mapping : m = remote[cred]
  BY <1>1, <1>4 DEF SessionTypeOK
<1>6. load' = [load EXCEPT !.stage = "apply", !.mapping = m, !.failing = failing]
  BY <1>2, <1>5
<1>7. /\ load' \in Loads /\ load'.stage = "apply" /\ load'.retained = load.retained
      /\ load'.retainedAccounts = load.retainedAccounts /\ load'.mapping = m
      /\ load'.failing = failing /\ load'.found = load.found /\ load'.accounts = load.accounts
  BY <1>1, <1>6 DEF Loads
<1>8. load' # NoLoad
  BY <1>7, NoLoadTyped
<1>9. SessionTypeOK'
  BY <1>1, <1>3, <1>7 DEF SessionTypeOK, Loads
<1>10. \A d \in digests' : DigestMeans(d)'
  BY <1>1, <1>3 DEF DigestMeans, PreviewPending, RecordMeans, FetchedOver
<1>11. OneReads'
  BY <1>1, <1>3 DEF OneReads
<1>12. LoadMeans'
  BY <1>3, <1>4, <1>7 DEF LoadMeans, Querying, FetchedOver
<1>13. QueryMeans' /\ ResultsFollowMapping' /\ NothingForgotten' /\ ResultsAreOfTheirConnection'
  BY <1>1, <1>3, <1>4, <1>8
     DEF QueryMeans, Querying, ResultsFollowMapping, NothingForgotten, ResultsAreOfTheirConnection
<1>14. Accounted'
  BY <1>1, <1>3 DEF Accounted
<1> QED
  BY <1>3, <1>7, <1>9, <1>10, <1>11, <1>12, <1>13, <1>14, SnapshotStands DEF SessionInv

\* A load that is shown keeps the results there are until its digest is done.
LEMMA LoadAppliedKeeps ==
  ASSUME SessionInv, LoadApplied
  PROVE  SessionInv'
<1>1. /\ SessionTypeOK /\ load \in Loads /\ LoadMeans /\ ResultsAreOfTheirConnection
      /\ \A d \in digests : DigestMeans(d)
  BY DEF SessionInv
<1> DEFINE known == IF load.retained = Nothing /\ load.found # None THEN load.found.accounts
                    ELSE load.retainedAccounts
           kept == IF results # Nothing THEN results ELSE load.retained
           accs == Built(load.mapping, Accounts \ load.failing)
           n == [kind |-> "read", of |-> cred, record |-> snapshot]
<1>2. known \in Some(Types) /\ kept \in Some(Result)
  BY <1>1 DEF Loads, Records, SessionTypeOK
<1>3. /\ load.stage = "apply"
      /\ load' = [load EXCEPT !.stage = "read", !.retained = kept, !.accounts = accs]
      /\ config' = load.mapping /\ live' = Accounts \ load.failing
      /\ preview' = Restrict(known, load.failing \cap DOMAIN known)
      /\ needsQuery' = FALSE /\ ready' = TRUE /\ overtaken' = "no" /\ digests' = digests \cup {n}
      /\ UNCHANGED <<remote, cred, form, view, results, query, manual, snapshot, erred, used>>
  BY DEF LoadApplied
<1>4. /\ ~Querying /\ cred # None /\ cred \in Connections /\ ~form /\ load.mapping \in Mapping
      /\ FetchedOver(load.retained, cred) /\ FetchedOver(results, cred)
  BY <1>1, <1>3 DEF LoadMeans, SessionTypeOK, ResultsAreOfTheirConnection, FetchedOver
<1>5. FetchedOver(kept, cred)
  BY <1>4
<1>6. n \in Digests /\ n.kind = "read" /\ n.of = cred /\ n.record = snapshot
  BY <1>1, <1>4 DEF SessionTypeOK, Digests
<1>7. accs \in Some(Types) /\ accs = Built(config', live')
  <2>1. load.mapping \in Mapping /\ Accounts \ load.failing \in SUBSET Accounts
    BY <1>4
  <2> QED
    BY <1>3, <2>1, BuiltProperties
<1> HIDE DEF known, kept, accs, n
<1>8. /\ load' \in Loads /\ load'.stage = "read" /\ load'.retained = kept
      /\ load'.retainedAccounts = load.retainedAccounts /\ load'.mapping = load.mapping
      /\ load'.failing = load.failing /\ load'.found = load.found /\ load'.accounts = accs
  BY <1>1, <1>2, <1>3, <1>7 DEF Loads
<1>9. load' # NoLoad
  BY <1>8, NoLoadTyped
<1>10. preview' \in Some(Types) /\ DOMAIN preview' = load.failing \cap DOMAIN known
  BY <1>2, <1>3, RestrictTyped, RestrictValuesKept
<1>11. SessionTypeOK'
  <2>1. digests' \subseteq Digests
    BY <1>1, <1>3, <1>6 DEF SessionTypeOK
  <2> QED
    BY <1>1, <1>3, <1>4, <1>8, <1>10, <2>1 DEF SessionTypeOK, Loads
<1>12. \A d \in digests : d.kind \notin {"preview", "read"}
  BY <1>1, <1>3 DEF DigestMeans
<1>13. \A d \in digests' : DigestMeans(d)'
  <2>1. snapshot # None => RecordMeans(snapshot)
    BY DEF SessionInv
  <2>2. \A d \in digests' : /\ d.record # None => RecordMeans(d.record)
                            /\ d.kind \in {"preview", "persist"} => d.record \in Records /\ RecordMeans(d.record)
                            /\ d.kind # "preview"
                            /\ d.kind = "read" => d.of = cred
    BY <1>1, <1>3, <1>6, <1>12, <2>1 DEF DigestMeans
  <2> QED
    BY <1>3, <1>8, <2>2 DEF DigestMeans, RecordMeans, FetchedOver
<1>14. OneReads'
  BY <1>3, <1>12 DEF OneReads
<1>15. LoadMeans'
  BY <1>3, <1>4, <1>5, <1>7, <1>8 DEF LoadMeans, FetchedOver
<1>16. QueryMeans' /\ ResultsFollowMapping' /\ NothingForgotten' /\ ResultsAreOfTheirConnection'
  BY <1>1, <1>3, <1>4, <1>9
     DEF QueryMeans, Querying, ResultsFollowMapping, NothingForgotten, ResultsAreOfTheirConnection
<1>17. Accounted'
  BY <1>3, <1>8, <1>10 DEF Accounted
<1> QED
  BY <1>3, <1>8, <1>11, <1>13, <1>14, <1>15, <1>16, <1>17, SnapshotStands DEF SessionInv

\* A load that fails leaves what is in view to the connection it is of.
LEMMA LoadFailsKeeps ==
  ASSUME SessionInv, LoadFails
  PROVE  SessionInv'
<1>1. /\ SessionTypeOK /\ load \in Loads /\ LoadMeans /\ Accounted /\ ResultsAreOfTheirConnection
      /\ QueryMeans /\ OneReads /\ \A d \in digests : DigestMeans(d)
  BY DEF SessionInv
<1>2. /\ load.stage \in {"get", "apply"} /\ ~PreviewPending /\ load' = NoLoad /\ erred' = TRUE
      /\ DOMAIN used' = DOMAIN used
      /\ UNCHANGED <<remote, view, config, live, preview, results, needsQuery, query, digests, snapshot,
                     overtaken>>
  BY DEF LoadFails, Spend, data
<1>3. /\ \/ cred' = None /\ form' = TRUE /\ manual' = NoManual /\ ready' = ready
         \/ ready' = TRUE /\ cred' = cred /\ form' = form /\ manual' = manual
         \/ form' = TRUE /\ manual' = NoManual /\ cred' = cred /\ ready' = ready
  BY DEF LoadFails, ResetManual
<1>4. ~Querying /\ cred # None
  BY <1>1, <1>2 DEF LoadMeans
<1>5. SessionTypeOK'
  BY <1>1, <1>2, <1>3, NoLoadTyped, NoManualTyped DEF SessionTypeOK, Loads
<1>6. \A d \in digests' : DigestMeans(d)'
  BY <1>1, <1>2 DEF DigestMeans, PreviewPending, RecordMeans, FetchedOver
<1>7. OneReads'
  BY <1>1, <1>2 DEF OneReads
<1>8. LoadMeans'
  BY <1>1, <1>2, <1>3, <1>4, NoLoadTyped DEF LoadMeans
<1>9. QueryMeans' /\ NothingForgotten' /\ ResultsAreOfTheirConnection'
  BY <1>1, <1>2, <1>3, <1>4 DEF QueryMeans, Querying, NothingForgotten, ResultsAreOfTheirConnection
<1>10. Accounted' /\ ResultsFollowMapping'
  BY <1>1, <1>2 DEF Accounted, ResultsFollowMapping, SessionTypeOK
<1> QED
  BY <1>2, <1>5, <1>6, <1>7, <1>8, <1>9, <1>10, NoLoadTyped, SnapshotStands DEF SessionInv

\* A query of accounts accs with results rs in view.
LEMMA AskedProperties ==
  ASSUME cred \in Connections \cup {None}, NEW accs \in Some(Types), accs # Nothing,
         NEW rs \in Some(Result)
  PROVE  /\ Asked(accs, rs) \in Queries /\ Asked(accs, rs) # NoQuery
         /\ Asked(accs, rs).accounts = accs /\ Asked(accs, rs).previous = rs
         /\ Asked(accs, rs).of = cred /\ Asked(accs, rs).restored = FALSE
BY NoQueryTyped DEF Asked, Queries

\* A result for an account in view that is mapped to its type, or for one whose
\* source could not be read.
Fits(rs, a) ==
  \/ a \in live /\ config[a] = rs[a].type
  \/ a \in DOMAIN preview /\ preview[a] = rs[a].type

\* What a load ends with: results that were fetched over its connection, for
\* its accounts, and for all of them if they are the snapshot's.
LEMMA ReadResults ==
  ASSUME SessionInv, NEW d \in digests, d.kind = "read",
         NEW accs \in Some(Types), overtaken # "save" => accs = Built(config, live),
         NEW rs, rs = IF Found(d, accs) THEN WithUnavailable(d.record.results, load.retained, accs, preview)
                      ELSE Restrict(load.retained, Match(load.retained, Over(accs, preview)))
  PROVE  /\ rs \in Some(Result) /\ (cred # None => FetchedOver(rs, cred))
         /\ overtaken # "save" => \A a \in DOMAIN rs : Fits(rs, a)
         /\ Found(d, accs) => DOMAIN accs \subseteq DOMAIN rs
<1>1. /\ SessionTypeOK /\ load \in Loads /\ LoadMeans /\ Accounted /\ DigestMeans(d) /\ d \in Digests
      /\ load.stage = "read"
  BY DEF SessionInv, SessionTypeOK, DigestMeans
<1>2. overtaken # "save" => \A a \in DOMAIN accs : a \in live /\ accs[a] = config[a]
  <2>1. SUFFICES ASSUME overtaken # "save"
                 PROVE  \A a \in DOMAIN accs : a \in live /\ accs[a] = config[a]
    OBVIOUS
  <2>2. config \in Mapping /\ live \in SUBSET Accounts
    BY <1>1 DEF SessionTypeOK
  <2>3. /\ DOMAIN Built(config, live) = {a \in live : config[a] # None}
        /\ \A a \in DOMAIN Built(config, live) : Built(config, live)[a] = config[a]
    BY <2>2, BuiltProperties
  <2> QED
    BY <2>1, <2>3
<1>3. PICK earlier \in Some(Result) : earlier = load.retained
  BY <1>1 DEF Loads
<1>4. (cred # None => FetchedOver(earlier, cred) /\ d.of = cred) /\ preview \in Some(Types)
  BY <1>1, <1>3 DEF DigestMeans, LoadMeans, SessionTypeOK
<1>5. CASE Found(d, accs)
  <2>1. PICK r \in Records : r = d.record
    BY <1>1, <1>5 DEF Found, Digests
  <2>2. /\ r.results \in Some(Result) /\ r.accounts = accs /\ (cred # None => FetchedOver(r.results, cred))
        /\ DOMAIN r.results = DOMAIN accs
        /\ \A a \in DOMAIN r.results : r.results[a].type = accs[a]
    BY <1>1, <1>4, <1>5, <2>1 DEF Records, Found, SameScope, DigestMeans, RecordMeans
  <2>3. PICK rr \in Some(Result) : rr = r.results
    BY <2>2
  <2>4. PICK w : w = WithUnavailable(rr, earlier, accs, preview)
    OBVIOUS
  <2>5. KeepsEarlier(w, rr, earlier, accs, preview)
    BY <2>4, UnavailableProperties
  <2>6. rs = w
    BY <1>3, <1>5, <2>1, <2>3, <2>4
  <2>7. cred # None => FetchedOver(w, cred)
    BY <1>4, <2>2, <2>3, <2>5 DEF FetchedOver, KeepsEarlier
  <2>8. overtaken # "save" => \A a \in DOMAIN w : Fits(w, a)
    BY <1>2, <2>2, <2>3, <2>5 DEF Fits, KeepsEarlier
  <2>9. DOMAIN accs \subseteq DOMAIN w
    BY <2>2, <2>3, <2>5 DEF KeepsEarlier
  <2> QED
    BY <2>5, <2>6, <2>7, <2>8, <2>9 DEF KeepsEarlier
<1>6. CASE ~Found(d, accs)
  <2>1. PICK o : o = Over(accs, preview)
    OBVIOUS
  <2>2. /\ DOMAIN o = DOMAIN accs \cup DOMAIN preview
        /\ \A a \in DOMAIN accs : o[a] = accs[a]
        /\ \A a \in DOMAIN preview \ DOMAIN accs : o[a] = preview[a]
    <3>1. PICK u : u = preview
      OBVIOUS
    <3>2. /\ DOMAIN Over(accs, u) = DOMAIN accs \cup DOMAIN u
          /\ \A a \in DOMAIN accs : Over(accs, u)[a] = accs[a]
          /\ \A a \in DOMAIN u \ DOMAIN accs : Over(accs, u)[a] = u[a]
      BY OverValues
    <3> QED
      BY <2>1, <3>1, <3>2
  <2>3. PICK A : A = Match(earlier, o)
    OBVIOUS
  <2>4. A \subseteq DOMAIN earlier /\ A \subseteq DOMAIN o /\ \A a \in A : earlier[a].type = o[a]
    BY <2>3, MatchProperties
  <2>5. rs = Restrict(earlier, A)
    BY <1>3, <1>6, <2>1, <2>3
  <2>6. rs \in Some(Result) /\ DOMAIN rs = A /\ \A a \in A : rs[a] = earlier[a]
    BY <2>4, <2>5, RestrictTyped, RestrictValuesKept
  <2>7. cred # None => FetchedOver(rs, cred)
    BY <1>4, <2>4, <2>6 DEF FetchedOver
  <2>8. overtaken # "save" => \A a \in DOMAIN rs : Fits(rs, a)
    BY <1>2, <2>2, <2>4, <2>6 DEF Fits
  <2> QED
    BY <1>6, <2>6, <2>7, <2>8
<1> QED
  BY <1>5, <1>6

\* What a load that ends does to the query: it stays, or another is sent for
\* all accounts, if there are any.
ReadQueries(d, accs, rs) ==
  \/ /\ Found(d, accs) \/ accs = Nothing
     /\ results' = rs /\ needsQuery' = needsQuery /\ erred' = erred
     /\ \/ ~Querying /\ query' = query
        \/ /\ Querying /\ query' # NoQuery /\ query'.restored = TRUE
           /\ query'.accounts = query.accounts /\ query'.previous = query.previous /\ query'.of = query.of
           /\ query' \in Queries
  \/ /\ needsQuery' = FALSE /\ erred' \in BOOLEAN
     /\ \/ /\ Built(config, live) # Nothing /\ results' = rs
           /\ query' # NoQuery /\ query'.accounts = Built(config, live) /\ query'.previous = rs
           /\ query'.of = cred /\ query'.restored = FALSE /\ query' \in Queries
        \/ /\ Built(config, live) = Nothing /\ query' = NoQuery
           /\ results' = rs \/ results' = Nothing

\* The ways in which a load ends.
LEMMA ReadEnds ==
  ASSUME SessionInv, NEW d, NEW accs, NEW rs \in Some(Result),
         \/ /\ Found(d, accs) \/ accs = Nothing
            /\ results' = rs
            /\ query' = IF Querying THEN [query EXCEPT !.restored = TRUE] ELSE query
            /\ UNCHANGED <<needsQuery, erred>>
         \/ Query(Built(config, live), rs)
  PROVE  ReadQueries(d, accs, rs)
<1>1. /\ cred \in Connections \cup {None} /\ query \in Queries /\ Built(config, live) \in Some(Types)
  BY DisplayedTyped DEF SessionInv, SessionTypeOK
<1>2. CASE Query(Built(config, live), rs)
  <2>1. CASE Built(config, live) = Nothing
    BY <1>2, <2>1 DEF Query, ReadQueries
  <2>2. CASE Built(config, live) # Nothing
    <3>1. PICK now \in Some(Types) : now = Built(config, live)
      BY <1>1
    <3>2. /\ Asked(now, rs) \in Queries /\ Asked(now, rs) # NoQuery
          /\ Asked(now, rs).accounts = now /\ Asked(now, rs).previous = rs
          /\ Asked(now, rs).of = cred /\ Asked(now, rs).restored = FALSE
      BY <1>1, <2>2, <3>1, AskedProperties
    <3>3. query' = Asked(now, rs) /\ results' = rs /\ needsQuery' = FALSE /\ erred' \in BOOLEAN
      BY <1>2, <2>2, <3>1 DEF Query, Emptied
    <3> QED
      BY <2>2, <3>1, <3>2, <3>3 DEF ReadQueries
  <2> QED
    BY <2>1, <2>2
<1>3. CASE /\ Found(d, accs) \/ accs = Nothing
           /\ results' = rs
           /\ query' = IF Querying THEN [query EXCEPT !.restored = TRUE] ELSE query
           /\ UNCHANGED <<needsQuery, erred>>
  <2>1. CASE ~Querying
    BY <1>3, <2>1 DEF ReadQueries
  <2>2. CASE Querying
    <3>1. query' = [query EXCEPT !.restored = TRUE]
      BY <1>3, <2>2
    <3>2. /\ query'.accounts = query.accounts /\ query'.previous = query.previous /\ query'.of = query.of
          /\ query' \in Queries /\ query'.restored = TRUE
      BY <1>1, <3>1 DEF Queries
    <3>3. query.accounts # Nothing
      BY <2>2 DEF SessionInv, QueryMeans
    <3>4. query' # NoQuery
      BY <3>2, <3>3, NoQueryTyped
    <3> QED
      BY <1>3, <2>2, <3>2, <3>4 DEF ReadQueries
  <2> QED
    BY <2>1, <2>2
<1> QED
  BY <1>2, <1>3

\* A load ends with results of its accounts only, and with a query if they may be stale.
LEMMA ReadArrivesKeeps ==
  ASSUME SessionInv, NEW d \in digests, ReadArrives(d)
  PROVE  SessionInv'
<1>1. /\ SessionTypeOK /\ load \in Loads /\ LoadMeans /\ Accounted /\ ResultsAreOfTheirConnection
      /\ QueryMeans /\ OneReads /\ DigestMeans(d) /\ d \in Digests
      /\ \A e \in digests : DigestMeans(e)
  BY DEF SessionInv, SessionTypeOK
<1>2. /\ d.kind = "read" /\ load' = NoLoad /\ form' = FALSE
      /\ UNCHANGED <<remote, cred, view, ready, config, live, preview, manual, overtaken, used>>
      /\ digests' \subseteq digests \ {d}
      /\ snapshot' = snapshot \/ snapshot' = None
  BY DEF ReadArrives, NewGeneration
<1>3. load.stage = "read" /\ overtaken # "reconnect"
  BY <1>1, <1>2 DEF DigestMeans, LoadMeans
<1>4. PICK accs : accs = load.accounts
  OBVIOUS
<1>5. PICK rs : rs = IF Found(d, accs) THEN WithUnavailable(d.record.results, load.retained, accs, preview)
                     ELSE Restrict(load.retained, Match(load.retained, Over(accs, preview)))
  OBVIOUS
<1>6. /\ rs \in Some(Result) /\ (cred # None => FetchedOver(rs, cred))
      /\ overtaken # "save" => \A a \in DOMAIN rs : Fits(rs, a)
      /\ Found(d, accs) => DOMAIN accs \subseteq DOMAIN rs
  <2>1. accs \in Some(Types) /\ (overtaken # "save" => accs = Built(config, live))
    BY <1>1, <1>3, <1>4 DEF LoadMeans, Loads
  <2> QED
    BY <1>2, <1>5, <2>1, ReadResults
<1>7. ReadQueries(d, accs, rs)
  <2>1. \/ /\ Found(d, accs) \/ accs = Nothing
           /\ results' = rs
           /\ query' = IF Querying THEN [query EXCEPT !.restored = TRUE] ELSE query
           /\ UNCHANGED <<needsQuery, erred>>
        \/ Query(Built(config, live), rs)
    BY <1>4, <1>5 DEF ReadArrives
  <2> QED
    BY <1>6, <2>1, ReadEnds
<1>8. results' = rs \/ results' = Nothing
  BY <1>7 DEF ReadQueries
<1>9. PICK now \in Some(Types) : now = Built(config, live)
  BY <1>1, BuiltProperties DEF SessionTypeOK
<1>10. \A e \in digests' : e \in Digests /\ e.kind \notin {"preview", "read"} /\ DigestMeans(e)
  BY <1>1, <1>2, <1>3 DEF DigestMeans, OneReads, SessionTypeOK
<1>11. \A e \in digests' : DigestMeans(e)'
  BY <1>10 DEF DigestMeans, RecordMeans, FetchedOver
<1>12. OneReads'
  BY <1>10 DEF OneReads
<1>13. SessionTypeOK'
  <2>1. results' \in Some(Result)
    BY <1>6, <1>8, NothingProperties
  <2>2. /\ query' \in Queries
        /\ needsQuery' \in BOOLEAN /\ erred' \in BOOLEAN
    BY <1>1, <1>6, <1>7, <1>9, NoQueryTyped DEF SessionTypeOK, ReadQueries
  <2>3. digests' \subseteq Digests /\ snapshot' \in Records \cup {None}
    BY <1>1, <1>2, <1>10 DEF SessionTypeOK
  <2> QED
    BY <1>1, <1>2, <2>1, <2>2, <2>3, NoLoadTyped DEF SessionTypeOK, Loads
<1>14. ResultsAreOfTheirConnection'
  BY <1>1, <1>2, <1>6, <1>8, NothingProperties DEF ResultsAreOfTheirConnection, FetchedOver
<1>15. (snapshot # None => RecordMeans(snapshot))'
  BY <1>2, SnapshotStands
<1>16. LoadMeans'
  BY <1>2, <1>3, NoLoadTyped DEF LoadMeans
<1>17. QueryMeans'
  BY <1>1, <1>2, <1>6, <1>7, <1>9 DEF QueryMeans, ReadQueries, Querying, FetchedOver, SessionTypeOK
<1>18. Accounted'
  BY <1>1, <1>2, <1>6, <1>8, NothingProperties DEF Accounted, Fits
<1>19. ResultsFollowMapping'
  BY <1>1, <1>2, <1>6, <1>8, NothingProperties DEF ResultsFollowMapping, Accounted, Fits
<1>20. NothingForgotten'
  <2>1. overtaken # "save" => accs = now
    BY <1>1, <1>3, <1>4, <1>9 DEF LoadMeans
  <2> QED
    BY <1>2, <1>6, <1>7, <1>9, <2>1, NothingProperties DEF NothingForgotten, ReadQueries, Querying
<1> QED
  BY <1>2, <1>11, <1>12, <1>13, <1>14, <1>15, <1>16, <1>17, <1>18, <1>19, <1>20, NoLoadTyped DEF SessionInv

-------------------------------------------------------------------------------
(* Queries *)

\* What is written to the session next puts an end to what was to be written,
\* and to nothing else.
LEMMA DigestsToWrite ==
  ASSUME SessionInv, load'.stage = load.stage,
         load.stage # "idle" => cred' = cred \/ (load.stage = "read" /\ cred' = None),
         NEW new, digests' = NewGeneration({"persist"}) \cup new,
         \A n \in new : n \in Digests /\ n.kind = "persist" /\ n.record \in Records /\ RecordMeans(n.record)
  PROVE  /\ digests' \subseteq Digests
         /\ \A d \in digests' : DigestMeans(d)'
         /\ OneReads'
<1>1. /\ (\A d \in digests : DigestMeans(d)) /\ OneReads
      /\ load.stage \in {"idle", "get", "apply", "read"}
  BY DEF SessionInv, SessionTypeOK
<1>2. \A e \in digests' : e \in new \/ (e \in digests /\ e \in Digests)
  BY NewGenerationProperties
<1>3. \A e \in digests' : DigestMeans(e)'
  BY <1>1, <1>2 DEF DigestMeans, RecordMeans, FetchedOver
<1>4. OneReads'
  BY <1>1, <1>2 DEF OneReads
<1> QED
  BY <1>2, <1>3, <1>4

\* queryBalances, called by a button or by a view.
LEMMA QueryAllKeeps ==
  ASSUME SessionInv, ~Querying, load.stage \in {"idle", "read"}, QueryAll,
         UNCHANGED <<remote, cred, form, ready, config, live, preview, manual, load, overtaken>>,
         view' \in {"overview", "settings"}, DOMAIN used' = DOMAIN used
  PROVE  SessionInv'
<1>1. /\ SessionTypeOK /\ load \in Loads /\ LoadMeans /\ Accounted /\ ResultsAreOfTheirConnection
      /\ ResultsFollowMapping
  BY DEF SessionInv
<1>2. PICK accs \in Some(Types) : accs = Built(config, live)
  BY <1>1, BuiltProperties DEF SessionTypeOK
<1>3. /\ needsQuery' = FALSE
      /\ query' = IF accs = Nothing THEN NoQuery ELSE Asked(accs, results)
      /\ results' = IF Emptied(accs, results) THEN Nothing ELSE results
      /\ erred' = (accs = Nothing /\ ~Emptied(accs, results))
      /\ IF Emptied(accs, results) THEN ClearSnapshot ELSE UNCHANGED <<digests, snapshot>>
  BY <1>2 DEF QueryAll, Query
<1>4. \/ /\ accs # Nothing /\ query' # NoQuery /\ query'.accounts = accs /\ query'.previous = results
         /\ query'.of = cred /\ query'.restored = FALSE /\ query' \in Queries
         /\ erred' = FALSE /\ UNCHANGED <<results, digests, snapshot>>
      \/ /\ accs = Nothing /\ query' = NoQuery
         /\ \/ erred' = TRUE /\ UNCHANGED <<results, digests, snapshot>>
            \/ /\ erred' = FALSE /\ results' = Nothing
               /\ digests' = NewGeneration({"persist"}) /\ snapshot' = None
  <2>1. CASE accs # Nothing
    <3>1. PICK rs \in Some(Result) : rs = results
      BY <1>1 DEF SessionTypeOK
    <3>2. /\ Asked(accs, rs) \in Queries /\ Asked(accs, rs) # NoQuery
          /\ Asked(accs, rs).accounts = accs /\ Asked(accs, rs).previous = rs
          /\ Asked(accs, rs).of = cred /\ Asked(accs, rs).restored = FALSE
      <4>1. cred \in Connections \cup {None}
        BY <1>1 DEF SessionTypeOK
      <4> QED
        BY <2>1, <4>1, AskedProperties
    <3>3. query' = Asked(accs, rs) /\ erred' = FALSE /\ UNCHANGED <<results, digests, snapshot>>
      BY <1>3, <2>1, <3>1 DEF Emptied
    <3> QED
      BY <2>1, <3>1, <3>2, <3>3
  <2>2. CASE accs = Nothing /\ Emptied(accs, results)
    BY <1>3, <2>2 DEF ClearSnapshot
  <2>3. CASE accs = Nothing /\ ~Emptied(accs, results)
    BY <1>3, <2>3
  <2> QED
    BY <2>1, <2>2, <2>3
<1>5. /\ results' \in Some(Result) /\ (cred # None => FetchedOver(results', cred))
      /\ results' = results \/ results' = Nothing
  BY <1>1, <1>4, NothingProperties, NothingFetched
     DEF SessionTypeOK, ResultsAreOfTheirConnection, FetchedOver
<1>6. /\ digests' \subseteq Digests
      /\ \A d \in digests' : DigestMeans(d)'
      /\ OneReads'
  <2>1. CASE digests' = digests
    BY <2>1, DigestsLeft
  <2>2. CASE digests' = NewGeneration({"persist"})
    <3>1. digests' \subseteq digests
      BY <2>2, NewGenerationProperties
    <3> QED
      BY <3>1, DigestsLeft
  <2> QED
    BY <1>4, <2>1, <2>2
<1>7. snapshot' = snapshot \/ snapshot' = None
  BY <1>4
<1>8. SessionTypeOK'
  BY <1>1, <1>2, <1>3, <1>4, <1>5, <1>6, <1>7, NoQueryTyped DEF SessionTypeOK
<1>9. ResultsAreOfTheirConnection'
  BY <1>1, <1>5, <1>7 DEF ResultsAreOfTheirConnection, FetchedOver
<1>10. (snapshot # None => RecordMeans(snapshot))'
  BY <1>7, SnapshotStands
<1>11. LoadMeans'
  BY <1>1 DEF LoadMeans
<1>12. QueryMeans'
  BY <1>1, <1>2, <1>4, <1>5 DEF QueryMeans, Querying, FetchedOver, SessionTypeOK
<1>13. Accounted'
  BY <1>1, <1>5, NothingProperties DEF Accounted
<1>14. ResultsFollowMapping'
  BY <1>1, <1>4, NothingProperties DEF ResultsFollowMapping, Querying
<1>15. NothingForgotten'
  BY <1>2, <1>4, NothingProperties DEF NothingForgotten, Querying
<1> QED
  BY <1>1, <1>6, <1>8, <1>9, <1>10, <1>11, <1>12, <1>13, <1>14, <1>15 DEF SessionInv

\* The refresh button queries the accounts in view.
LEMMA RefreshKeeps ==
  ASSUME SessionInv, Refresh
  PROVE  SessionInv'
<1>1. SessionTypeOK /\ LoadMeans
  BY DEF SessionInv
<1>2. load.stage \in {"idle", "read"}
  BY <1>1 DEF Refresh, LoadMeans, SessionTypeOK
<1>3. /\ ~Querying /\ QueryAll /\ DOMAIN used' = DOMAIN used
      /\ UNCHANGED <<remote, cred, form, view, ready, config, live, preview, manual, load, overtaken>>
  BY DEF Refresh, Spend, shown
<1>4. view' \in {"overview", "settings"}
  BY <1>1, <1>3 DEF SessionTypeOK
<1> QED
  BY <1>2, <1>3, <1>4, QueryAllKeeps

\* The overview sends the query that is owed.
LEMMA SwitchViewKeeps ==
  ASSUME SessionInv, NEW v \in {"overview", "settings"}, SwitchView(v)
  PROVE  SessionInv'
<1>1. /\ SessionTypeOK /\ LoadMeans /\ load \in Loads
  BY DEF SessionInv
<1>2. /\ view' = v
      /\ UNCHANGED <<remote, cred, form, ready, config, live, preview, manual, load, overtaken, used>>
  BY DEF SwitchView
<1>3. CASE needsQuery /\ ~Querying /\ QueryAll
  <2>1. load.stage \in {"idle", "read"}
    BY <1>1, <1>3 DEF LoadMeans, SessionTypeOK
  <2> QED
    BY <1>2, <1>3, <2>1, QueryAllKeeps
<1>4. CASE UNCHANGED <<results, query, needsQuery, erred, digests, snapshot>>
  <2>1. /\ digests' \subseteq Digests
        /\ \A d \in digests' : DigestMeans(d)'
        /\ OneReads'
    BY <1>2, <1>4, DigestsLeft
  <2>2. SessionTypeOK'
    BY <1>1, <1>2, <1>4 DEF SessionTypeOK
  <2>3. /\ LoadMeans' /\ QueryMeans' /\ Accounted' /\ NothingForgotten' /\ ResultsAreOfTheirConnection'
        /\ ResultsFollowMapping'
    BY <1>2, <1>4 DEF SessionInv, LoadMeans, QueryMeans, Accounted, NothingForgotten,
                      ResultsAreOfTheirConnection, ResultsFollowMapping, Querying, FetchedOver
  <2> QED
    BY <1>1, <1>2, <1>4, <2>1, <2>2, <2>3, SnapshotStands DEF SessionInv
<1> QED
  BY <1>3, <1>4 DEF SwitchView

\* What a query ends with when it is answered: its results are of accounts in
\* view, fetched over its connection; each account asked for has one; and no
\* success is lost of those in view, unless a load has restored others.
LEMMA AnswerResults ==
  ASSUME SessionInv, QueryAnswered
  PROVE  /\ results' \in Some(Result) /\ query.of \in Connections /\ FetchedOver(results', query.of)
         /\ \A a \in DOMAIN results' : Fits(results', a)
         /\ DOMAIN Built(config, live) \subseteq DOMAIN results'
         /\ ~query.restored => \A a \in Match(results, Over(query.accounts, preview)) :
                                 results[a].ok => a \in DOMAIN results' /\ results'[a].ok
         /\ \A a \in DOMAIN Built(config, live) : results'[a].type = Built(config, live)[a]
         /\ \/ digests' = digests
            \/ /\ DOMAIN results' = DOMAIN Built(config, live)
               /\ Persist(query.of, Built(config, live), results', config)
<1>1. SessionTypeOK /\ QueryMeans
  BY DEF SessionInv
<1>2. PICK accs \in Some(Types) : accs = query.accounts
  BY <1>1 DEF SessionTypeOK, Queries
<1>3. /\ DOMAIN accs = {a \in live : config[a] # None}
      /\ \A a \in DOMAIN accs : a \in live /\ accs[a] = config[a]
      /\ accs = Built(config, live)
  <2>1. accs = Built(config, live)
    BY <1>1, <1>2 DEF QueryMeans, QueryAnswered
  <2>2. config \in Mapping /\ live \in SUBSET Accounts
    BY <1>1 DEF SessionTypeOK
  <2>3. /\ DOMAIN Built(config, live) = {a \in live : config[a] # None}
        /\ \A a \in DOMAIN Built(config, live) : Built(config, live)[a] = config[a]
    BY <2>2, BuiltProperties
  <2> QED
    BY <2>1, <2>3
<1>4. PICK c \in Connections : c = query.of
  BY <1>1 DEF QueryMeans, QueryAnswered
<1>5. PICK previous \in Some(Result) : previous = query.previous
  BY <1>1 DEF SessionTypeOK, Queries
<1>6. (~query.restored => previous = results) /\ FetchedOver(previous, c)
  BY <1>1, <1>4, <1>5, NoneApart DEF QueryMeans, QueryAnswered
<1>7. PICK ok \in [DOMAIN accs -> BOOLEAN] :
        LET answer == [a \in DOMAIN accs |-> [type |-> accs[a], ok |-> ok[a], of |-> c]]
            rs == WithUnavailable(Merged(answer, previous), previous, accs, preview)
        IN  /\ results' = rs
            /\ IF DOMAIN rs = DOMAIN accs THEN Persist(c, accs, rs, config) ELSE UNCHANGED digests
  BY <1>2, <1>4, <1>5 DEF QueryAnswered
<1>8. PICK answer : answer = [a \in DOMAIN accs |-> [type |-> accs[a], ok |-> ok[a], of |-> c]]
  OBVIOUS
<1>9. /\ answer \in Some(Result) /\ DOMAIN answer = DOMAIN accs
      /\ \A a \in DOMAIN answer : answer[a].type = accs[a] /\ answer[a].of = c
  <2>1. /\ answer = [a \in DOMAIN answer |-> answer[a]] /\ DOMAIN answer = DOMAIN accs
        /\ \A a \in DOMAIN accs : answer[a] = [type |-> accs[a], ok |-> ok[a], of |-> c]
    BY <1>8
  <2>2. \A a \in DOMAIN accs : accs[a] \in Types /\ ok[a] \in BOOLEAN /\ a \in Accounts
    BY <1>7, ValuesOfSome
  <2>3. DOMAIN answer \subseteq Accounts /\ \A a \in DOMAIN answer : answer[a] \in Result
    BY <2>1, <2>2 DEF Result
  <2>4. answer \in Some(Result)
    BY <2>1, <2>3, SomeByValue
  <2> QED
    BY <2>1, <2>4
<1>10. PICK merged : merged = Merged(answer, previous)
  OBVIOUS
<1>11. /\ merged \in Some(Result) /\ DOMAIN merged = DOMAIN accs
       /\ \A a \in DOMAIN accs :
            /\ merged[a].type = accs[a]
            /\ merged[a] = answer[a] \/ (a \in DOMAIN previous /\ merged[a] = previous[a])
            /\ a \in DOMAIN previous /\ previous[a].ok /\ previous[a].type = accs[a] => merged[a].ok
  <2>1. /\ Merged(answer, previous) \in Some(Result)
        /\ DOMAIN Merged(answer, previous) = DOMAIN answer
        /\ \A a \in DOMAIN answer :
             /\ Merged(answer, previous)[a].type = answer[a].type
             /\ \/ Merged(answer, previous)[a] = answer[a]
                \/ a \in DOMAIN previous /\ Merged(answer, previous)[a] = previous[a]
             /\ a \in DOMAIN previous /\ previous[a].ok /\ previous[a].type = answer[a].type
                => Merged(answer, previous)[a].ok
    BY <1>9, MergedProperties
  <2> QED
    BY <1>9, <1>10, <2>1
<1>12. PICK w : w = WithUnavailable(merged, previous, accs, preview)
  OBVIOUS
<1>13. KeepsEarlier(w, merged, previous, accs, preview)
  BY <1>11, <1>12, UnavailableProperties
<1>14. /\ results' = w
       /\ IF DOMAIN w = DOMAIN accs THEN Persist(c, accs, w, config) ELSE digests' = digests
  BY <1>7, <1>8, <1>10, <1>12
<1>15. FetchedOver(w, c)
  BY <1>6, <1>9, <1>11, <1>13 DEF FetchedOver, KeepsEarlier
<1>16. \A a \in DOMAIN w : Fits(w, a)
  BY <1>3, <1>11, <1>13 DEF Fits, KeepsEarlier
<1>17. DOMAIN accs \subseteq DOMAIN w /\ \A a \in DOMAIN accs : w[a].type = accs[a]
  BY <1>11, <1>13 DEF KeepsEarlier
<1>18. ASSUME ~query.restored, NEW a \in Match(results, Over(accs, preview)), results[a].ok
       PROVE  a \in DOMAIN w /\ w[a].ok
  <2>1. PICK o : o = Over(accs, preview)
    OBVIOUS
  <2>2. /\ DOMAIN o = DOMAIN accs \cup DOMAIN preview
        /\ \A x \in DOMAIN accs : o[x] = accs[x]
        /\ \A x \in DOMAIN preview \ DOMAIN accs : o[x] = preview[x]
    <3>1. PICK u : u = preview
      OBVIOUS
    <3>2. /\ DOMAIN Over(accs, u) = DOMAIN accs \cup DOMAIN u
          /\ \A x \in DOMAIN accs : Over(accs, u)[x] = accs[x]
          /\ \A x \in DOMAIN u \ DOMAIN accs : Over(accs, u)[x] = u[x]
      BY OverValues
    <3> QED
      BY <2>1, <3>1, <3>2
  <2>3. a \in DOMAIN previous /\ a \in DOMAIN o /\ previous[a].type = o[a] /\ previous[a].ok
    BY <1>6, <1>18, <2>1, MatchProperties
  <2>4. CASE a \in DOMAIN accs
    BY <1>11, <1>13, <2>2, <2>3, <2>4 DEF KeepsEarlier
  <2>5. CASE a \notin DOMAIN accs
    <3>1. a \in DOMAIN preview /\ preview[a] = previous[a].type
      BY <2>2, <2>3, <2>5
    <3>2. a \in DOMAIN w
      BY <1>13, <2>3, <2>5, <3>1 DEF KeepsEarlier
    <3>3. w[a] = previous[a]
      BY <1>11, <1>13, <2>5, <3>2 DEF KeepsEarlier
    <3> QED
      BY <2>3, <3>2, <3>3
  <2> QED
    BY <2>4, <2>5
<1>19. ~query.restored => \A a \in Match(results, Over(query.accounts, preview)) :
                            results[a].ok => a \in DOMAIN w /\ w[a].ok
  BY <1>2, <1>18
<1> QED
  BY <1>3, <1>4, <1>13, <1>14, <1>15, <1>16, <1>17, <1>19 DEF KeepsEarlier

\* What Persist files is a record of the results that it is given.
LEMMA PersistProperties ==
  ASSUME NEW c \in Connections, NEW accs \in Some(Types), NEW rs \in Some(Result), NEW m \in Mapping,
         DOMAIN rs = DOMAIN accs, \A a \in DOMAIN rs : rs[a].type = accs[a], FetchedOver(rs, c),
         NEW n, n = [kind |-> "persist", of |-> c,
                     record |-> [scope |-> c, accounts |-> accs, results |-> rs, mapping |-> m]]
  PROVE  n \in Digests /\ n.kind = "persist" /\ n.record \in Records /\ RecordMeans(n.record)
<1>1. PICK r : r = [scope |-> c, accounts |-> accs, results |-> rs, mapping |-> m]
  OBVIOUS
<1>2. r \in Records /\ r.scope = c /\ r.accounts = accs /\ r.results = rs
  BY <1>1 DEF Records
<1>3. RecordMeans(r)
  BY <1>2 DEF RecordMeans
<1>4. n = [kind |-> "persist", of |-> c, record |-> r]
  BY <1>1
<1>5. n \in Digests /\ n.kind = "persist" /\ n.record = r
  BY <1>2, <1>4 DEF Digests
<1> QED
  BY <1>2, <1>3, <1>5

\* The answer comes into view where the query was asked for.
LEMMA QueryAnsweredKeeps ==
  ASSUME SessionInv, QueryAnswered
  PROVE  SessionInv'
<1>1. /\ SessionTypeOK /\ load \in Loads /\ LoadMeans /\ Accounted /\ ResultsAreOfTheirConnection /\ QueryMeans
  BY DEF SessionInv
<1>2. /\ Querying /\ query' = NoQuery /\ query.of # None
      /\ UNCHANGED <<remote, cred, form, view, ready, config, live, preview, needsQuery, manual, load,
                     snapshot, erred, used>>
      /\ overtaken' = IF load = NoLoad THEN "no" ELSE overtaken
  BY DEF QueryAnswered, shown
<1>3. PICK accs \in Some(Types) : accs = Built(config, live)
  BY <1>1, BuiltProperties DEF SessionTypeOK
<1>4. PICK c \in Connections : c = query.of
  BY <1>1, <1>2 DEF QueryMeans
<1>5. /\ results' \in Some(Result) /\ FetchedOver(results', c)
      /\ \A a \in DOMAIN results' : Fits(results', a)
      /\ DOMAIN accs \subseteq DOMAIN results'
      /\ \A a \in DOMAIN accs : results'[a].type = accs[a]
      /\ \/ digests' = digests
         \/ DOMAIN results' = DOMAIN accs /\ Persist(c, accs, results', config)
  BY <1>3, <1>4, AnswerResults
<1>6. cred # None => c = cred
  BY <1>1, <1>2, <1>4 DEF QueryMeans
<1>7. /\ digests' \subseteq Digests
      /\ \A d \in digests' : DigestMeans(d)'
      /\ OneReads'
  <2>1. CASE digests' = digests
    BY <1>2, <2>1, DigestsLeft
  <2>2. CASE DOMAIN results' = DOMAIN accs /\ Persist(c, accs, results', config)
    <3>1. PICK rs \in Some(Result), m \in Mapping : rs = results' /\ m = config
      BY <1>1, <1>5 DEF SessionTypeOK
    <3>2. PICK n : n = [kind |-> "persist", of |-> c,
                        record |-> [scope |-> c, accounts |-> accs, results |-> rs, mapping |-> m]]
      OBVIOUS
    <3>3. n \in Digests /\ n.kind = "persist" /\ n.record \in Records /\ RecordMeans(n.record)
      <4>1. DOMAIN rs = DOMAIN accs /\ (\A a \in DOMAIN rs : rs[a].type = accs[a]) /\ FetchedOver(rs, c)
        BY <1>5, <2>2, <3>1
      <4> QED
        BY <3>2, <4>1, PersistProperties
    <3>4. PICK new : new = {n}
      OBVIOUS
    <3>5. digests' = NewGeneration({"persist"}) \cup new
      BY <2>2, <3>1, <3>2, <3>4 DEF Persist
    <3>6. \A x \in new : x \in Digests /\ x.kind = "persist" /\ x.record \in Records /\ RecordMeans(x.record)
      BY <3>3, <3>4
    <3> QED
      BY <1>2, <3>5, <3>6, DigestsToWrite
  <2> QED
    BY <1>5, <2>1, <2>2
<1>8. SessionTypeOK'
  BY <1>1, <1>2, <1>5, <1>7, NoQueryTyped DEF SessionTypeOK
<1>9. ResultsAreOfTheirConnection'
  BY <1>1, <1>2, <1>5, <1>6 DEF ResultsAreOfTheirConnection, FetchedOver
<1>10. LoadMeans' /\ QueryMeans'
  BY <1>1, <1>2, NoLoadTyped DEF LoadMeans, QueryMeans, Querying
<1>11. Accounted'
  BY <1>1, <1>2, <1>5 DEF Accounted, Fits
<1>12. ResultsFollowMapping'
  BY <1>1, <1>2, <1>5 DEF ResultsFollowMapping, Accounted, Fits
<1>13. NothingForgotten'
  BY <1>2, <1>3, <1>5 DEF NothingForgotten
<1> QED
  BY <1>1, <1>2, <1>7, <1>8, <1>9, <1>10, <1>11, <1>12, <1>13, SnapshotStands DEF SessionInv

\* A query that fails leaves what is in view, the load and the digests alone.
LEMMA QueryFailsKeeps ==
  ASSUME SessionInv, QueryFails
  PROVE  SessionInv'
<1>1. /\ query' = NoQuery /\ erred' = TRUE /\ DOMAIN used' = DOMAIN used
      /\ UNCHANGED <<remote, cred, form, view, ready, config, live, preview, results, needsQuery, manual,
                     load, digests, snapshot, overtaken>>
  BY DEF QueryFails, Spend, shown, data
<1>2. /\ digests' \subseteq Digests
      /\ \A d \in digests' : DigestMeans(d)'
      /\ OneReads'
  BY <1>1, DigestsLeft
<1>3. SessionTypeOK'
  BY <1>1, NoQueryTyped DEF SessionInv, SessionTypeOK
<1>4. /\ LoadMeans' /\ QueryMeans' /\ Accounted' /\ NothingForgotten' /\ ResultsAreOfTheirConnection'
      /\ ResultsFollowMapping'
  BY <1>1 DEF SessionInv, LoadMeans, QueryMeans, Accounted, NothingForgotten,
              ResultsAreOfTheirConnection, ResultsFollowMapping, Querying, FetchedOver
<1>5. load' \in Loads
  BY <1>1 DEF SessionInv
<1> QED
  BY <1>1, <1>2, <1>3, <1>4, <1>5, SnapshotStands DEF SessionInv

\* A record is written to the session, or the one there goes.
LEMMA SnapshotChanges ==
  ASSUME SessionInv, digests' \subseteq digests,
         \/ snapshot' = snapshot \/ snapshot' = None
         \/ snapshot' \in Records /\ RecordMeans(snapshot'),
         DOMAIN used' = DOMAIN used,
         UNCHANGED <<remote, cred, form, view, ready, config, live, preview, results, needsQuery, query,
                     manual, load, erred, overtaken>>
  PROVE  SessionInv'
<1>1. /\ digests' \subseteq Digests
      /\ \A d \in digests' : DigestMeans(d)'
      /\ OneReads'
  BY DigestsLeft
<1>2. (snapshot # None => RecordMeans(snapshot))'
  <2>1. CASE snapshot' = snapshot \/ snapshot' = None
    BY <2>1, SnapshotStands
  <2>2. CASE snapshot' \in Records /\ RecordMeans(snapshot')
    BY <2>2 DEF RecordMeans, FetchedOver
  <2> QED
    BY <2>1, <2>2
<1>3. snapshot' \in Records \cup {None}
  BY DEF SessionInv, SessionTypeOK
<1>4. SessionTypeOK'
  BY <1>1, <1>3 DEF SessionInv, SessionTypeOK
<1>5. ResultsAreOfTheirConnection'
  BY <1>2 DEF SessionInv, ResultsAreOfTheirConnection, RecordMeans, FetchedOver
<1>6. LoadMeans' /\ QueryMeans' /\ Accounted' /\ ResultsFollowMapping' /\ NothingForgotten'
  BY DEF SessionInv, LoadMeans, QueryMeans, Accounted, ResultsFollowMapping, NothingForgotten, Querying,
         FetchedOver
<1>7. load' \in Loads
  BY DEF SessionInv
<1> QED
  BY <1>1, <1>2, <1>4, <1>5, <1>6, <1>7 DEF SessionInv

\* What is written to the session is the record that the digest was for.
LEMMA PersistArrivesKeeps ==
  ASSUME SessionInv, NEW d \in digests, PersistArrives(d)
  PROVE  SessionInv'
<1>1. /\ d.kind = "persist" /\ digests' = digests \ {d}
      /\ snapshot' \in {d.record, None}
      /\ UNCHANGED <<remote, cred, form, view, ready, config, live, preview, results, needsQuery, query,
                     manual, load, erred, overtaken, used>>
  BY DEF PersistArrives, shown, data
<1>2. d.record \in Records /\ RecordMeans(d.record)
  BY <1>1 DEF SessionInv, DigestMeans
<1>3. /\ digests' \subseteq digests /\ DOMAIN used' = DOMAIN used
      /\ \/ snapshot' = snapshot \/ snapshot' = None
         \/ snapshot' \in Records /\ RecordMeans(snapshot')
  BY <1>1, <1>2
<1> QED
  BY <1>1, <1>3, SnapshotChanges

\* A record that is discarded is missed by nothing.
LEMMA SnapshotExpiresKeeps ==
  ASSUME SessionInv, SnapshotExpires
  PROVE  SessionInv'
<1>1. /\ digests' \subseteq digests /\ DOMAIN used' = DOMAIN used
      /\ snapshot' = None
      /\ UNCHANGED <<remote, cred, form, view, ready, config, live, preview, results, needsQuery, query,
                     manual, load, erred, overtaken>>
  BY DEF SnapshotExpires, Spend, shown, data
<1> QED
  BY <1>1, SnapshotChanges

\* The answer for a key typed in is of the connection that is in use.
LEMMA ManualKeeps ==
  ASSUME SessionInv, AskManual \/ ManualAnswered
  PROVE  SessionInv'
<1>1. /\ DOMAIN used' = DOMAIN used
      /\ UNCHANGED <<remote, cred, form, view, ready, config, live, preview, results, needsQuery, query,
                     load, digests, snapshot, erred, overtaken>>
  BY DEF AskManual, ManualAnswered, Spend, shown, data
<1>2. manual' \in Manuals /\ (manual' # NoManual => manual'.of = cred)
  <2>1. cred \in Connections \cup {None} /\ manual \in Manuals /\ (manual # NoManual => manual.of = cred)
    BY DEF SessionInv, SessionTypeOK, ResultsAreOfTheirConnection
  <2>2. CASE AskManual
    BY <2>1, <2>2 DEF AskManual, Manuals
  <2>3. CASE ManualAnswered
    <3>1. manual.stage = "asking" /\ manual # NoManual
      BY <2>3 DEF ManualAnswered, NoManual
    <3>2. manual' = [manual EXCEPT !.stage = "answered"] \/ manual' = NoManual
      BY <2>3 DEF ManualAnswered
    <3> QED
      BY <2>1, <3>1, <3>2, NoManualTyped DEF Manuals
  <2> QED
    BY <2>2, <2>3
<1>3. /\ digests' \subseteq Digests
      /\ \A d \in digests' : DigestMeans(d)'
      /\ OneReads'
  BY <1>1, DigestsLeft
<1>4. SessionTypeOK'
  BY <1>1, <1>2 DEF SessionInv, SessionTypeOK
<1>5. /\ LoadMeans' /\ QueryMeans' /\ Accounted' /\ NothingForgotten' /\ ResultsAreOfTheirConnection'
      /\ ResultsFollowMapping'
  BY <1>1, <1>2 DEF SessionInv, LoadMeans, QueryMeans, Accounted, NothingForgotten,
              ResultsAreOfTheirConnection, ResultsFollowMapping, Querying, FetchedOver
<1>6. load' \in Loads
  BY <1>1 DEF SessionInv
<1> QED
  BY <1>1, <1>3, <1>4, <1>5, <1>6, SnapshotStands DEF SessionInv

\* What another client stores at CPA does not reach the page by itself.
LEMMA RemoteChangeKeeps ==
  ASSUME SessionInv, NEW c \in Connections, NEW a \in Accounts, NEW t \in Types \cup {None},
         RemoteChange(c, a, t)
  PROVE  SessionInv'
<1>1. /\ remote' = [remote EXCEPT ![c][a] = t] /\ DOMAIN used' = DOMAIN used
      /\ UNCHANGED <<cred, form, view, ready, config, live, preview, results, needsQuery, query, manual,
                     load, digests, snapshot, erred, overtaken>>
  BY DEF RemoteChange, Spend, shown, data
<1>2. /\ digests' \subseteq Digests
      /\ \A d \in digests' : DigestMeans(d)'
      /\ OneReads'
  BY <1>1, DigestsLeft
<1>3. remote' \in [Connections -> Mapping]
  BY <1>1 DEF SessionInv, SessionTypeOK, Mapping
<1>4. SessionTypeOK'
  BY <1>1, <1>2, <1>3 DEF SessionInv, SessionTypeOK
<1>5. /\ LoadMeans' /\ QueryMeans' /\ Accounted' /\ NothingForgotten' /\ ResultsAreOfTheirConnection'
      /\ ResultsFollowMapping'
  BY <1>1 DEF SessionInv, LoadMeans, QueryMeans, Accounted, NothingForgotten,
              ResultsAreOfTheirConnection, ResultsFollowMapping, Querying, FetchedOver
<1>6. load' \in Loads
  BY <1>1 DEF SessionInv
<1> QED
  BY <1>1, <1>2, <1>4, <1>5, <1>6, SnapshotStands DEF SessionInv

-------------------------------------------------------------------------------
(* Saves *)

\* What is in view after a save and what is asked for next: nothing that was
\* found by another mapping.
LEMMA SaveEndsKeeps ==
  ASSUME SessionInv, NEW m \in Mapping, NEW how \in {"applied", "not applied", "auth"}, SaveEnds(m, how)
  PROVE  SessionInv'
<1>1. /\ SessionTypeOK /\ load \in Loads /\ LoadMeans /\ Accounted /\ ResultsAreOfTheirConnection
      /\ QueryMeans /\ ResultsFollowMapping /\ NothingForgotten
  BY DEF SessionInv
<1>2. PICK c \in Connections : c = cred
  BY <1>1 DEF SaveEnds, SessionTypeOK
<1>3. /\ ~form /\ ready /\ load.stage \in {"idle", "read"} /\ cred # None
      /\ remote' = [remote EXCEPT ![c] = m] /\ config' = m
      /\ UNCHANGED <<view, ready, live, preview, load>> /\ DOMAIN used' = DOMAIN used
  BY <1>1, <1>2 DEF SaveEnds, Spend, LoadMeans, SessionTypeOK
<1>4. \/ how = "auth" /\ form' = TRUE /\ cred' = None /\ manual' = NoManual
      \/ how # "auth" /\ form' = FALSE /\ cred' = c /\ manual' = manual
  BY <1>2 DEF SaveEnds, ResetManual
<1>5. PICK accs \in Some(Types) : accs = Built(m, live)
  BY <1>1, BuiltProperties DEF SessionTypeOK
<1>6. DOMAIN accs = {a \in live : m[a] # None} /\ \A a \in DOMAIN accs : a \in live /\ accs[a] = m[a]
  <2>1. live \in SUBSET Accounts
    BY <1>1 DEF SessionTypeOK
  <2>2. /\ DOMAIN Built(m, live) = {a \in live : m[a] # None}
        /\ \A a \in DOMAIN Built(m, live) : Built(m, live)[a] = m[a]
    BY <2>1, BuiltProperties
  <2> QED
    BY <1>5, <2>2
<1>7. remote' \in [Connections -> Mapping] /\ manual' \in Manuals /\ cred' \in Connections \cup {None}
  BY <1>1, <1>2, <1>3, <1>4, NoManualTyped DEF SessionTypeOK
<1>8. /\ load.stage = "idle" \/ (load.stage = "read" /\ overtaken # "reconnect")
      /\ load.stage # "idle" => cred' = cred \/ (load.stage = "read" /\ cred' = None)
  BY <1>1, <1>2, <1>3, <1>4 DEF LoadMeans
<1>9. manual # NoManual => manual.of = c
  BY <1>1, <1>2, NoneApart DEF ResultsAreOfTheirConnection
<1>10. CASE \E a \in live : m[a] # config[a]
  <2>1. /\ digests' = NewGeneration({"persist"}) /\ snapshot' = None /\ results' = Nothing
        /\ overtaken' = IF load.stage = "read" THEN "save" ELSE overtaken
    BY <1>10 DEF SaveEnds, ClearSnapshot, DropResults
  <2>2. \/ /\ query' = NoQuery
           /\ \/ accs = Nothing /\ needsQuery' = FALSE /\ erred' = FALSE
              \/ needsQuery' = TRUE /\ erred' = erred
        \/ /\ accs # Nothing /\ query' # NoQuery /\ query'.accounts = accs /\ query'.previous = Nothing
           /\ query'.of = c /\ query' \in Queries /\ cred' = c /\ needsQuery' = FALSE /\ erred' = FALSE
    <3>1. PICK q : q = Asked(accs, Nothing)
      OBVIOUS
    <3>2. cred \in Connections \cup {None} /\ Nothing \in Some(Result)
      BY <1>1, NothingProperties DEF SessionTypeOK
    <3>3. \/ query' = NoQuery /\ accs = Nothing /\ needsQuery' = FALSE /\ erred' = FALSE
          \/ query' = NoQuery /\ needsQuery' = TRUE /\ erred' = erred
          \/ accs # Nothing /\ how = "applied" /\ needsQuery' = FALSE /\ erred' = FALSE /\ query' = q
      BY <1>5, <1>10, <3>1 DEF SaveEnds
    <3>4. accs # Nothing => /\ q \in Queries /\ q # NoQuery
                            /\ q.accounts = accs /\ q.previous = Nothing /\ q.of = c
      <4>1. PICK rs \in Some(Result) : rs = Nothing
        BY <3>2
      <4>2. accs # Nothing => /\ Asked(accs, rs) \in Queries /\ Asked(accs, rs) # NoQuery
                              /\ Asked(accs, rs).accounts = accs /\ Asked(accs, rs).previous = rs
                              /\ Asked(accs, rs).of = cred
        BY <3>2, AskedProperties
      <4> QED
        BY <1>2, <3>1, <4>1, <4>2
    <3> QED
      BY <1>4, <3>3, <3>4
  <2>3. /\ digests' \subseteq Digests
        /\ \A d \in digests' : DigestMeans(d)'
        /\ OneReads'
    <3>1. PICK new : new = {}
      OBVIOUS
    <3>2. /\ digests' = NewGeneration({"persist"}) \cup new
          /\ \A n \in new : n \in Digests /\ n.kind = "persist" /\ n.record \in Records /\ RecordMeans(n.record)
      BY <2>1, <3>1
    <3> QED
      BY <1>3, <1>8, <3>2, DigestsToWrite
  <2>4. SessionTypeOK'
    <3>1. /\ query' \in Queries /\ needsQuery' \in BOOLEAN /\ erred' \in BOOLEAN
          /\ results' \in Some(Result) /\ overtaken' \in {"no", "reconnect", "save"}
      BY <1>1, <2>1, <2>2, NoQueryTyped, NothingProperties DEF SessionTypeOK
    <3> QED
      BY <1>1, <1>3, <1>4, <1>7, <2>1, <2>3, <3>1 DEF SessionTypeOK
  <2>5. ResultsAreOfTheirConnection'
    <3>1. DOMAIN results' = {} /\ snapshot' = None
      BY <2>1, NothingProperties
    <3>2. manual' # NoManual => manual'.of = cred'
      BY <1>4, <1>9
    <3> QED
      BY <3>1, <3>2 DEF ResultsAreOfTheirConnection
  <2>6. QueryMeans'
    BY <1>3, <1>5, <2>1, <2>2, NothingFetched DEF QueryMeans, Querying
  <2>7. Accounted'
    BY <1>1, <1>3, <2>1, NothingProperties DEF Accounted
  <2>8. NothingForgotten'
    BY <1>3, <1>5, <2>2, NothingProperties DEF NothingForgotten, Querying
  <2>9. LoadMeans'
    BY <1>1, <1>2, <1>3, <1>4, <1>8, <2>1, NoneApart, NoLoadTyped DEF LoadMeans, FetchedOver
  <2>10. ResultsFollowMapping'
    BY <2>1, NothingProperties DEF ResultsFollowMapping
  <2> QED
    BY <1>1, <1>3, <2>1, <2>3, <2>4, <2>5, <2>6, <2>7, <2>8, <2>9, <2>10 DEF SessionInv
<1>11. CASE ~ \E a \in live : m[a] # config[a]
  <2>1. /\ UNCHANGED <<results, query, needsQuery, erred, snapshot, overtaken>>
        /\ \/ digests' = digests
           \/ /\ DOMAIN results = DOMAIN accs /\ Match(results, accs) = DOMAIN results
              /\ Persist(c, accs, results, m)
    BY <1>2, <1>5, <1>11 DEF SaveEnds
  <2>2. accs = Built(config, live)
    BY <1>5, <1>11, BuiltAlike
  <2>3. FetchedOver(results, c)
    BY <1>1, <1>2, NoneApart DEF ResultsAreOfTheirConnection, FetchedOver
  <2>4. /\ digests' \subseteq Digests
        /\ \A d \in digests' : DigestMeans(d)'
        /\ OneReads'
    <3>1. CASE digests' = digests
      BY <1>3, <1>8, <3>1, DigestsLeft
    <3>2. CASE /\ DOMAIN results = DOMAIN accs /\ Match(results, accs) = DOMAIN results
               /\ Persist(c, accs, results, m)
      <4>1. PICK rs \in Some(Result) : rs = results
        BY <1>1 DEF SessionTypeOK
      <4>2. PICK n : n = [kind |-> "persist", of |-> c,
                          record |-> [scope |-> c, accounts |-> accs, results |-> rs, mapping |-> m]]
        OBVIOUS
      <4>3. \A a \in Match(rs, accs) : rs[a].type = accs[a]
        BY MatchProperties
      <4>4. n \in Digests /\ n.kind = "persist" /\ n.record \in Records /\ RecordMeans(n.record)
        BY <2>3, <3>2, <4>1, <4>2, <4>3, PersistProperties
      <4>5. PICK new : new = {n}
        OBVIOUS
      <4>6. digests' = NewGeneration({"persist"}) \cup new
        BY <3>2, <4>1, <4>2, <4>5 DEF Persist
      <4>7. \A x \in new : x \in Digests /\ x.kind = "persist" /\ x.record \in Records /\ RecordMeans(x.record)
        BY <4>4, <4>5
      <4> QED
        BY <1>3, <1>8, <4>6, <4>7, DigestsToWrite
    <3> QED
      BY <2>1, <3>1, <3>2
  <2>5. SessionTypeOK'
    BY <1>1, <1>3, <1>4, <1>7, <2>1, <2>4 DEF SessionTypeOK
  <2>6. ResultsAreOfTheirConnection'
    BY <1>1, <1>4, <1>9, <2>1, <2>3 DEF ResultsAreOfTheirConnection, FetchedOver
  <2>7. QueryMeans'
    BY <1>1, <1>2, <1>3, <1>4, <1>5, <2>1, <2>2 DEF QueryMeans, Querying, FetchedOver
  <2>8. Accounted'
    BY <1>1, <1>3, <1>11, <2>1 DEF Accounted
  <2>9. NothingForgotten'
    BY <1>1, <1>3, <1>5, <2>1, <2>2 DEF NothingForgotten, Querying
  <2>10. LoadMeans'
    <3>1. Built(config', live') = Built(config, live)
      BY <1>3, <1>5, <2>2
    <3> QED
      BY <1>1, <1>2, <1>3, <1>4, <1>8, <2>1, <3>1, NoneApart, NoLoadTyped DEF LoadMeans, FetchedOver
  <2>11. ResultsFollowMapping'
    <3>1. \A a \in DOMAIN results \cap live : config'[a] = config[a]
      BY <1>3, <1>11
    <3> QED
      BY <1>1, <1>3, <2>1, <3>1 DEF ResultsFollowMapping, Querying
  <2> QED
    BY <1>1, <1>3, <2>1, <2>4, <2>5, <2>6, <2>7, <2>8, <2>9, <2>10, <2>11, SnapshotStands DEF SessionInv
<1> QED
  BY <1>10, <1>11

-------------------------------------------------------------------------------
(* The theorems *)

\* The page as it is first opened.
LEMMA SessionBegins == Init => SessionInv
<1> SUFFICES ASSUME Init
             PROVE  SessionInv
  OBVIOUS
<1>1. config \in Mapping /\ remote \in [Connections -> Mapping]
  BY SessionAssumption DEF Init, Mapping
<1>2. SessionTypeOK /\ load \in Loads
  BY <1>1, NoQueryTyped, NoManualTyped, NoLoadTyped, NothingProperties DEF Init, SessionTypeOK, Loads
<1>3. ResultsAreOfTheirConnection /\ OneReads
  BY NoLoadTyped, NothingProperties DEF Init, ResultsAreOfTheirConnection, OneReads
<1>4. LoadMeans /\ QueryMeans /\ Accounted /\ ResultsFollowMapping /\ NothingForgotten
  BY NoLoadTyped, NothingProperties
     DEF Init, LoadMeans, QueryMeans, Querying, Accounted, ResultsFollowMapping, NothingForgotten
<1>5. snapshot = None /\ digests = {}
  BY DEF Init
<1> QED
  BY <1>2, <1>3, <1>4, <1>5 DEF SessionInv

\* No step breaks the invariant, nor does one in which nothing happens.
LEMMA StepKeeps == SessionInv /\ [Next]_vars => SessionInv'
<1> SUFFICES ASSUME SessionInv, [Next]_vars
             PROVE  SessionInv'
  OBVIOUS
<1>1. CASE \E c \in Connections : Connect(c)
  BY <1>1, ConnectKeeps
<1>2. CASE \E c \in Connections \cup {None} : Reopen(c)
  BY <1>2, ReopenKeeps
<1>3. CASE Reconnect
  BY <1>3, ReconnectKeeps
<1>4. CASE LoadGetServed \/ LoadApplied \/ LoadFails
  BY <1>4, LoadGetServedKeeps, LoadAppliedKeeps, LoadFailsKeeps
<1>5. CASE \E d \in digests : PreviewArrives(d) \/ ReadArrives(d) \/ PersistArrives(d)
  BY <1>5, PreviewArrivesKeeps, ReadArrivesKeeps, PersistArrivesKeeps
<1>6. CASE SnapshotExpires \/ Refresh \/ QueryAnswered \/ QueryFails \/ AskManual \/ ManualAnswered
  BY <1>6, SnapshotExpiresKeeps, RefreshKeeps, QueryAnsweredKeeps, QueryFailsKeeps, ManualKeeps
<1>7. CASE \E v \in {"overview", "settings"} : SwitchView(v)
  BY <1>7, SwitchViewKeeps
<1>8. CASE \E m \in Mapping : \E how \in {"applied", "not applied", "auth"} : SaveEnds(m, how)
  BY <1>8, SaveEndsKeeps
<1>9. CASE \E c \in Connections : \E a \in Accounts : \E t \in Types \cup {None} : RemoteChange(c, a, t)
  BY <1>9, RemoteChangeKeeps
<1>10. CASE UNCHANGED vars
  <2>1. /\ UNCHANGED <<remote, cred, form, view, ready, config, live, preview, results, needsQuery, query,
                       manual, load, digests, snapshot, erred, overtaken, used>>
    BY <1>10 DEF vars
  <2>2. digests' \subseteq digests /\ DOMAIN used' = DOMAIN used
    BY <2>1
  <2> QED
    BY <2>1, <2>2, SnapshotChanges
<1> QED
  BY <1>1, <1>2, <1>3, <1>4, <1>5, <1>6, <1>7, <1>8, <1>9, <1>10 DEF Next

\* The session's invariant, from which the properties below follow.
THEOREM SessionInvHolds == Spec => []SessionInv
BY SessionBegins, StepKeeps, PTL DEF Spec

\* Every variable of the page keeps to its type.
THEOREM SessionTypesCorrect == Spec => []SessionTypeOK
<1>1. SessionInv => SessionTypeOK
  BY DEF SessionInv
<1> QED
  BY <1>1, SessionInvHolds, PTL

\* What is in view, the answer for a key typed in and the record kept in the
\* session were all fetched over the connection that they stand for.
THEOREM ResultsStayWithTheirConnection == Spec => []ResultsAreOfTheirConnection
<1>1. SessionInv => ResultsAreOfTheirConnection
  BY DEF SessionInv
<1> QED
  BY <1>1, SessionInvHolds, PTL

\* Once the page is loaded, a balance in view is of the kind that its account
\* is mapped to, unless a reconnect or a save overtook the digests of the last
\* load; after a reconnect the page then asks again, or reports a failure.
THEOREM BalancesFollowTheMapping == Spec => []ResultsFollowMapping
<1>1. SessionInv => ResultsFollowMapping
  BY DEF SessionInv
<1> QED
  BY <1>1, SessionInvHolds, PTL

\* No account that can be queried stays without a result, a query or an error,
\* unless a save overtook the digests of the last load.
THEOREM NoAccountIsForgotten == Spec => []NothingForgotten
<1>1. SessionInv => NothingForgotten
  BY DEF SessionInv
<1> QED
  BY <1>1, SessionInvHolds, PTL

\* A query ends without a success that was in view only where a load or a
\* change of the mapping came in between, or where a load had restored it.
LEMMA StepKeepsSuccesses ==
  ASSUME SessionInv, Next, Querying, query' = NoQuery, results' # results, load' = load,
         config' = config, ~query.restored,
         NEW a \in Match(results, Over(query.accounts, preview)), results[a].ok
  PROVE  a \in DOMAIN results' /\ results'[a].ok
<1>1. /\ SessionTypeOK /\ QueryMeans /\ load.stage \in {"idle", "read"} /\ query' # query
      /\ \A d \in digests : DigestMeans(d)
  BY DEF SessionInv, SessionTypeOK, LoadMeans, Querying
<1>2. ASSUME NEW c, NEW rs \in Some(Result), NEW accs \in Some(Types), StartLoad(c, rs, accs)
      PROVE  FALSE
  <2>1. load' = [NoLoad EXCEPT !.stage = "get", !.retained = rs, !.retainedAccounts = accs]
    BY <1>2 DEF StartLoad
  <2>2. load'.stage = "get"
    BY <2>1, NoLoadTyped DEF NoLoad, Loads
  <2> QED
    BY <1>1, <2>2
<1>3. ASSUME NEW c \in Connections, Connect(c)
      PROVE  FALSE
  <2>1. /\ results \in Some(Result) /\ Displayed \in Some(Types) /\ Built(config, live) \in Some(Types)
        /\ Nothing \in Some(Result)
    BY <1>1, DisplayedTyped, NothingProperties DEF SessionTypeOK
  <2>2. StartLoad(c, results, Displayed) \/ StartLoad(c, Nothing, Built(config, live))
    BY <1>3 DEF Connect
  <2> QED
    BY <1>2, <2>1, <2>2
<1>4. ASSUME NEW c \in Connections \cup {None}, Reopen(c)
      PROVE  FALSE
  <2>1. CASE c # None
    <3>1. load' = [NoLoad EXCEPT !.stage = "get"]
      BY <1>4, <2>1 DEF Reopen
    <3>2. load'.stage = "get"
      BY <3>1 DEF NoLoad
    <3> QED
      BY <1>1, <3>2
  <2>2. CASE c = None
    <3>1. \A x \in live : config[x] = None
      BY <1>1, <1>4 DEF Reopen, SessionTypeOK
    <3>2. config \in Mapping /\ live \in SUBSET Accounts
      BY <1>1 DEF SessionTypeOK
    <3>3. PICK accs \in Some(Types) : accs = Built(config, live) /\ DOMAIN accs = {x \in live : config[x] # None}
      BY <3>2, BuiltProperties
    <3>4. DOMAIN accs = {}
      BY <3>1, <3>3
    <3>5. accs = Nothing
      BY <3>4, OnlyNothingIsEmpty
    <3> QED
      BY <1>1, <3>3, <3>5 DEF QueryMeans
  <2> QED
    BY <2>1, <2>2
<1>5. ASSUME NEW d \in digests, ReadArrives(d)
      PROVE  FALSE
  <2>1. load.stage = "read" /\ load' = NoLoad
    BY <1>1, <1>5 DEF ReadArrives, DigestMeans
  <2> QED
    BY <2>1, NoLoadTyped
<1>6. ASSUME NEW m \in Mapping, NEW how, SaveEnds(m, how)
      PROVE  FALSE
  BY <1>6 DEF SaveEnds
<1>7. ASSUME NEW v, SwitchView(v)
      PROVE  FALSE
  BY <1>7 DEF SwitchView
<1>8. ~Reconnect
  BY DEF Reconnect, data
<1>9. ~(LoadGetServed \/ LoadApplied \/ LoadFails)
  BY DEF LoadGetServed, LoadApplied, LoadFails, data
<1>10. ~ \E d \in digests : PreviewArrives(d) \/ PersistArrives(d)
  BY <1>1 DEF PreviewArrives, PersistArrives, data
<1>11. ~(SnapshotExpires \/ Refresh \/ QueryFails \/ AskManual \/ ManualAnswered)
  BY DEF SnapshotExpires, Refresh, QueryFails, AskManual, ManualAnswered, data
<1>12. ~ \E c \in Connections : \E x \in Accounts : \E t \in Types \cup {None} : RemoteChange(c, x, t)
  BY DEF RemoteChange, data
<1>13. QueryAnswered
  BY <1>3, <1>4, <1>5, <1>6, <1>7, <1>8, <1>9, <1>10, <1>11, <1>12 DEF Next
<1> QED
  BY <1>13, AnswerResults

\* The answer to a query never takes away a success that is in view, unless a
\* load has put it there since the query began.
THEOREM SuccessesStay == Spec => SuccessesSurviveQueries
<1> DEFINE Keeps ==
      /\ Querying /\ query' = NoQuery /\ results' # results /\ load' = load /\ config' = config
      /\ ~query.restored
      => \A a \in Match(results, Over(query.accounts, preview)) :
           results[a].ok => a \in DOMAIN results' /\ results'[a].ok
<1>1. SessionInv /\ [Next]_vars => [Keeps]_vars
  BY StepKeepsSuccesses
<1> HIDE DEF Keeps
<1>2. Spec => [][Keeps]_vars
  BY <1>1, SessionInvHolds, PTL DEF Spec
<1> QED
  BY <1>2 DEF SuccessesSurviveQueries, Keeps
===============================================================================
