--------------------------- MODULE SettingsSyncProofs ---------------------------
(***************************************************************************)
(* Proofs that the dashboard's saves keep what users typed and what others *)
(* stored, for any number of pages, providers and values, any faults and   *)
(* any order of requests.                                                  *)
(***************************************************************************)
EXTENDS SettingsSync, FiniteSetTheorems, TLAPS

-------------------------------------------------------------------------------
(* The inductive invariant *)

\* The stages that come after the merge of the submitted draft.
Merged == {"patch", "patched", "confirm", "apply", "applied", "recheck", "reapply", "reapplied"}

\* A page in view has a configuration and a draft of it, and a load that is
\* under way goes with neither a save nor the settings' view.
PageMeans(p) ==
  /\ config[p] = None <=> draft[p] = None
  /\ ready[p] => config[p] # None
  /\ load[p].stage # "idle" => ~ready[p] /\ save[p].stage = "idle"
  /\ load[p].stage \in {"apply", "applied"} => load[p].config \in Config

\* A save knows what its page takes for saved, and has something to do.  What
\* it merged has all the changes of the user, and as long as it has not written
\* it, is the merge with something that was stored since, which it did not
\* conflict with.
SaveMeans(p) ==
  LET s == save[p]
  IN  /\ s.stage # "idle" =>
           /\ s.base \in Config /\ s.sub \in Config
           /\ config[p] = s.base
           /\ s.base # s.sub \/ failed[p]
      /\ s.stage \in Merged =>
           /\ s.next \in Config
           /\ \A i \in Items : s.sub[i] # s.base[i] => s.next[i] = s.sub[i]
           /\ stored \in held[p]
      /\ s.stage = "patch" =>
           \E c \in held[p] : /\ ~Conflicts(c, s.base, s.sub)
                              /\ s.next = mergeSubmittedConfig(c, s.base, s.sub)
      /\ s.stage = "reapply" => s.latest \in Config

\* What a user typed is in the draft.  If it is what the save under way
\* submitted, then the save changes that item.
WishMeans(p) ==
  \A i \in Items : wish[p][i] # None =>
    /\ draft[p][i] = wish[p][i]
    /\ save[p].stage # "idle" /\ wish[p][i] = save[p].sub[i] => save[p].sub[i] # save[p].base[i]

PageInv(p) ==
  /\ PageMeans(p)
  /\ SaveMeans(p)
  /\ WishMeans(p)
  /\ saving[p] <=> save[p].stage # "idle"

Outsiders == used["foreign"] + used["late"] + used["loss"]

\* Without outsiders a save past its lock holds the lock, and what is stored
\* stays as long as it relies on that.
LockProtects ==
  Outsiders = 0 =>
    \A p \in Pages :
      /\ save[p].stage \notin {"idle", "lock"} => lock = p
      /\ save[p].stage \in {"patch", "apply", "applied", "recheck"} => held[p] = {stored}

SyncInv ==
  /\ SyncTypeOK
  /\ \A p \in Pages : PageInv(p)
  /\ lock # None => saving[lock]
  /\ LockProtects

-------------------------------------------------------------------------------
(* Configurations and drafts *)

\* None is no configuration and no draft, and no value of an item.
LEMMA NoneApart ==
  /\ None \notin Drafts /\ None \notin Pages
  /\ \A i \in Items : None \notin Typed(i)
BY SyncAssumption

\* A configuration is a draft of itself.
LEMMA ConfigIsDraft == Config \subseteq Drafts
<1> SUFFICES ASSUME NEW c \in Config PROVE c \in Drafts
  OBVIOUS
<1>1. \A i \in Items : c[i] \in Typed(i)
  BY DEF Config, Typed
<1>2. c \in [Items -> UNION {Typed(i) : i \in Items}]
  BY <1>1 DEF Config
<1> QED
  BY <1>1, <1>2 DEF Drafts

\* None is not a configuration, so that a page that has none is told apart.
LEMMA NoneIsNoConfig == None \notin Config
BY NoneApart, ConfigIsDraft

\* A draft that validateTTL accepts can be stored.
LEMMA ValidIsConfig ==
  ASSUME NEW d \in Drafts, Valid(d)
  PROVE  d \in Config
<1>1. \A i \in Items : d[i] \in Domain[i]
  <2> TAKE i \in Items
  <2>1. d[i] \in Typed(i)
    BY DEF Drafts
  <2> QED
    BY <2>1 DEF Typed, Valid
<1>2. d \in [Items -> UNION {Domain[i] : i \in Items}]
  BY <1>1 DEF Drafts
<1> QED
  BY <1>1, <1>2 DEF Config

\* A configuration is a valid value for each item, and so is a draft.
LEMMA ConfigByItem ==
  ASSUME NEW F, F = [i \in Items |-> F[i]], \A i \in Items : F[i] \in Domain[i]
  PROVE  F \in Config
BY DEF Config

\* A draft is a value as typed for each item.
LEMMA DraftByItem ==
  ASSUME NEW F, F = [i \in Items |-> F[i]], \A i \in Items : F[i] \in Typed(i)
  PROVE  F \in Drafts
BY DEF Drafts

\* What a configuration has for each item.
LEMMA ItemsOfConfig ==
  ASSUME NEW c \in Config
  PROVE  /\ c = [i \in Items |-> c[i]] /\ DOMAIN c = Items
         /\ \A i \in Items : c[i] \in Domain[i]
BY DEF Config

\* What a draft has for each item.
LEMMA ItemsOfDraft ==
  ASSUME NEW d \in Drafts
  PROVE  /\ d = [i \in Items |-> d[i]] /\ DOMAIN d = Items
         /\ \A i \in Items : d[i] \in Typed(i)
BY DEF Drafts

\* mergeSubmittedConfig gives a configuration with all the user's changes.
LEMMA MergeProperties ==
  ASSUME NEW latest \in Config, NEW base \in Config, NEW sub \in Config
  PROVE  /\ mergeSubmittedConfig(latest, base, sub) \in Config
         /\ \A i \in Items : mergeSubmittedConfig(latest, base, sub)[i]
                               = IF sub[i] # base[i] THEN sub[i] ELSE latest[i]
<1> DEFINE m == mergeSubmittedConfig(latest, base, sub)
<1>1. \A i \in Items : m[i] = IF sub[i] # base[i] THEN sub[i] ELSE latest[i]
  BY DEF mergeSubmittedConfig, submittedConfigChanges
<1>2. m = [i \in Items |-> m[i]]
  BY DEF mergeSubmittedConfig
<1>3. \A i \in Items : m[i] \in Domain[i]
  BY <1>1, ItemsOfConfig
<1> HIDE DEF m
<1>4. m \in Config
  BY <1>2, <1>3, ConfigByItem
<1> QED
  BY <1>1, <1>4 DEF m

\* rebaseDraftMappings gives a draft.
LEMMA RebaseProperties ==
  ASSUME NEW next \in Config, NEW sub \in Config, NEW current \in Drafts
  PROVE  /\ rebaseDraftMappings(next, sub, current) \in Drafts
         /\ \A i \in Items : rebaseDraftMappings(next, sub, current)[i]
                               = IF current[i] = sub[i] THEN next[i] ELSE current[i]
<1> DEFINE m == rebaseDraftMappings(next, sub, current)
<1>1. \A i \in Items : m[i] = IF current[i] = sub[i] THEN next[i] ELSE current[i]
  BY DEF rebaseDraftMappings
<1>2. m = [i \in Items |-> m[i]]
  BY DEF rebaseDraftMappings
<1>3. \A i \in Items : m[i] \in Typed(i)
  BY <1>1, ItemsOfConfig, ItemsOfDraft DEF Typed
<1> HIDE DEF m
<1>4. m \in Drafts
  BY <1>2, <1>3, DraftByItem
<1> QED
  BY <1>1, <1>4 DEF m

\* What a PATCH leaves is a configuration: part of its body, part of what was
\* stored.
LEMMA PatchedProperties ==
  ASSUME stored \in Config, NEW body \in Config, NEW items
  PROVE  Patched(items, body) \in Config
<1> DEFINE m == Patched(items, body)
<1>1. m = [i \in Items |-> m[i]] /\ \A i \in Items : m[i] \in Domain[i]
  BY ItemsOfConfig DEF Patched
<1> HIDE DEF m
<1>2. m \in Config
  BY <1>1, ConfigByItem
<1> QED
  BY <1>2 DEF m

\* One item of a configuration, or of a draft, is changed.
LEMMA ItemWritten ==
  ASSUME NEW c \in Config, NEW i \in Items, NEW v \in Domain[i]
  PROVE  [c EXCEPT ![i] = v] \in Config
<1> DEFINE m == [c EXCEPT ![i] = v]
<1>1. m = [j \in Items |-> m[j]] /\ \A j \in Items : m[j] \in Domain[j]
  BY ItemsOfConfig
<1> HIDE DEF m
<1>2. m \in Config
  BY <1>1, ConfigByItem
<1> QED
  BY <1>2 DEF m

\* An edit of one item leaves a draft.
LEMMA ItemTyped ==
  ASSUME NEW d \in Drafts, NEW i \in Items, NEW v \in Typed(i)
  PROVE  [d EXCEPT ![i] = v] \in Drafts
<1> DEFINE m == [d EXCEPT ![i] = v]
<1>1. m = [j \in Items |-> m[j]] /\ \A j \in Items : m[j] \in Typed(j)
  BY ItemsOfDraft
<1> HIDE DEF m
<1>2. m \in Drafts
  BY <1>1, DraftByItem
<1> QED
  BY <1>2 DEF m

-------------------------------------------------------------------------------
(* How a save goes on, or ends *)

\* The types of what pages keep, and of the rest.
PagesTyped ==
  /\ lock \in Pages \cup {None}
  /\ config \in [Pages -> Config \cup {None}]
  /\ draft \in [Pages -> Drafts \cup {None}]
  /\ ready \in [Pages -> BOOLEAN]
  /\ failed \in [Pages -> BOOLEAN]
  /\ saving \in [Pages -> BOOLEAN]
  /\ save \in [Pages -> Saves]
  /\ load \in [Pages -> Loads]
  /\ wish \in [Pages -> [Items -> (UNION {Typed(i) : i \in Items}) \cup {None}]]
  /\ held \in [Pages -> SUBSET Config]

HostTyped ==
  /\ stored \in Config /\ runtime \in Config
  /\ reloadDue \in BOOLEAN
  /\ late \subseteq Requests
  /\ used \in [Bounded -> Nat]

\* The types are those of the pages and those of the rest.
LEMMA TypesSplit == (SyncTypeOK <=> PagesTyped /\ HostTyped) /\ (SyncTypeOK' <=> PagesTyped' /\ HostTyped')
BY DEF SyncTypeOK, PagesTyped, HostTyped

\* The invariants of another page only see that page's state, and that it
\* notes whatever is stored.
OfPage(q) == <<config[q], draft[q], ready[q], failed[q], saving[q], save[q], load[q], wish[q]>>

Unseen(q) == stored' = stored /\ held'[q] = held[q]

\* A page whose state stays keeps its invariant, if what is stored stays or is noted.
LEMMA PageStands ==
  ASSUME SyncTypeOK, NEW q \in Pages, PageInv(q), OfPage(q)' = OfPage(q), Unseen(q) \/ Store(stored')
  PROVE  PageInv(q)'
<1> DEFINE s == save[q]
<1>1. /\ config'[q] = config[q] /\ draft'[q] = draft[q] /\ ready'[q] = ready[q]
      /\ failed'[q] = failed[q] /\ saving'[q] = saving[q] /\ save'[q] = save[q]
      /\ load'[q] = load[q] /\ wish'[q] = wish[q]
  BY DEF OfPage
<1>2. PageMeans(q)'
  BY <1>1 DEF PageInv, PageMeans
<1>3. WishMeans(q)'
  BY <1>1 DEF PageInv, WishMeans
<1>4. s.stage \in Merged => held[q] \subseteq held'[q] /\ stored' \in held'[q]
  BY DEF PageInv, SaveMeans, Unseen, Store
<1>5. SaveMeans(q)'
  <2>1. s.stage \in Merged =>
           /\ s.next \in Config
           /\ \A i \in Items : s.sub[i] # s.base[i] => s.next[i] = s.sub[i]
           /\ stored' \in held'[q]
    BY <1>4 DEF PageInv, SaveMeans
  <2>2. s.stage = "patch" =>
           \E c \in held'[q] : /\ ~Conflicts(c, s.base, s.sub)
                               /\ s.next = mergeSubmittedConfig(c, s.base, s.sub)
    BY <1>4 DEF PageInv, SaveMeans, Merged
  <2>3. /\ s.stage # "idle" =>
             s.base \in Config /\ s.sub \in Config /\ config'[q] = s.base /\ (s.base # s.sub \/ failed'[q])
        /\ s.stage = "reapply" => s.latest \in Config
    BY <1>1 DEF PageInv, SaveMeans
  <2> HIDE DEF s
  <2>4. save'[q] = s
    BY <1>1 DEF s
  <2> QED
    BY <2>1, <2>2, <2>3, <2>4 DEF SaveMeans
<1> QED
  BY <1>1, <1>2, <1>3, <1>5 DEF PageInv

\* What a save may have left of its page when it failed.
LEMMA SaveEnds ==
  ASSUME SyncTypeOK, NEW p \in Pages, PageInv(p), save[p].stage # "idle",
         NEW kind, NEW persisted \in BOOLEAN, persisted => save[p].stage \in Merged,
         Fails(p, kind, persisted)
  PROVE  PagesTyped' /\ PageInv(p)'
<1> DEFINE s == save[p]  next == s.next  sub == s.sub  d == rebaseDraftMappings(next, sub, draft[p])
<1>0. /\ config[p] \in Config /\ draft[p] \in Drafts /\ sub \in Config
      /\ s.stage \in Merged =>
           next \in Config /\ \A i \in Items : sub[i] # s.base[i] => next[i] = sub[i]
      /\ load[p].stage = "idle"
  BY NoneIsNoConfig DEF SyncTypeOK, PageInv, PageMeans, SaveMeans
<1>1. s.stage \in Merged =>
        /\ d \in Drafts
        /\ \A i \in Items : d[i] = IF draft[p][i] = sub[i] THEN next[i] ELSE draft[p][i]
  BY <1>0, RebaseProperties
<1>2. /\ save'[p] = NoSave /\ saving'[p] = FALSE
      /\ load' = load /\ wish' = wish
      /\ lock' = IF lock = p THEN None ELSE lock
      /\ \/ UNCHANGED pageVars
         \/ /\ s.stage \in Merged
            /\ config' = [config EXCEPT ![p] = next]
            /\ draft' = [draft EXCEPT ![p] = d]
            /\ failed' = [failed EXCEPT ![p] = kind # "auth"]
            /\ ready' = [ready EXCEPT ![p] = kind # "auth"]
  BY DEF Fails, Idle, Adopt, SyncTypeOK
<1>3. NoSave \in Saves
  BY DEF NoSave, Saves, SaveStages
<1>4. /\ save' \in [Pages -> Saves] /\ saving' \in [Pages -> BOOLEAN]
      /\ held' \in [Pages -> SUBSET Config]
  BY <1>3 DEF Fails, Idle, SyncTypeOK
<1>5. /\ config' \in [Pages -> Config \cup {None}] /\ draft' \in [Pages -> Drafts \cup {None}]
      /\ ready' \in [Pages -> BOOLEAN] /\ failed' \in [Pages -> BOOLEAN]
  <2> HIDE DEF s, next, d
  <2>1. CASE UNCHANGED pageVars
    BY <2>1 DEF SyncTypeOK, pageVars
  <2>2. CASE ~UNCHANGED pageVars
    <3>1. /\ next \in Config /\ d \in Drafts
          /\ config' = [config EXCEPT ![p] = next] /\ draft' = [draft EXCEPT ![p] = d]
      BY <2>2, <1>0, <1>1, <1>2
    <3>2. /\ config' \in [Pages -> Config \cup {None}]
          /\ draft' \in [Pages -> Drafts \cup {None}]
      BY <3>1 DEF SyncTypeOK
    <3> DEFINE mine == (kind # "auth")
    <3>3. mine \in BOOLEAN
      OBVIOUS
    <3>4. failed' = [failed EXCEPT ![p] = mine] /\ ready' = [ready EXCEPT ![p] = mine]
      BY <2>2, <1>2
    <3> HIDE DEF mine
    <3>5. ready' \in [Pages -> BOOLEAN] /\ failed' \in [Pages -> BOOLEAN]
      BY <3>3, <3>4 DEF SyncTypeOK
    <3> QED
      BY <3>2, <3>5
  <2> QED
    BY <2>1, <2>2
<1>6. PagesTyped'
  BY <1>2, <1>4, <1>5 DEF PagesTyped, SyncTypeOK
<1>7. save'[p].stage = "idle"
  BY <1>2 DEF NoSave
<1>8. SaveMeans(p)'
  BY <1>7 DEF SaveMeans, Merged
<1>9. PageMeans(p)' /\ WishMeans(p)'
  <2>1. CASE UNCHANGED pageVars
    BY <2>1, <1>2, <1>7, <1>0 DEF PageMeans, WishMeans, PageInv, pageVars
  <2>2. CASE ~UNCHANGED pageVars
    <3>1. /\ s.stage \in Merged
          /\ config'[p] = next /\ draft'[p] = d
      BY <2>2, <1>2 DEF SyncTypeOK
    <3>2. next \in Config /\ d \in Drafts
      BY <3>1, <1>0, <1>1
    <3>3. PageMeans(p)'
      BY <3>1, <3>2, <1>0, <1>2, NoneApart, NoneIsNoConfig DEF PageMeans
    <3>4. \A i \in Items : wish[p][i] # None => d[i] = wish[p][i]
      BY <3>1, <1>0, <1>1 DEF PageInv, WishMeans
    <3>5. WishMeans(p)'
      BY <3>1, <3>4, <1>2, <1>7 DEF WishMeans
    <3> QED
      BY <3>3, <3>5
  <2> QED
    BY <2>1, <2>2
<1> QED
  BY <1>2, <1>6, <1>7, <1>8, <1>9 DEF PageInv

\* A save goes on as s: all that is to be shown is that s means what it should.
LEMMA SaveGoesOn ==
  ASSUME SyncTypeOK, NEW p \in Pages, PageInv(p), save[p].stage # "idle",
         NEW s \in Saves, s.stage # "idle", s.base = save[p].base, s.sub = save[p].sub,
         save' = [save EXCEPT ![p] = s], UNCHANGED <<saving, load, wish, pageVars>>,
         s.stage \in Merged =>
           /\ s.next \in Config
           /\ \A i \in Items : s.sub[i] # s.base[i] => s.next[i] = s.sub[i]
           /\ stored' \in held'[p],
         s.stage = "patch" =>
           \E c \in held'[p] : /\ ~Conflicts(c, s.base, s.sub)
                               /\ s.next = mergeSubmittedConfig(c, s.base, s.sub),
         s.stage = "reapply" => s.latest \in Config,
         held' \in [Pages -> SUBSET Config], lock' \in Pages \cup {None}
  PROVE  PagesTyped' /\ PageInv(p)'
<1>1. save' \in [Pages -> Saves] /\ save'[p] = s
  BY DEF SyncTypeOK
<1>2. PagesTyped'
  BY <1>1 DEF PagesTyped, SyncTypeOK, pageVars
<1>3. PageMeans(p)' /\ WishMeans(p)'
  BY <1>1 DEF PageInv, PageMeans, WishMeans, pageVars
<1>4. s.base \in Config /\ s.sub \in Config /\ config'[p] = s.base /\ (s.base # s.sub \/ failed'[p])
  BY DEF PageInv, SaveMeans, pageVars
<1>5. SaveMeans(p)'
  BY <1>1, <1>4 DEF SaveMeans
<1> QED
  BY <1>1, <1>2, <1>3, <1>5 DEF PageInv

-------------------------------------------------------------------------------
(* The steps of a save *)

\* No save under way is a value of save.
LEMMA NoSaveTyped == NoSave \in Saves /\ NoSave.stage = "idle"
BY DEF NoSave, Saves, SaveStages

\* No load under way is a value of load.
LEMMA NoLoadTyped == NoLoad \in Loads /\ NoLoad.stage = "idle"
BY DEF NoLoad, Loads, LoadStages

\* A save at another stage.
LEMMA AtStage ==
  ASSUME NEW s \in Saves, NEW stage \in SaveStages, NEW t, t = [s EXCEPT !.stage = stage]
  PROVE  /\ t \in Saves /\ t.stage = stage /\ t.base = s.base /\ t.sub = s.sub
         /\ t.next = s.next /\ t.latest = s.latest
BY DEF Saves

\* The save of a page, as a member of its type.
LEMMA SaveTyped ==
  ASSUME SyncTypeOK, NEW p \in Pages
  PROVE  save[p] \in Saves
BY DEF SyncTypeOK

\* The requests that may come late are those of the type.
LEMMA InFlightTyped ==
  ASSUME SyncTypeOK, NEW p \in Pages, PageInv(p)
  PROVE  InFlight(p) \subseteq Requests /\ LoadInFlight(p) \subseteq Requests
<1>1. \A c \in Config : \A items \in SUBSET Items :
         Request("patch", c, items) \in Requests /\ Request("apply", c, items) \in Requests
  BY DEF Request, Requests
<1>2. Written(submittedConfigChanges(save[p].base, save[p].sub)) \subseteq Items
  BY DEF Written, submittedConfigChanges, Items
<1>3. InFlight(p) \subseteq Requests
  <2>1. /\ save[p].stage \in {"patch", "apply"} => save[p].next \in Config
        /\ save[p].stage = "reapply" => save[p].latest \in Config
    BY DEF PageInv, SaveMeans, Merged
  <2> QED
    BY <1>1, <1>2, <2>1 DEF InFlight
<1>4. LoadInFlight(p) \subseteq Requests
  <2>1. load[p].stage = "apply" => load[p].config \in Config
    BY DEF PageInv, PageMeans
  <2> QED
    BY <1>1, <2>1 DEF LoadInFlight
<1> QED
  BY <1>3, <1>4

\* Whatever is counted stays a number.
LEMMA SpendTyped ==
  ASSUME SyncTypeOK, NEW kind \in Bounded, Spend(kind)
  PROVE  used' \in [Bounded -> Nat] /\ \A k \in Bounded : used'[k] = IF k = kind THEN used[k] + 1 ELSE used[k]
BY DEF SyncTypeOK, Spend

\* ProceedIfOwner: the save goes on as s, or it ends.
LEMMA ProceedKeeps ==
  ASSUME SyncTypeOK, NEW p \in Pages, PageInv(p), save[p].stage # "idle",
         NEW s \in Saves, s.stage # "idle", s.base = save[p].base, s.sub = save[p].sub,
         NEW persisted \in BOOLEAN, persisted => save[p].stage \in Merged,
         NEW mark \in SUBSET Config, ProceedIfOwner(p, s, persisted, mark),
         s.stage \in Merged =>
           /\ s.next \in Config
           /\ \A i \in Items : s.sub[i] # s.base[i] => s.next[i] = s.sub[i]
           /\ stored' \in mark,
         s.stage = "patch" =>
           \E c \in mark : /\ ~Conflicts(c, s.base, s.sub)
                           /\ s.next = mergeSubmittedConfig(c, s.base, s.sub),
         s.stage = "reapply" => s.latest \in Config
  PROVE  PagesTyped' /\ PageInv(p)'
<1>1. CASE lock # p /\ Fails(p, "conflict", persisted)
  BY <1>1, SaveEnds
<1>2. CASE /\ lock = p
           /\ save' = [save EXCEPT ![p] = s]
           /\ held' = [held EXCEPT ![p] = mark]
           /\ UNCHANGED <<saving, lock, load, wish, pageVars>>
  <2>1. /\ held' \in [Pages -> SUBSET Config] /\ held'[p] = mark
        /\ lock' \in Pages \cup {None}
    BY <1>2 DEF SyncTypeOK
  <2>2. UNCHANGED <<saving, load, wish, pageVars>> /\ save' = [save EXCEPT ![p] = s]
    BY <1>2
  <2>3. /\ s.stage \in Merged =>
             /\ s.next \in Config
             /\ \A i \in Items : s.sub[i] # s.base[i] => s.next[i] = s.sub[i]
             /\ stored' \in held'[p]
        /\ s.stage = "patch" =>
             \E c \in held'[p] : /\ ~Conflicts(c, s.base, s.sub)
                                 /\ s.next = mergeSubmittedConfig(c, s.base, s.sub)
    BY <2>1
  <2> QED
    BY <2>1, <2>2, <2>3, SaveGoesOn
<1> QED
  BY <1>1, <1>2 DEF ProceedIfOwner

\* A save begins with the draft it submits and the configuration it was made from.
LEMMA BeginSaveKeeps ==
  ASSUME SyncTypeOK, NEW p \in Pages, PageInv(p), BeginSave(p)
  PROVE  PagesTyped' /\ PageInv(p)'
<1> DEFINE s == [NoSave EXCEPT !.stage = "lock", !.base = config[p], !.sub = draft[p]]
           w == [i \in Items |-> IF draft[p][i] # config[p][i] THEN draft[p][i] ELSE None]
<1>1. config[p] \in Config /\ draft[p] \in Drafts
  BY NoneIsNoConfig DEF BeginSave, SyncTypeOK, PageInv, PageMeans
<1>2. draft[p] \in Config
  BY <1>1, ValidIsConfig DEF BeginSave
<1>3. /\ s \in Saves /\ s.stage = "lock" /\ s.base = config[p] /\ s.sub = draft[p]
  BY <1>1, <1>2 DEF NoSave, Saves, SaveStages
<1>4. w \in [Items -> (UNION {Typed(i) : i \in Items}) \cup {None}]
  BY <1>1, ItemsOfDraft
<1>5. \A i \in Items : w[i] # None => draft[p][i] = w[i] /\ draft[p][i] # config[p][i]
  OBVIOUS
<1>6. /\ saving' = [saving EXCEPT ![p] = TRUE] /\ save' = [save EXCEPT ![p] = s]
      /\ wish' = [wish EXCEPT ![p] = w] /\ UNCHANGED <<lock, pageVars, load, held>>
      /\ ready[p] /\ (draft[p] # config[p] \/ failed[p])
  BY DEF BeginSave, Dirty
<1> HIDE DEF s, w
<1>7. PagesTyped'
  BY <1>3, <1>4, <1>6 DEF SyncTypeOK, PagesTyped, pageVars
<1>8. save'[p] = s /\ wish'[p] = w /\ saving'[p] = TRUE
  BY <1>6 DEF SyncTypeOK
<1>9. PageMeans(p)'
  BY <1>6, <1>8 DEF PageInv, PageMeans, pageVars
<1>10. SaveMeans(p)'
  BY <1>1, <1>2, <1>3, <1>6, <1>8 DEF SaveMeans, pageVars, Merged
<1>11. WishMeans(p)'
  BY <1>3, <1>5, <1>6, <1>8 DEF WishMeans, pageVars
<1> QED
  BY <1>3, <1>7, <1>8, <1>9, <1>10, <1>11 DEF PageInv

\* A save that has the lock goes on to read.
LEMMA TakeLockKeeps ==
  ASSUME SyncTypeOK, NEW p \in Pages, PageInv(p), TakeLock(p)
  PROVE  PagesTyped' /\ PageInv(p)'
<1> DEFINE s == To(p, "get")
<1>1. s \in Saves /\ s.stage = "get" /\ s.base = save[p].base /\ s.sub = save[p].sub
  BY SaveTyped, AtStage DEF SaveStages, To
<1>2. /\ save' = [save EXCEPT ![p] = s] /\ UNCHANGED <<saving, load, wish, pageVars>>
      /\ held' \in [Pages -> SUBSET Config] /\ lock' \in Pages \cup {None}
      /\ save[p].stage # "idle"
  BY DEF TakeLock, SyncTypeOK
<1> HIDE DEF s
<1> QED
  BY <1>1, <1>2, SaveGoesOn DEF Merged

\* A save that has read CPA's configuration merges its changes into that one.
LEMMA GetServedKeeps ==
  ASSUME SyncTypeOK, NEW p \in Pages, PageInv(p), GetServed(p)
  PROVE  PagesTyped' /\ PageInv(p)'
<1> DEFINE base == save[p].base  sub == save[p].sub
           m == mergeSubmittedConfig(stored, base, sub)
           s == [save[p] EXCEPT !.stage = "patch", !.next = m]
<1>1. save[p].stage = "get" /\ base \in Config /\ sub \in Config /\ stored \in Config
  BY DEF GetServed, PageInv, SaveMeans, SyncTypeOK
<1>2. m \in Config /\ \A i \in Items : sub[i] # base[i] => m[i] = sub[i]
  BY <1>1, MergeProperties
<1>3. CASE Conflicts(stored, base, sub) /\ Fails(p, "conflict", FALSE)
  BY <1>1, <1>3, SaveEnds
<1>4. CASE ~Conflicts(stored, base, sub) /\ ProceedIfOwner(p, s, FALSE, {stored})
  <2>1. stored' \in {stored}
    BY DEF GetServed
  <2> HIDE DEF m
  <2>2. /\ s \in Saves /\ s.stage = "patch" /\ s.base = base /\ s.sub = sub /\ s.next = m
    <3>1. PICK r \in Saves : r = save[p]
      BY SaveTyped
    <3>2. s = [r EXCEPT !.stage = "patch", !.next = m]
      BY <3>1
    <3> HIDE DEF s
    <3>3. s \in Saves /\ s.stage = "patch" /\ s.base = r.base /\ s.sub = r.sub /\ s.next = m
      BY <1>2, <3>2 DEF Saves, SaveStages
    <3> QED
      BY <3>1, <3>3
  <2>3. \E c \in {stored} : ~Conflicts(c, s.base, s.sub) /\ s.next = mergeSubmittedConfig(c, s.base, s.sub)
    BY <1>4, <2>2 DEF m
  <2> HIDE DEF s
  <2> QED
    BY <1>1, <1>2, <1>4, <2>1, <2>2, <2>3, ProceedKeeps
<1> QED
  BY <1>3, <1>4 DEF GetServed

\* What CPA stores at a save's request is a configuration, and is noted.
LEMMA PatchServedKeeps ==
  ASSUME SyncTypeOK, NEW p \in Pages, PageInv(p), PatchServed(p)
  PROVE  PagesTyped' /\ PageInv(p)' /\ stored' \in Config
<1> DEFINE s == To(p, "patched")  n == save[p].next
           c == Patched(Written(submittedConfigChanges(save[p].base, save[p].sub)), n)
<1>1. /\ save[p].stage = "patch" /\ n \in Config /\ stored \in held[p]
      /\ \A i \in Items : save[p].sub[i] # save[p].base[i] => n[i] = save[p].sub[i]
  BY DEF PatchServed, PageInv, SaveMeans, Merged
<1>2. c \in Config
  BY <1>1, PatchedProperties DEF SyncTypeOK
<1>3. /\ s \in Saves /\ s.stage = "patched" /\ s.base = save[p].base /\ s.sub = save[p].sub
      /\ s.next = n
  BY SaveTyped, AtStage DEF SaveStages, To
<1>4. /\ stored' = c /\ held' = [q \in Pages |-> IF held[q] = {} THEN {} ELSE held[q] \cup {c}]
      /\ save' = [save EXCEPT ![p] = s] /\ UNCHANGED <<saving, load, wish, pageVars>>
      /\ lock' \in Pages \cup {None}
  BY DEF PatchServed, Store, SyncTypeOK
<1> HIDE DEF s, c
<1>5. held' \in [Pages -> SUBSET Config] /\ stored' \in held'[p]
  BY <1>1, <1>2, <1>4 DEF SyncTypeOK
<1> QED
  BY <1>1, <1>2, <1>3, <1>4, <1>5, SaveGoesOn DEF Merged

\* An answer to a save moves it to its next stage only.
LEMMA AnswersKeep ==
  ASSUME SyncTypeOK, NEW p \in Pages, PageInv(p), PatchAnswered(p) \/ ApplyAnswered(p) \/ RecheckDiffers(p)
  PROVE  PagesTyped' /\ PageInv(p)'
<1>1. /\ save[p].stage \in {"patched", "applied", "recheck"}
      /\ save[p].next \in Config /\ stored \in held[p] /\ stored \in Config
      /\ held[p] \in SUBSET Config /\ stored' = stored
      /\ \A i \in Items : save[p].sub[i] # save[p].base[i] => save[p].next[i] = save[p].sub[i]
  BY DEF PatchAnswered, ApplyAnswered, RecheckDiffers, PageInv, SaveMeans, Merged, SyncTypeOK
<1>2. PICK s : /\ \/ s = To(p, "confirm") \/ s = To(p, "recheck")
                  \/ s = [save[p] EXCEPT !.stage = "reapply", !.latest = stored]
               /\ ProceedIfOwner(p, s, TRUE, held[p])
  BY DEF PatchAnswered, ApplyAnswered, RecheckDiffers
<1>3. /\ s \in Saves /\ s.stage \in {"confirm", "recheck", "reapply"}
      /\ s.base = save[p].base /\ s.sub = save[p].sub /\ s.next = save[p].next
      /\ s.stage = "reapply" => s.latest \in Config
  <2>1. CASE s = [save[p] EXCEPT !.stage = "reapply", !.latest = stored]
    <3>1. PICK r \in Saves : r = save[p]
      BY SaveTyped
    <3>2. s = [r EXCEPT !.stage = "reapply", !.latest = stored]
      BY <2>1, <3>1
    <3>3. /\ s \in Saves /\ s.stage = "reapply" /\ s.latest = stored
          /\ s.base = r.base /\ s.sub = r.sub /\ s.next = r.next
      BY <1>1, <3>2 DEF Saves, SaveStages
    <3> QED
      BY <1>1, <3>1, <3>3
  <2>2. CASE s = To(p, "confirm") \/ s = To(p, "recheck")
    BY <1>1, <2>2, SaveTyped, AtStage DEF SaveStages, To
  <2> QED
    BY <1>2, <2>1, <2>2
<1> QED
  BY <1>1, <1>2, <1>3, ProceedKeeps DEF Merged

\* A save that confirms what it wrote goes on with what is stored, or is over.
LEMMA ConfirmServedKeeps ==
  ASSUME SyncTypeOK, NEW p \in Pages, PageInv(p), ConfirmServed(p)
  PROVE  PagesTyped' /\ PageInv(p)'
<1> DEFINE s == [save[p] EXCEPT !.stage = "apply", !.next = stored]
           matches == configMatchesChanges(stored, save[p].next,
                                           submittedConfigChanges(save[p].base, save[p].sub))
<1>1. /\ save[p].stage = "confirm" /\ stored \in Config /\ stored' = stored
      /\ \A i \in Items : save[p].sub[i] # save[p].base[i] => save[p].next[i] = save[p].sub[i]
  BY DEF ConfirmServed, PageInv, SaveMeans, Merged, SyncTypeOK
<1>2. CASE matches /\ ProceedIfOwner(p, s, TRUE, {stored})
  <2>1. \A i \in Items : save[p].sub[i] # save[p].base[i] => stored[i] = save[p].sub[i]
    BY <1>1, <1>2 DEF configMatchesChanges, submittedConfigChanges
  <2>2. /\ s \in Saves /\ s.stage = "apply" /\ s.next = stored
        /\ s.base = save[p].base /\ s.sub = save[p].sub
    <3>1. PICK r \in Saves : r = save[p]
      BY SaveTyped
    <3>2. s = [r EXCEPT !.stage = "apply", !.next = stored]
      BY <3>1
    <3> HIDE DEF s
    <3>3. s \in Saves /\ s.stage = "apply" /\ s.base = r.base /\ s.sub = r.sub /\ s.next = stored
      BY <1>1, <3>2 DEF Saves, SaveStages
    <3> QED
      BY <3>1, <3>3
  <2>3. ProceedIfOwner(p, s, TRUE, {stored})
    BY <1>2
  <2> HIDE DEF s
  <2> QED
    BY <1>1, <2>1, <2>2, <2>3, ProceedKeeps DEF Merged
<1>3. CASE ~matches /\ Fails(p, "conflict", TRUE)
  BY <1>1, <1>3, SaveEnds DEF Merged
<1> QED
  BY <1>2, <1>3 DEF ConfirmServed

\* A save puts into effect a configuration that it has read.
LEMMA PostsKeep ==
  ASSUME SyncTypeOK, NEW p \in Pages, PageInv(p), ApplyServed(p) \/ ReapplyServed(p)
  PROVE  PagesTyped' /\ PageInv(p)' /\ runtime' \in Config
<1>1. /\ save[p].stage \in {"apply", "reapply"}
      /\ save[p].next \in Config /\ stored \in held[p] /\ stored \in Config
      /\ stored' = stored /\ lock' = lock /\ UNCHANGED <<saving, load, wish, pageVars>>
      /\ \A i \in Items : save[p].sub[i] # save[p].base[i] => save[p].next[i] = save[p].sub[i]
      /\ save[p].stage = "reapply" => save[p].latest \in Config
  BY DEF ApplyServed, ReapplyServed, PageInv, SaveMeans, Merged, SyncTypeOK
<1>2. runtime' \in Config
  BY <1>1 DEF ApplyServed, ReapplyServed
<1>3. held' \in [Pages -> SUBSET Config] /\ stored' \in held'[p]
  BY <1>1 DEF ApplyServed, ReapplyServed, SyncTypeOK
<1>4. PICK s : /\ s = To(p, "applied") \/ s = To(p, "reapplied")
               /\ save' = [save EXCEPT ![p] = s]
  BY DEF ApplyServed, ReapplyServed
<1>5. /\ s \in Saves /\ s.stage \in {"applied", "reapplied"}
      /\ s.base = save[p].base /\ s.sub = save[p].sub /\ s.next = save[p].next
  BY <1>1, <1>4, SaveTyped, AtStage DEF SaveStages, To
<1>6. lock' \in Pages \cup {None}
  BY <1>1 DEF SyncTypeOK
<1>7. PagesTyped' /\ PageInv(p)'
  BY <1>1, <1>3, <1>4, <1>5, <1>6, SaveGoesOn DEF Merged
<1> QED
  BY <1>2, <1>7

\* A save that ends without success leaves edits to be saved again.
LEMMA EndsKeep ==
  ASSUME SyncTypeOK, NEW p \in Pages, PageInv(p),
         LockRefused(p) \/ ReapplyAnswered(p) \/ SaveRefused(p) \/ SaveTimesOut(p)
  PROVE  PagesTyped' /\ PageInv(p)'
<1>1. \A stage \in SaveStages : Persisted(stage) \in BOOLEAN /\ (Persisted(stage) => stage \in Merged)
  BY DEF Persisted, Merged
<1>2. save[p].stage \in SaveStages
  BY SaveTyped DEF Saves
<1>3. PICK kind \in {"auth", "conflict", "error", "timeout"}, persisted \in BOOLEAN :
        Fails(p, kind, persisted) /\ (persisted => save[p].stage \in Merged) /\ save[p].stage # "idle"
  <2>1. CASE LockRefused(p)
    BY <2>1 DEF LockRefused
  <2>2. CASE ReapplyAnswered(p)
    BY <2>2 DEF ReapplyAnswered, Merged
  <2>3. CASE SaveRefused(p)
    BY <2>3, <1>1, <1>2 DEF SaveRefused
  <2>4. CASE SaveTimesOut(p)
    BY <2>4, <1>1, <1>2 DEF SaveTimesOut
  <2> QED
    BY <2>1, <2>2, <2>3, <2>4
<1> QED
  BY <1>3, SaveEnds

\* A save that succeeds settles what it submitted, and no edit made since.
LEMMA SaveSucceedsKeeps ==
  ASSUME SyncTypeOK, NEW p \in Pages, PageInv(p), SaveSucceeds(p)
  PROVE  PagesTyped' /\ PageInv(p)'
<1> DEFINE s == save[p]  next == s.next  sub == s.sub  d == rebaseDraftMappings(next, sub, draft[p])
<1>1. /\ config[p] \in Config /\ draft[p] \in Drafts /\ sub \in Config /\ next \in Config
      /\ \A i \in Items : sub[i] # s.base[i] => next[i] = sub[i]
      /\ s.stage = "recheck" /\ load[p].stage = "idle"
  BY NoneIsNoConfig DEF SaveSucceeds, SyncTypeOK, PageInv, PageMeans, SaveMeans, Merged
<1>2. /\ d \in Drafts
      /\ \A i \in Items : d[i] = IF draft[p][i] = sub[i] THEN next[i] ELSE draft[p][i]
  BY <1>1, RebaseProperties
<1>3. /\ save' = [save EXCEPT ![p] = NoSave] /\ saving' = [saving EXCEPT ![p] = FALSE]
      /\ held' = [held EXCEPT ![p] = {}]
      /\ load' = load /\ wish' = wish
      /\ lock' = IF lock = p THEN None ELSE lock
      /\ config' = [config EXCEPT ![p] = next] /\ draft' = [draft EXCEPT ![p] = d]
      /\ failed' = [failed EXCEPT ![p] = FALSE] /\ ready' = [ready EXCEPT ![p] = TRUE]
  BY DEF SaveSucceeds, Idle, Adopt
<1>4. \A i \in Items : wish[p][i] # None => d[i] = wish[p][i]
  BY <1>1, <1>2 DEF PageInv, WishMeans
<1> HIDE DEF s, next, sub, d
<1>5. PagesTyped'
  BY <1>1, <1>2, <1>3, NoSaveTyped DEF SyncTypeOK, PagesTyped
<1>6. /\ save'[p] = NoSave /\ saving'[p] = FALSE /\ config'[p] = next /\ draft'[p] = d
      /\ failed'[p] = FALSE /\ ready'[p] = TRUE
  BY <1>3 DEF SyncTypeOK
<1>7. PageMeans(p)'
  BY <1>1, <1>2, <1>3, <1>6, NoneApart, NoneIsNoConfig DEF PageMeans
<1>8. SaveMeans(p)'
  BY <1>6, NoSaveTyped DEF SaveMeans, Merged
<1>9. WishMeans(p)'
  BY <1>3, <1>4, <1>6, NoSaveTyped DEF WishMeans
<1> QED
  BY <1>5, <1>6, <1>7, <1>8, <1>9, NoSaveTyped DEF PageInv

-------------------------------------------------------------------------------
(* Loads and edits *)

\* A load begins by superseding the save under way.
LEMMA BeginLoadKeeps ==
  ASSUME SyncTypeOK, NEW p \in Pages, PageInv(p), BeginLoad(p)
  PROVE  PagesTyped' /\ PageInv(p)'
<1> DEFINE l == [stage |-> "get", config |-> None]
<1>1. l \in Loads /\ l.stage = "get"
  BY DEF Loads, LoadStages
<1>2. /\ save' = [save EXCEPT ![p] = NoSave] /\ saving' = [saving EXCEPT ![p] = FALSE]
      /\ held' = [held EXCEPT ![p] = {}] /\ load' = [load EXCEPT ![p] = l]
      /\ lock' = IF lock = p THEN None ELSE lock
      /\ failed' = [failed EXCEPT ![p] = FALSE] /\ ready' = [ready EXCEPT ![p] = FALSE]
      /\ UNCHANGED <<config, draft, wish>>
  BY DEF BeginLoad, CancelSave, Idle
<1> HIDE DEF l
<1>3. PagesTyped'
  BY <1>1, <1>2, NoSaveTyped DEF SyncTypeOK, PagesTyped
<1>4. /\ save'[p] = NoSave /\ saving'[p] = FALSE /\ load'[p] = l
      /\ ready'[p] = FALSE
  BY <1>2 DEF SyncTypeOK
<1>5. PageMeans(p)'
  BY <1>1, <1>2, <1>4, NoSaveTyped DEF PageMeans, PageInv
<1>6. SaveMeans(p)' /\ WishMeans(p)'
  BY <1>2, <1>4, NoSaveTyped DEF SaveMeans, Merged, WishMeans, PageInv
<1> QED
  BY <1>3, <1>4, <1>5, <1>6, NoSaveTyped DEF PageInv

\* A load goes on as l.
LEMMA LoadGoesOn ==
  ASSUME SyncTypeOK, NEW p \in Pages, PageInv(p), load[p].stage # "idle",
         NEW l \in Loads, l.stage \in {"apply", "applied"} => l.config \in Config,
         load' = [load EXCEPT ![p] = l],
         UNCHANGED <<lock, pageVars, saving, save, wish, held>>
  PROVE  PagesTyped' /\ PageInv(p)'
<1>1. PagesTyped' /\ load'[p] = l
  BY DEF SyncTypeOK, PagesTyped, pageVars
<1>2. PageMeans(p)'
  BY <1>1 DEF PageInv, PageMeans, pageVars
<1>3. SaveMeans(p)' /\ WishMeans(p)'
  BY DEF PageInv, PageMeans, SaveMeans, WishMeans, Merged, pageVars
<1> QED
  BY <1>1, <1>2, <1>3 DEF PageInv

\* A load ends with c in view.
LEMMA ShowsKeeps ==
  ASSUME SyncTypeOK, NEW p \in Pages, PageInv(p), load[p].stage # "idle",
         NEW c \in Config, NEW applyFailed \in BOOLEAN, Shows(p, c, applyFailed),
         UNCHANGED <<lock, saving, save, held>>
  PROVE  PagesTyped' /\ PageInv(p)'
<1>1. c \in Drafts
  BY ConfigIsDraft
<1>2. /\ load' = [load EXCEPT ![p] = NoLoad]
      /\ config' = [config EXCEPT ![p] = c] /\ draft' = [draft EXCEPT ![p] = c]
      /\ failed' = [failed EXCEPT ![p] = applyFailed] /\ ready' = [ready EXCEPT ![p] = TRUE]
      /\ wish' = [wish EXCEPT ![p] = NoWish]
  BY DEF Shows
<1>3. /\ NoWish \in [Items -> (UNION {Typed(i) : i \in Items}) \cup {None}]
      /\ \A i \in Items : NoWish[i] = None
  BY DEF NoWish
<1>4. PagesTyped'
  BY <1>1, <1>2, <1>3, NoLoadTyped DEF SyncTypeOK, PagesTyped
<1>5. /\ load'[p] = NoLoad /\ config'[p] = c /\ draft'[p] = c /\ ready'[p] = TRUE
      /\ wish'[p] = NoWish
  BY <1>2 DEF SyncTypeOK
<1>6. save[p].stage = "idle" /\ save' = save /\ saving' = saving
  BY DEF PageInv, PageMeans
<1>7. PageMeans(p)'
  BY <1>1, <1>5, NoLoadTyped, NoneIsNoConfig DEF PageMeans
<1>8. SaveMeans(p)' /\ WishMeans(p)'
  BY <1>3, <1>5, <1>6 DEF SaveMeans, WishMeans, Merged
<1> QED
  BY <1>4, <1>6, <1>7, <1>8 DEF PageInv

\* A load replaces the configuration in view only when it is done.
LEMMA LoadStepKeeps ==
  ASSUME SyncTypeOK, NEW p \in Pages, PageInv(p), LoadStep(p)
  PROVE  PagesTyped' /\ PageInv(p)' /\ runtime' \in Config /\ late' \subseteq Requests
<1>1. load[p] \in Loads /\ stored \in Config /\ runtime \in Config /\ late \subseteq Requests
  BY DEF SyncTypeOK
<1>2. load[p].stage \in {"apply", "applied"} => load[p].config \in Config
  BY DEF PageInv, PageMeans
<1>3. CASE LoadGetServed(p)
  <2> DEFINE l == [stage |-> "apply", config |-> stored]
  <2>1. l \in Loads /\ l.config \in Config
    BY <1>1 DEF Loads, LoadStages
  <2>2. /\ load[p].stage = "get" /\ load' = [load EXCEPT ![p] = l]
        /\ UNCHANGED <<runtime, late, lock, pageVars, saving, save, wish, held>>
    BY <1>3 DEF LoadGetServed
  <2> HIDE DEF l
  <2> QED
    BY <1>1, <2>1, <2>2, LoadGoesOn
<1>4. CASE LoadApplyServed(p)
  <2> DEFINE l == [load[p] EXCEPT !.stage = "applied"]
  <2>1. l \in Loads /\ l.config = load[p].config
    BY <1>1 DEF Loads, LoadStages
  <2>2. /\ load[p].stage = "apply" /\ load' = [load EXCEPT ![p] = l] /\ runtime' = load[p].config
        /\ UNCHANGED <<late, lock, pageVars, saving, save, wish, held>>
    BY <1>4 DEF LoadApplyServed, SyncTypeOK
  <2> HIDE DEF l
  <2> QED
    BY <1>1, <1>2, <2>1, <2>2, LoadGoesOn
<1>5. CASE LoadEnds(p)
  BY <1>1, <1>2, <1>5, ShowsKeeps DEF LoadEnds
<1>6. CASE LoadFails(p)
  <2>1. /\ UNCHANGED <<runtime, lock, saving, save, held>>
        /\ load[p].stage # "idle"
    BY <1>6 DEF LoadFails
  <2>2. late' \subseteq Requests
    BY <1>1, <1>6, InFlightTyped DEF LoadFails
  <2>3. CASE load' = [load EXCEPT ![p] = NoLoad] /\ UNCHANGED <<pageVars, wish>>
    BY <1>1, <2>1, <2>2, <2>3, NoLoadTyped, LoadGoesOn
  <2>4. CASE \E c \in Config : Shows(p, c, FALSE)
    BY <1>1, <2>1, <2>2, <2>4, ShowsKeeps
  <2>5. CASE load[p].stage \in {"apply", "applied"} /\ Shows(p, load[p].config, TRUE)
    BY <1>1, <1>2, <2>1, <2>2, <2>5, ShowsKeeps
  <2> QED
    BY <1>6, <2>3, <2>4, <2>5 DEF LoadFails
<1> QED
  BY <1>3, <1>4, <1>5, <1>6 DEF LoadStep

\* An edit is noted as a wish until it is undone.
LEMMA EditKeeps ==
  ASSUME SyncTypeOK, NEW p \in Pages, PageInv(p), NEW i \in Items, NEW v \in Typed(i), Edit(p, i, v)
  PROVE  PagesTyped' /\ PageInv(p)'
<1> DEFINE d == [draft[p] EXCEPT ![i] = v]
           x == IF Undoes(p, i, v) THEN None ELSE v
           w == [wish[p] EXCEPT ![i] = x]
<1>1. config[p] \in Config /\ draft[p] \in Drafts
  BY NoneIsNoConfig DEF Edit, SyncTypeOK, PageInv, PageMeans
<1>2. /\ d \in Drafts /\ d[i] = v /\ \A j \in Items : j # i => d[j] = draft[p][j]
  BY <1>1, ItemTyped, ItemsOfDraft
<1>3. x \in (UNION {Typed(j) : j \in Items}) \cup {None} /\ (x # None => x = v)
  OBVIOUS
<1>4. wish[p] \in [Items -> (UNION {Typed(j) : j \in Items}) \cup {None}]
  BY DEF SyncTypeOK
<1>5. x # None /\ save[p].stage # "idle" /\ x = save[p].sub[i] => save[p].sub[i] # save[p].base[i]
  BY DEF Undoes, PageInv, SaveMeans
<1>6. /\ draft' = [draft EXCEPT ![p] = d] /\ wish' = [wish EXCEPT ![p] = w]
      /\ UNCHANGED <<lock, config, ready, failed, saving, save, load, held>>
      /\ ready' = ready /\ stored' = stored
  <2> HIDE DEF x
  <2>1. draft' = [draft EXCEPT ![p][i] = v] /\ wish' = [wish EXCEPT ![p][i] = x]
    BY DEF Edit, x
  <2> QED
    BY <2>1 DEF Edit, SyncTypeOK
<1> HIDE DEF x
<1>7. /\ w \in [Items -> (UNION {Typed(j) : j \in Items}) \cup {None}]
      /\ w[i] = x /\ \A j \in Items : j # i => w[j] = wish[p][j]
  BY <1>3, <1>4
<1> HIDE DEF d, w
<1>8. PagesTyped' /\ draft'[p] = d /\ wish'[p] = w
  BY <1>2, <1>6, <1>7 DEF SyncTypeOK, PagesTyped
<1>9. PageMeans(p)'
  BY <1>1, <1>2, <1>6, <1>8, NoneApart, NoneIsNoConfig DEF PageInv, PageMeans
<1>10. SaveMeans(p)'
  BY <1>6 DEF PageInv, SaveMeans
<1>11. WishMeans(p)'
  <2>1. \A j \in Items : w[j] # None =>
          /\ d[j] = w[j]
          /\ save[p].stage # "idle" /\ w[j] = save[p].sub[j] => save[p].sub[j] # save[p].base[j]
    BY <1>2, <1>3, <1>5, <1>7 DEF PageInv, WishMeans
  <2> QED
    BY <1>6, <1>8, <2>1 DEF WishMeans
<1> QED
  BY <1>6, <1>8, <1>9, <1>10, <1>11 DEF PageInv

-------------------------------------------------------------------------------
(* Every step *)

\* What a page does, and what others do.
PageStep(p) ==
  \/ BeginSave(p) \/ SaveStep(p)
  \/ BeginLoad(p) \/ LoadStep(p)
  \/ \E i \in Items : \E v \in Typed(i) : Edit(p, i, v)

HostStep ==
  \/ \E i \in Items : \E v \in Domain[i] : ForeignWrite(i, v)
  \/ HostReload \/ LateRequest \/ LoseLock

\* Every step is one of a page or one of the rest.
LEMMA NextSplits == Next <=> (\E p \in Pages : PageStep(p)) \/ HostStep
BY DEF Next, PageStep, HostStep

\* No step of a page breaks its own invariant.
LEMMA PageStepKeeps ==
  ASSUME SyncTypeOK, NEW p \in Pages, PageInv(p), PageStep(p)
  PROVE  PagesTyped' /\ PageInv(p)'
<1>1. CASE SaveStep(p)
  BY <1>1, TakeLockKeeps, GetServedKeeps, PatchServedKeeps, AnswersKeep, ConfirmServedKeeps, PostsKeep,
     EndsKeep, SaveSucceedsKeeps DEF SaveStep
<1>2. CASE \E i \in Items : \E v \in Typed(i) : Edit(p, i, v)
  BY <1>2, EditKeeps
<1> QED
  BY <1>1, <1>2, BeginSaveKeeps, BeginLoadKeeps, LoadStepKeeps DEF PageStep

\* A page's step leaves other pages alone, but for what it stores.
LEMMA OthersStand ==
  ASSUME SyncTypeOK, NEW p \in Pages, PageStep(p), NEW q \in Pages, q # p
  PROVE  OfPage(q)' = OfPage(q) /\ (Unseen(q) \/ Store(stored'))
<1>1. ASSUME NEW kind, NEW persisted, Fails(p, kind, persisted), stored' = stored
      PROVE  OfPage(q)' = OfPage(q) /\ Unseen(q)
  BY <1>1 DEF Fails, Idle, Adopt, pageVars, OfPage, Unseen, SyncTypeOK
<1>2. ASSUME NEW s, NEW persisted, NEW mark, ProceedIfOwner(p, s, persisted, mark), stored' = stored
      PROVE  OfPage(q)' = OfPage(q) /\ Unseen(q)
  BY <1>1, <1>2 DEF ProceedIfOwner, pageVars, OfPage, Unseen, SyncTypeOK
<1>3. CASE BeginSave(p)
  BY <1>3 DEF BeginSave, pageVars, OfPage, Unseen, SyncTypeOK
<1>4. CASE SaveStep(p)
  <2>1. CASE TakeLock(p)
    BY <2>1 DEF TakeLock, pageVars, OfPage, Unseen, SyncTypeOK
  <2>2. CASE LockRefused(p)
    BY <2>2, <1>1 DEF LockRefused
  <2>3. CASE GetServed(p)
    BY <2>3, <1>1, <1>2 DEF GetServed
  <2>4. CASE PatchServed(p)
    <3>1. Store(stored')
      BY <2>4 DEF PatchServed, Store
    <3>2. OfPage(q)' = OfPage(q)
      BY <2>4 DEF PatchServed, pageVars, OfPage, SyncTypeOK
    <3> QED
      BY <3>1, <3>2
  <2>5. CASE PatchAnswered(p)
    BY <2>5, <1>2 DEF PatchAnswered
  <2>6. CASE ConfirmServed(p)
    BY <2>6, <1>1, <1>2 DEF ConfirmServed
  <2>7. CASE ApplyServed(p)
    BY <2>7 DEF ApplyServed, pageVars, OfPage, Unseen, SyncTypeOK
  <2>8. CASE ApplyAnswered(p)
    BY <2>8, <1>2 DEF ApplyAnswered
  <2>9. CASE SaveSucceeds(p)
    BY <2>9 DEF SaveSucceeds, Idle, Adopt, OfPage, Unseen, SyncTypeOK
  <2>10. CASE RecheckDiffers(p)
    BY <2>10, <1>2 DEF RecheckDiffers
  <2>11. CASE ReapplyServed(p)
    BY <2>11 DEF ReapplyServed, pageVars, OfPage, Unseen, SyncTypeOK
  <2>12. CASE ReapplyAnswered(p)
    BY <2>12, <1>1 DEF ReapplyAnswered
  <2>13. CASE SaveRefused(p)
    BY <2>13, <1>1 DEF SaveRefused
  <2>14. CASE SaveTimesOut(p)
    BY <2>14, <1>1 DEF SaveTimesOut
  <2> QED
    BY <1>4, <2>1, <2>2, <2>3, <2>4, <2>5, <2>6, <2>7, <2>8, <2>9, <2>10, <2>11, <2>12, <2>13, <2>14 DEF SaveStep
<1>5. CASE BeginLoad(p)
  BY <1>5 DEF BeginLoad, CancelSave, Idle, OfPage, Unseen, SyncTypeOK
<1>6. CASE LoadStep(p)
  <2>1. ASSUME NEW c, NEW applyFailed, Shows(p, c, applyFailed), UNCHANGED <<stored, saving, save, held>>
        PROVE  OfPage(q)' = OfPage(q) /\ Unseen(q)
    BY <2>1 DEF Shows, OfPage, Unseen, SyncTypeOK
  <2>2. CASE LoadGetServed(p) \/ LoadApplyServed(p)
    BY <2>2 DEF LoadGetServed, LoadApplyServed, pageVars, OfPage, Unseen, SyncTypeOK
  <2>3. CASE LoadEnds(p)
    BY <2>1, <2>3 DEF LoadEnds
  <2>4. CASE LoadFails(p)
    <3>1. CASE load' = [load EXCEPT ![p] = NoLoad] /\ UNCHANGED <<pageVars, wish, late>>
      BY <2>4, <3>1 DEF LoadFails, pageVars, OfPage, Unseen, SyncTypeOK
    <3>2. CASE \E c, applyFailed : Shows(p, c, applyFailed)
      BY <2>1, <2>4, <3>2 DEF LoadFails
    <3> QED
      BY <2>4, <3>1, <3>2 DEF LoadFails
  <2> QED
    BY <1>6, <2>2, <2>3, <2>4 DEF LoadStep
<1>7. CASE \E i \in Items : \E v \in Typed(i) : Edit(p, i, v)
  BY <1>7 DEF Edit, OfPage, Unseen, SyncTypeOK
<1> QED
  BY <1>3, <1>4, <1>5, <1>6, <1>7 DEF PageStep

\* What CPA does, and what is lost, leaves every page alone.
LEMMA PagesStand ==
  ASSUME SyncTypeOK, HostStep, NEW q \in Pages
  PROVE  OfPage(q)' = OfPage(q) /\ (Unseen(q) \/ Store(stored'))
<1>1. CASE \E i \in Items : \E v \in Domain[i] : ForeignWrite(i, v)
  BY <1>1 DEF ForeignWrite, Store, pageVars, OfPage
<1>2. CASE HostReload \/ LoseLock
  BY <1>2 DEF HostReload, LoseLock, Unseen, pageVars, OfPage
<1>3. CASE LateRequest
  BY <1>3 DEF LateRequest, Store, Unseen, pageVars, OfPage
<1> QED
  BY <1>1, <1>2, <1>3 DEF HostStep

\* Storing a configuration keeps the types of what the pages noted.
LEMMA StoreTyped ==
  ASSUME SyncTypeOK, NEW c \in Config, Store(c)
  PROVE  stored' \in Config /\ reloadDue' \in BOOLEAN /\ held' \in [Pages -> SUBSET Config]
BY DEF SyncTypeOK, Store

\* No step of CPA, the plugin or another client breaks a type.
LEMMA HostStepKeepsTypes ==
  ASSUME SyncTypeOK, HostStep
  PROVE  SyncTypeOK'
<1>1. CASE \E i \in Items : \E v \in Domain[i] : ForeignWrite(i, v)
  <2>1. PICK i \in Items : \E v \in Domain[i] : ForeignWrite(i, v)
    BY <1>1
  <2>2. PICK v \in Domain[i] : ForeignWrite(i, v)
    BY <2>1
  <2>3. [stored EXCEPT ![i] = v] \in Config
    BY ItemWritten DEF SyncTypeOK
  <2>4. stored' \in Config /\ reloadDue' \in BOOLEAN /\ held' \in [Pages -> SUBSET Config]
    BY <2>2, <2>3, StoreTyped DEF ForeignWrite
  <2>5. used' \in [Bounded -> Nat]
    BY <2>2, SpendTyped DEF ForeignWrite, Bounded
  <2> QED
    BY <2>2, <2>4, <2>5 DEF ForeignWrite, SyncTypeOK, pageVars
<1>2. CASE HostReload
  BY <1>2 DEF HostReload, SyncTypeOK, pageVars
<1>3. CASE LoseLock
  <2>1. used' \in [Bounded -> Nat]
    BY <1>3, SpendTyped DEF LoseLock, Bounded
  <2> QED
    BY <1>3, <2>1 DEF LoseLock, SyncTypeOK, pageVars
<1>4. CASE LateRequest
  <2>1. PICK r \in late :
          /\ late' = late \ {r}
          /\ IF r.kind = "patch"
             THEN Store(Patched(r.items, r.body)) /\ UNCHANGED runtime
             ELSE runtime' = r.body /\ UNCHANGED <<stored, reloadDue, held>>
          /\ Spend("late")
          /\ UNCHANGED <<lock, pageVars, saving, save, load, wish>>
    BY <1>4 DEF LateRequest
  <2>2. r.body \in Config /\ late' \subseteq Requests
    BY <2>1 DEF SyncTypeOK, Requests
  <2>3. Patched(r.items, r.body) \in Config
    BY <2>2, PatchedProperties DEF SyncTypeOK
  <2>4. /\ stored' \in Config /\ reloadDue' \in BOOLEAN /\ held' \in [Pages -> SUBSET Config]
        /\ runtime' \in Config
    <3>1. CASE r.kind = "patch"
      <4>1. Store(Patched(r.items, r.body)) /\ runtime' = runtime
        BY <2>1, <3>1
      <4>2. stored' \in Config /\ reloadDue' \in BOOLEAN /\ held' \in [Pages -> SUBSET Config]
        BY <2>3, <4>1, StoreTyped
      <4> QED
        BY <4>1, <4>2 DEF SyncTypeOK
    <3>2. CASE r.kind # "patch"
      BY <2>1, <2>2, <3>2 DEF SyncTypeOK
    <3> QED
      BY <3>1, <3>2
  <2>5. used' \in [Bounded -> Nat]
    BY <2>1, SpendTyped DEF Bounded
  <2> QED
    BY <2>1, <2>2, <2>4, <2>5 DEF SyncTypeOK, pageVars
<1> QED
  BY <1>1, <1>2, <1>3, <1>4 DEF HostStep

\* No step of a page breaks a type of what CPA and the plugin keep.
LEMMA PageStepKeepsHost ==
  ASSUME SyncTypeOK, NEW p \in Pages, PageInv(p), PageStep(p)
  PROVE  HostTyped'
<1>0. HostTyped
  BY TypesSplit
<1>1. InFlight(p) \subseteq Requests /\ LoadInFlight(p) \subseteq Requests
  BY InFlightTyped
<1>2. CASE UNCHANGED <<stored, runtime, reloadDue, late, used>>
  BY <1>0, <1>2 DEF HostTyped
<1>3. CASE BeginSave(p)
  BY <1>2, <1>3 DEF BeginSave
<1>4. CASE SaveStep(p)
  <2>1. CASE PatchServed(p)
    BY <1>0, <2>1, PatchServedKeeps DEF PatchServed, Store, HostTyped
  <2>2. CASE ApplyServed(p)
    BY <1>0, <2>2, PostsKeep DEF ApplyServed, HostTyped
  <2>3. CASE ReapplyServed(p)
    BY <1>0, <2>3, PostsKeep DEF ReapplyServed, HostTyped
  <2>4. CASE SaveRefused(p)
    <3>1. used' \in [Bounded -> Nat]
      BY <2>4, SpendTyped DEF SaveRefused, Bounded
    <3> QED
      BY <1>0, <2>4, <3>1 DEF SaveRefused, HostTyped
  <2>5. CASE SaveTimesOut(p)
    <3>1. used' \in [Bounded -> Nat]
      BY <2>5, SpendTyped DEF SaveTimesOut, Bounded
    <3> QED
      BY <1>0, <1>1, <2>5, <3>1 DEF SaveTimesOut, HostTyped
  <2>6. CASE TakeLock(p) \/ LockRefused(p) \/ GetServed(p) \/ PatchAnswered(p) \/ ConfirmServed(p)
    BY <1>2, <2>6 DEF TakeLock, LockRefused, GetServed, PatchAnswered, ConfirmServed
  <2>7. CASE ApplyAnswered(p) \/ SaveSucceeds(p) \/ RecheckDiffers(p) \/ ReapplyAnswered(p)
    BY <1>2, <2>7 DEF ApplyAnswered, SaveSucceeds, RecheckDiffers, ReapplyAnswered
  <2> QED
    BY <1>4, <2>1, <2>2, <2>3, <2>4, <2>5, <2>6, <2>7 DEF SaveStep
<1>5. CASE BeginLoad(p)
  <2>1. used' \in [Bounded -> Nat]
    BY <1>5, SpendTyped DEF BeginLoad, Bounded
  <2> QED
    BY <1>0, <1>1, <1>5, <2>1 DEF BeginLoad, HostTyped
<1>6. CASE LoadStep(p)
  <2>1. used' \in [Bounded -> Nat]
    <3>1. CASE LoadFails(p)
      BY <3>1, SpendTyped DEF LoadFails, Bounded
    <3>2. CASE ~LoadFails(p)
      BY <1>0, <1>6, <3>2 DEF LoadStep, LoadGetServed, LoadApplyServed, LoadEnds, HostTyped
    <3> QED
      BY <3>1, <3>2
  <2>2. runtime' \in Config /\ late' \subseteq Requests
    BY <1>6, LoadStepKeeps
  <2>3. stored' = stored /\ reloadDue' = reloadDue
    BY <1>6 DEF LoadStep, LoadGetServed, LoadApplyServed, LoadEnds, LoadFails
  <2> QED
    BY <1>0, <2>1, <2>2, <2>3 DEF HostTyped
<1>7. CASE \E i \in Items : \E v \in Typed(i) : Edit(p, i, v)
  <2>1. UNCHANGED <<stored, runtime, reloadDue, late>> /\ Spend("edit")
    BY <1>7 DEF Edit
  <2>2. used' \in [Bounded -> Nat]
    BY <2>1, SpendTyped DEF Bounded
  <2> QED
    BY <1>0, <2>1, <2>2 DEF HostTyped
<1> QED
  BY <1>3, <1>4, <1>5, <1>6, <1>7 DEF PageStep

-------------------------------------------------------------------------------
(* The lock *)

\* The stages that rely on nothing being stored by others.
Relying == {"patch", "apply", "applied", "recheck"}

\* What a page's step does to its save and to the lock.
MovesSave(p) ==
  \/ /\ save'[p].stage = "idle" /\ stored' = stored
     /\ lock' = IF lock = p THEN None ELSE lock
  \/ save'[p].stage = "lock" /\ stored' = stored /\ lock' = lock
  \/ save'[p].stage = "get" /\ stored' = stored /\ lock = None /\ lock' = p
  \/ save'[p] = save[p] /\ stored' = stored /\ lock' = lock /\ held'[p] = held[p]
  \/ /\ save[p].stage \notin {"idle", "lock"} /\ save'[p].stage \in SaveStages \ {"idle", "lock"}
     /\ stored' = stored /\ lock' = lock
     /\ save'[p].stage \in Relying =>
          held'[p] = {stored} \/ (save[p].stage \in Relying /\ held'[p] = held[p])
  \/ save[p].stage = "patch" /\ save'[p].stage = "patched" /\ lock' = lock

\* A save that moves to a stage is at that stage.
LEMMA StagesNamed ==
  /\ NoSave.stage = "idle"
  /\ \A r \in Saves : \A stage \in SaveStages : [r EXCEPT !.stage = stage].stage = stage
BY DEF NoSave, Saves

\* How a step of a page moves its save.
LEMMA SavesMove ==
  ASSUME SyncTypeOK, NEW p \in Pages, PageStep(p)
  PROVE  MovesSave(p)
<1>0. save[p] \in Saves
  BY SaveTyped
<1>1. ASSUME NEW kind, NEW persisted, Fails(p, kind, persisted), stored' = stored
      PROVE  MovesSave(p)
  BY <1>1, StagesNamed DEF Fails, Idle, MovesSave, SyncTypeOK
<1>2. ASSUME NEW s, NEW persisted, NEW mark, ProceedIfOwner(p, s, persisted, mark), stored' = stored,
             save[p].stage \notin {"idle", "lock"}, s.stage \in SaveStages \ {"idle", "lock"},
             s.stage \in Relying => mark = {stored} \/ (save[p].stage \in Relying /\ mark = held[p])
      PROVE  MovesSave(p)
  <2>1. CASE lock # p /\ Fails(p, "conflict", persisted)
    BY <1>1, <1>2, <2>1
  <2>2. CASE /\ save' = [save EXCEPT ![p] = s] /\ held' = [held EXCEPT ![p] = mark] /\ lock' = lock
    <3>1. save'[p] = s /\ held'[p] = mark
      BY <2>2 DEF SyncTypeOK
    <3> QED
      BY <1>2, <2>2, <3>1 DEF MovesSave
  <2> QED
    BY <1>2, <2>1, <2>2 DEF ProceedIfOwner
<1>3. CASE BeginSave(p)
  <2>1. save'[p].stage = "lock" /\ stored' = stored /\ lock' = lock
    BY <1>3 DEF BeginSave, SyncTypeOK, NoSave
  <2> QED
    BY <2>1 DEF MovesSave
<1>4. CASE SaveStep(p)
  <2>1. CASE TakeLock(p)
    <3>1. save'[p] = [save[p] EXCEPT !.stage = "get"] /\ lock = None /\ lock' = p /\ stored' = stored
      BY <2>1 DEF TakeLock, SyncTypeOK, To
    <3>2. save'[p].stage = "get"
      BY <1>0, <3>1, StagesNamed DEF SaveStages
    <3> QED
      BY <3>1, <3>2 DEF MovesSave
  <2>2. CASE LockRefused(p) \/ ReapplyAnswered(p) \/ SaveRefused(p) \/ SaveTimesOut(p)
    <3>1. stored' = stored /\ \E kind, persisted : Fails(p, kind, persisted)
      BY <2>2 DEF LockRefused, ReapplyAnswered, SaveRefused, SaveTimesOut
    <3> QED
      BY <1>1, <3>1
  <2>3. CASE GetServed(p)
    <3> DEFINE m == mergeSubmittedConfig(stored, save[p].base, save[p].sub)
               s == [save[p] EXCEPT !.stage = "patch", !.next = m]
    <3>1. save[p].stage = "get" /\ stored' = stored
      BY <2>3 DEF GetServed
    <3>2. CASE Fails(p, "conflict", FALSE)
      BY <1>1, <3>1, <3>2
    <3>3. CASE ProceedIfOwner(p, s, FALSE, {stored})
      <4> HIDE DEF m
      <4>1. PICK r \in Saves : r = save[p]
        BY <1>0
      <4>2. s = [r EXCEPT !.stage = "patch", !.next = m]
        BY <4>1
      <4> HIDE DEF s
      <4>3. s.stage = "patch"
        BY <4>2 DEF Saves
      <4> QED
        BY <1>2, <3>1, <3>3, <4>3 DEF SaveStages
    <3> QED
      BY <2>3, <3>2, <3>3 DEF GetServed
  <2>4. CASE PatchServed(p)
    <3>1. save[p].stage = "patch" /\ save'[p] = [save[p] EXCEPT !.stage = "patched"] /\ lock' = lock
      BY <2>4 DEF PatchServed, SyncTypeOK, To
    <3>2. save'[p].stage = "patched"
      BY <1>0, <3>1, StagesNamed DEF SaveStages
    <3> QED
      BY <3>1, <3>2 DEF MovesSave
  <2>5. CASE PatchAnswered(p) \/ ApplyAnswered(p)
    <3>1. PICK stage \in {"confirm", "recheck"} :
            /\ ProceedIfOwner(p, To(p, stage), TRUE, held[p])
            /\ save[p].stage = IF stage = "confirm" THEN "patched" ELSE "applied"
      BY <2>5 DEF PatchAnswered, ApplyAnswered
    <3>2. To(p, stage).stage = stage
      BY <1>0, StagesNamed DEF SaveStages, To
    <3>3. stored' = stored
      BY <2>5 DEF PatchAnswered, ApplyAnswered
    <3> QED
      BY <1>2, <3>1, <3>2, <3>3 DEF SaveStages, Relying
  <2>6. CASE ConfirmServed(p)
    <3> DEFINE s == [save[p] EXCEPT !.stage = "apply", !.next = stored]
    <3>1. save[p].stage = "confirm" /\ stored' = stored
      BY <2>6 DEF ConfirmServed
    <3>2. CASE Fails(p, "conflict", TRUE)
      BY <1>1, <3>1, <3>2
    <3>3. CASE ProceedIfOwner(p, s, TRUE, {stored})
      <4>1. PICK r \in Saves : r = save[p]
        BY <1>0
      <4>2. s = [r EXCEPT !.stage = "apply", !.next = stored]
        BY <4>1
      <4> HIDE DEF s
      <4>3. s.stage = "apply"
        BY <4>2 DEF Saves
      <4> QED
        BY <1>2, <3>1, <3>3, <4>3 DEF SaveStages
    <3> QED
      BY <2>6, <3>2, <3>3 DEF ConfirmServed
  <2>7. CASE ApplyServed(p) \/ ReapplyServed(p)
    <3>1. PICK stage \in {"applied", "reapplied"} :
            /\ save' = [save EXCEPT ![p] = To(p, stage)]
            /\ stage = "applied" => held' = [held EXCEPT ![p] = {stored}]
      BY <2>7 DEF ApplyServed, ReapplyServed
    <3>2. save'[p].stage = stage
      BY <1>0, <3>1, StagesNamed DEF SaveStages, To, SyncTypeOK
    <3>3. save[p].stage \in {"apply", "reapply"} /\ stored' = stored /\ lock' = lock
      BY <2>7 DEF ApplyServed, ReapplyServed
    <3>4. stage = "applied" => held'[p] = {stored}
      BY <3>1 DEF SyncTypeOK
    <3> QED
      BY <3>2, <3>3, <3>4 DEF MovesSave, SaveStages, Relying
  <2>8. CASE SaveSucceeds(p)
    <3>1. save'[p] = NoSave /\ stored' = stored /\ lock' = IF lock = p THEN None ELSE lock
      BY <2>8 DEF SaveSucceeds, Idle, SyncTypeOK
    <3> QED
      BY <3>1, StagesNamed DEF MovesSave
  <2>9. CASE RecheckDiffers(p)
    <3> DEFINE s == [save[p] EXCEPT !.stage = "reapply", !.latest = stored]
    <3>1. save[p].stage = "recheck" /\ stored' = stored /\ ProceedIfOwner(p, s, TRUE, held[p])
      BY <2>9 DEF RecheckDiffers
    <3>2. PICK r \in Saves : r = save[p]
      BY <1>0
    <3>3. s = [r EXCEPT !.stage = "reapply", !.latest = stored]
      BY <3>2
    <3> HIDE DEF s
    <3>4. s.stage = "reapply"
      BY <3>3 DEF Saves
    <3> QED
      BY <1>2, <3>1, <3>4 DEF SaveStages, Relying
  <2> QED
    BY <1>4, <2>1, <2>2, <2>3, <2>4, <2>5, <2>6, <2>7, <2>8, <2>9 DEF SaveStep
<1>5. CASE BeginLoad(p)
  <2>1. save'[p] = NoSave /\ stored' = stored /\ lock' = IF lock = p THEN None ELSE lock
    BY <1>5 DEF BeginLoad, CancelSave, Idle, SyncTypeOK
  <2> QED
    BY <2>1, StagesNamed DEF MovesSave
<1>6. CASE LoadStep(p) \/ \E i \in Items : \E v \in Typed(i) : Edit(p, i, v)
  <2>1. UNCHANGED <<save, stored, lock, held>>
    BY <1>6 DEF LoadStep, LoadGetServed, LoadApplyServed, LoadEnds, LoadFails, Edit
  <2> QED
    BY <2>1 DEF MovesSave
<1> QED
  BY <1>3, <1>4, <1>5, <1>6 DEF PageStep

\* No page counts as an outsider; what CPA and fate do does, but for a reload.
LEMMA OutsidersCounted ==
  ASSUME SyncTypeOK
  PROVE  /\ \A p \in Pages : PageStep(p) => Outsiders' = Outsiders
         /\ HostStep => Outsiders' > 0 \/ UNCHANGED <<stored, lock, save, held, used>>
<1>1. /\ used \in [Bounded -> Nat]
      /\ {"edit", "load", "fault", "foreign", "loss", "late"} = Bounded
  BY DEF SyncTypeOK, Bounded
<1>2. \A kind \in {"edit", "load", "fault"} : Spend(kind) => Outsiders' = Outsiders
  BY <1>1 DEF Spend, Outsiders
<1>3. \A kind \in {"foreign", "loss", "late"} : Spend(kind) => Outsiders' > 0
  <2> SUFFICES ASSUME NEW kind \in {"foreign", "loss", "late"}, Spend(kind)
               PROVE  Outsiders' > 0
    OBVIOUS
  <2>1. /\ used'[kind] = used[kind] + 1
        /\ \A k \in Bounded : used'[k] \in Nat
    BY <1>1, SpendTyped
  <2>2. used[kind] \in Nat /\ used'["foreign"] \in Nat /\ used'["loss"] \in Nat /\ used'["late"] \in Nat
    BY <1>1, <2>1
  <2> QED
    BY <2>1, <2>2 DEF Outsiders
<1>4. ASSUME NEW p \in Pages, PageStep(p)
      PROVE  Outsiders' = Outsiders
  <2>1. used' = used \/ \E kind \in {"edit", "load", "fault"} : Spend(kind)
    <3>1. CASE BeginSave(p) \/ BeginLoad(p) \/ LoadStep(p) \/ \E i \in Items : \E v \in Typed(i) : Edit(p, i, v)
      BY <3>1 DEF BeginSave, BeginLoad, LoadStep, LoadGetServed, LoadApplyServed, LoadEnds, LoadFails, Edit
    <3>2. CASE SaveStep(p)
      BY <3>2 DEF SaveStep, TakeLock, LockRefused, GetServed, PatchServed, PatchAnswered, ConfirmServed,
                  ApplyServed, ApplyAnswered, SaveSucceeds, RecheckDiffers, ReapplyServed, ReapplyAnswered,
                  SaveRefused, SaveTimesOut
    <3> QED
      BY <1>4, <3>1, <3>2 DEF PageStep
  <2> QED
    BY <1>2, <2>1 DEF Outsiders
<1>5. ASSUME HostStep
      PROVE  Outsiders' > 0 \/ UNCHANGED <<stored, lock, save, held, used>>
  BY <1>3, <1>5 DEF HostStep, ForeignWrite, HostReload, LateRequest, LoseLock
<1> QED
  BY <1>4, <1>5

\* Without outsiders no step lets two saves past the lock.
LEMMA LockProtectsKept ==
  ASSUME SyncInv, Next
  PROVE  LockProtects'
<1> SUFFICES ASSUME Outsiders' = 0, NEW q \in Pages
             PROVE  /\ save'[q].stage \notin {"idle", "lock"} => lock' = q
                    /\ save'[q].stage \in Relying => held'[q] = {stored'}
  BY DEF LockProtects, Relying
<1>0. SyncTypeOK /\ \A p \in Pages : p # None
  BY NoneApart DEF SyncInv
<1>1. CASE HostStep
  <2>1. UNCHANGED <<stored, lock, save, held, used>>
    BY <1>0, <1>1, OutsidersCounted
  <2>2. Outsiders = 0
    BY <2>1 DEF Outsiders
  <2> QED
    BY <2>1, <2>2 DEF SyncInv, LockProtects, Relying
<1>2. CASE \E p \in Pages : PageStep(p)
  <2>1. PICK p \in Pages : PageStep(p)
    BY <1>2
  <2>2. Outsiders = 0
    BY <1>0, <2>1, OutsidersCounted
  <2>3. \A r \in Pages :
          /\ save[r].stage \notin {"idle", "lock"} => lock = r
          /\ save[r].stage \in Relying => held[r] = {stored}
    BY <2>2 DEF SyncInv, LockProtects, Relying
  <2>4. MovesSave(p)
    BY <1>0, <2>1, SavesMove
  <2>5. CASE q = p
    BY <2>3, <2>4, <2>5 DEF MovesSave, Relying
  <2>6. CASE q # p
    <3>1. save'[q] = save[q] /\ (Unseen(q) \/ Store(stored'))
      BY <1>0, <2>1, <2>6, OthersStand DEF OfPage
    <3>2. CASE save[q].stage \in {"idle", "lock"}
      BY <3>1, <3>2 DEF Relying
    <3>3. CASE save[q].stage \notin {"idle", "lock"}
      <4>1. lock = q /\ save[p].stage \in {"idle", "lock"}
        BY <2>3, <2>6, <3>3
      <4>2. lock' = q /\ stored' = stored
        BY <1>0, <2>4, <2>6, <4>1 DEF MovesSave
      <4>3. save[q].stage \in Relying => held'[q] = {stored'}
        BY <2>3, <3>1, <4>2 DEF Unseen, Store
      <4> QED
        BY <3>1, <4>2, <4>3
    <3> QED
      BY <3>2, <3>3
  <2> QED
    BY <2>5, <2>6
<1> QED
  BY <1>1, <1>2, NextSplits

-------------------------------------------------------------------------------
(* The theorems *)

\* The pages as opened satisfy the invariant.
LEMMA SyncInvAtFirst ==
  ASSUME Init
  PROVE  SyncInv
<1>1. stored \in Config /\ AtFirst \subseteq Config
  BY SyncAssumption DEF Init
<1>2. NoWish \in [Items -> (UNION {Typed(i) : i \in Items}) \cup {None}] /\ \A i \in Items : NoWish[i] = None
  BY DEF NoWish
<1>3. SyncTypeOK
  BY <1>1, <1>2, NoSaveTyped, NoLoadTyped DEF Init, SyncTypeOK
<1>4. ASSUME NEW p \in Pages
      PROVE  PageInv(p)
  <2>1. /\ config[p] = None /\ draft[p] = None /\ ready[p] = FALSE /\ saving[p] = FALSE
        /\ save[p] = NoSave /\ load[p] = NoLoad /\ wish[p] = NoWish
    BY DEF Init
  <2>2. PageMeans(p)
    BY <2>1, NoLoadTyped DEF PageMeans
  <2>3. SaveMeans(p)
    BY <2>1, NoSaveTyped DEF SaveMeans, Merged
  <2>4. WishMeans(p)
    BY <2>1, <1>2 DEF WishMeans
  <2> QED
    BY <2>1, <2>2, <2>3, <2>4, NoSaveTyped DEF PageInv
<1>5. lock = None
  BY DEF Init
<1>6. LockProtects
  <2>1. \A p \in Pages : save[p].stage = "idle"
    BY NoSaveTyped DEF Init
  <2> QED
    BY <2>1 DEF LockProtects
<1> QED
  BY <1>3, <1>4, <1>5, <1>6 DEF SyncInv

\* The lock's owner is saving: it is given to a page that is, and given back
\* when its save ends.
LEMMA OwnerIsSavingKept ==
  ASSUME SyncInv, Next, \A p \in Pages : PageInv(p)'
  PROVE  lock' # None => saving'[lock']
<1>0. SyncTypeOK
  BY DEF SyncInv
<1>1. CASE HostStep
  <2>1. saving' = saving /\ lock' \in {lock, None}
    BY <1>1 DEF HostStep, ForeignWrite, HostReload, LateRequest, LoseLock
  <2> QED
    BY <2>1 DEF SyncInv
<1>2. CASE \E p \in Pages : PageStep(p)
  <2>1. PICK p \in Pages : PageStep(p)
    BY <1>2
  <2>2. MovesSave(p)
    BY <1>0, <2>1, SavesMove
  <2> SUFFICES ASSUME NEW q \in Pages, lock' = q
               PROVE  saving'[q]
    <3>1. lock' \in Pages \cup {None}
      BY <1>0, <2>1, PageStepKeeps DEF SyncInv, PagesTyped
    <3> QED
      BY <3>1
  <2>3. \A r \in Pages : r # None
    BY NoneApart
  <2>4. CASE q # p
    <3>1. saving'[q] = saving[q]
      BY <1>0, <2>1, <2>4, OthersStand DEF OfPage
    <3>2. lock = q
      BY <2>2, <2>3, <2>4 DEF MovesSave
    <3> QED
      BY <2>3, <3>1, <3>2 DEF SyncInv
  <2>5. CASE q = p
    <3>1. save'[p].stage # "idle"
      <4>1. lock = p => save[p].stage # "idle"
        BY <2>3 DEF SyncInv, PageInv
      <4> QED
        BY <2>2, <2>3, <2>5, <4>1 DEF MovesSave
    <3> QED
      BY <2>5, <3>1 DEF PageInv
  <2> QED
    BY <2>4, <2>5
<1> QED
  BY <1>1, <1>2, NextSplits

\* No step breaks the invariant, nor does one in which nothing happens.
LEMMA SyncInvKept ==
  ASSUME SyncInv, [Next]_vars
  PROVE  SyncInv'
<1>1. CASE UNCHANGED vars
  <2>1. SyncTypeOK' /\ (lock' # None => saving'[lock']) /\ LockProtects'
    BY <1>1 DEF vars, SyncInv, SyncTypeOK, LockProtects, Outsiders
  <2>2. ASSUME NEW q \in Pages
        PROVE  PageInv(q)'
    BY <1>1 DEF vars, SyncInv, PageInv, PageMeans, SaveMeans, WishMeans
  <2> QED
    BY <2>1, <2>2 DEF SyncInv
<1>2. CASE Next
  <2>0. SyncTypeOK /\ \A p \in Pages : PageInv(p)
    BY DEF SyncInv
  <2>1. SyncTypeOK' /\ \A p \in Pages : PageInv(p)'
    <3>1. CASE HostStep
      BY <2>0, <3>1, HostStepKeepsTypes, PagesStand, PageStands
    <3>2. CASE \E p \in Pages : PageStep(p)
      <4>1. PICK p \in Pages : PageStep(p)
        BY <3>2
      <4>2. SyncTypeOK'
        BY <2>0, <4>1, PageStepKeeps, PageStepKeepsHost, TypesSplit
      <4>3. PageInv(p)'
        BY <2>0, <4>1, PageStepKeeps
      <4>4. \A q \in Pages : q # p => PageInv(q)'
        BY <2>0, <4>1, OthersStand, PageStands
      <4> QED
        BY <4>2, <4>3, <4>4
    <3> QED
      BY <1>2, <3>1, <3>2, NextSplits
  <2>2. lock' # None => saving'[lock']
    BY <1>2, <2>1, OwnerIsSavingKept
  <2>3. LockProtects'
    BY <1>2, LockProtectsKept
  <2> QED
    BY <2>1, <2>2, <2>3 DEF SyncInv
<1> QED
  BY <1>1, <1>2

\* The inductive invariant: what every page, save, load and lock means holds in
\* every state that saveSettings, loadData and CPA's other clients reach.
THEOREM SyncInvHolds == Spec => []SyncInv
<1>1. Init => SyncInv
  BY SyncInvAtFirst
<1>2. SyncInv /\ [Next]_vars => SyncInv'
  BY SyncInvKept
<1> QED
  BY <1>1, <1>2, PTL DEF Spec

\* Nothing is stored, applied or taken for saved that validateTTL refuses, and
\* every other part of the state has its type.
THEOREM SyncTypesCorrect == Spec => []SyncTypeOK
<1>1. SyncInv => SyncTypeOK
  BY DEF SyncInv
<1> QED
  BY <1>1, SyncInvHolds, PTL

\* What a user typed stays in the draft of saveSettings and
\* rebaseDraftMappings, whatever becomes of the saves under way, until a load
\* replaces the draft.
THEOREM EditsAreKept == Spec => []EditsSurvive
<1>1. SyncInv => EditsSurvive
  BY DEF SyncInv, PageInv, WishMeans, EditsSurvive
<1> QED
  BY <1>1, SyncInvHolds, PTL

\* A page says "saving" exactly while its save is under way, and the save lock
\* does not outlive the save that took it (cancelSaveRequests, the finally of
\* saveSettings).
THEOREM BusyPagesAreSaving == Spec => []BusyIsSaving
<1>1. SyncInv => BusyIsSaving
  BY DEF SyncInv, PageInv, BusyIsSaving
<1> QED
  BY <1>1, SyncInvHolds, PTL

\* Where the save lock is not lost, only other clients of CPA and requests that
\* were given up store anything while a save relies on what it read.
THEOREM OnlyOutsidersDo == Spec => []OnlyOutsidersInterfere
<1>1. SyncInv => OnlyOutsidersInterfere
  <2> SUFFICES ASSUME SyncInv, NEW p \in Pages, save[p].stage \in {"patch", "apply", "applied", "recheck"},
                      Cardinality(held[p]) > 1
               PROVE  used["foreign"] + used["late"] + used["loss"] > 0
    BY DEF OnlyOutsidersInterfere
  <2>1. used["foreign"] \in Nat /\ used["late"] \in Nat /\ used["loss"] \in Nat
    BY DEF SyncInv, SyncTypeOK, Bounded
  <2>2. Cardinality({stored}) = 1
    BY FS_Singleton
  <2>3. held[p] # {stored}
    BY <2>2
  <2>4. Outsiders # 0
    BY <2>3 DEF SyncInv, LockProtects
  <2> QED
    BY <2>1, <2>4 DEF Outsiders
<1> QED
  BY <1>1, SyncInvHolds, PTL

\* What a PATCH writes: if nothing was stored since the save's GET, only items
\* that the user changed, from the values the user saw (mergeSubmittedConfig).
LEMMA PatchWritesWhatWasSeen ==
  ASSUME SyncInv, NEW p \in Pages, PatchServed(p), held[p] = {stored},
         NEW i \in Items, stored'[i] # stored[i]
  PROVE  save[p].sub[i] # save[p].base[i] /\ stored[i] = save[p].base[i]
<1> DEFINE base == save[p].base  sub == save[p].sub
           items == Written(submittedConfigChanges(base, sub))
<1>1. /\ save[p].stage = "patch" /\ base \in Config /\ sub \in Config /\ stored \in Config
      /\ \E c \in held[p] : /\ ~Conflicts(c, base, sub)
                            /\ save[p].next = mergeSubmittedConfig(c, base, sub)
  BY DEF SyncInv, SyncTypeOK, PageInv, SaveMeans, PatchServed
<1>2. ~Conflicts(stored, base, sub) /\ save[p].next = mergeSubmittedConfig(stored, base, sub)
  BY <1>1
<1>3. stored' = Patched(items, save[p].next)
  BY DEF PatchServed, Store
<1>4. stored'[i] = IF i \in items THEN save[p].next[i] ELSE stored[i]
  BY <1>3 DEF Patched
<1>5. save[p].next[i] = IF sub[i] # base[i] THEN sub[i] ELSE stored[i]
  BY <1>1, <1>2, MergeProperties
<1>6. sub[i] # base[i] => stored[i] \in {base[i], sub[i]}
  BY <1>2 DEF Conflicts, submittedConfigChanges
<1> QED
  BY <1>4, <1>5, <1>6

\* A save does not undo what others saved: if nothing was stored between its
\* GET and its PATCH, the PATCH changes only items that the user changed, and
\* those only from the values the user saw.
THEOREM WritesAreWhatUsersSaw == Spec => WritesOnlyWhatItsUserSaw
<1>1. SyncInv /\ [Next]_vars =>
        [\A p \in Pages : PatchServed(p) /\ held[p] = {stored} =>
           \A i \in Items : stored'[i] # stored[i] =>
             save[p].sub[i] # save[p].base[i] /\ stored[i] = save[p].base[i]]_vars
  BY PatchWritesWhatWasSeen
<1> QED
  BY <1>1, SyncInvHolds, PTL DEF Spec, WritesOnlyWhatItsUserSaw

\* What the last answer to a save can lead to.
LEMMA SuccessWasStored ==
  ASSUME SyncInv, [Next]_vars, NEW p \in Pages,
         save[p].stage = "recheck", config'[p] = save[p].next, ~failed'[p],
         save'[p].stage = "idle", load'[p] = load[p], ready'[p]
  PROVE  save[p].next \in held[p]
<1>0. SyncTypeOK /\ PageInv(p)
  BY DEF SyncInv
<1>1. /\ save[p].base \in Config /\ save[p].sub \in Config /\ save[p].next \in Config
      /\ config[p] = save[p].base /\ stored \in held[p]
      /\ save[p].base # save[p].sub \/ failed[p]
      /\ \A i \in Items : save[p].sub[i] # save[p].base[i] => save[p].next[i] = save[p].sub[i]
      /\ load[p].stage = "idle"
  BY <1>0 DEF PageInv, PageMeans, SaveMeans, Merged
<1>2. save[p].next = save[p].base => failed[p]
  <2> SUFFICES ASSUME save[p].next = save[p].base, save[p].base # save[p].sub
               PROVE  FALSE
    BY <1>1
  <2>1. PICK i \in Items : save[p].base[i] # save[p].sub[i]
    BY <1>1, ItemsOfConfig
  <2> QED
    BY <1>1, <2>1
<1>3. ASSUME UNCHANGED pageVars
      PROVE  FALSE
  BY <1>1, <1>2, <1>3 DEF pageVars
<1>4. ASSUME NEW kind, Fails(p, kind, TRUE)
      PROVE  FALSE
  <2>1. CASE kind = "conflict"
    BY <1>3, <1>4, <2>1 DEF Fails
  <2>2. CASE kind = "auth"
    BY <1>0, <1>4, <2>2 DEF Fails, SyncTypeOK
  <2>3. CASE kind \notin {"conflict", "auth"}
    BY <1>0, <1>4, <2>3 DEF Fails, SyncTypeOK
  <2> QED
    BY <2>1, <2>2, <2>3
<1>5. save'[p] # save[p]
  OBVIOUS
<1>6. PICK q \in Pages : PageStep(q)
  <2>1. ~HostStep
    BY <1>0, <1>5, PagesStand DEF OfPage
  <2> QED
    BY <1>5, <2>1, NextSplits DEF vars
<1>7. q = p
  BY <1>0, <1>5, <1>6, OthersStand DEF OfPage
<1>8. CASE BeginSave(p)
  BY <1>0, <1>8 DEF BeginSave, PageInv
<1>9. CASE SaveStep(p)
  <2>1. Persisted(save[p].stage)
    BY DEF Persisted
  <2>2. CASE SaveSucceeds(p)
    BY <1>1, <2>2 DEF SaveSucceeds
  <2>3. CASE RecheckDiffers(p)
    <3> DEFINE s == [save[p] EXCEPT !.stage = "reapply", !.latest = stored]
    <3>1. ProceedIfOwner(p, s, TRUE, held[p])
      BY <2>3 DEF RecheckDiffers
    <3>2. ~Fails(p, "conflict", TRUE)
      BY <1>4
    <3>3. UNCHANGED pageVars
      BY <3>1, <3>2 DEF ProceedIfOwner
    <3> QED
      BY <1>3, <3>3
  <2>4. CASE SaveRefused(p)
    BY <1>4, <2>1, <2>4 DEF SaveRefused, Persisted
  <2>5. CASE SaveTimesOut(p)
    BY <1>4, <2>1, <2>5 DEF SaveTimesOut, Persisted
  <2> QED
    BY <1>9, <2>2, <2>3, <2>4, <2>5 DEF SaveStep, TakeLock, LockRefused, GetServed, PatchServed, PatchAnswered,
       ConfirmServed, ApplyServed, ApplyAnswered, ReapplyServed, ReapplyAnswered
<1>10. CASE BeginLoad(p)
  BY <1>0, <1>10 DEF BeginLoad, SyncTypeOK
<1>11. CASE LoadStep(p) \/ \E i \in Items : \E v \in Typed(i) : Edit(p, i, v)
  BY <1>11, <1>5 DEF LoadStep, LoadGetServed, LoadApplyServed, LoadEnds, LoadFails, Edit
<1> QED
  BY <1>6, <1>7, <1>8, <1>9, <1>10, <1>11 DEF PageStep

\* A save reports success only if CPA stored the configuration that the runtime
\* got, at some time after the runtime got it (applyAndReconcileRuntimeConfig).
THEOREM SuccessesAreNotOutdated == Spec => SuccessIsNotOutdated
<1>1. SyncInv /\ [Next]_vars =>
        [\A p \in Pages : save[p].stage = "recheck" /\ config'[p] = save[p].next /\ ~failed'[p]
                      /\ save'[p].stage = "idle" /\ load'[p] = load[p] /\ ready'[p]
           => save[p].next \in held[p]]_vars
  BY SuccessWasStored
<1> QED
  BY <1>1, SyncInvHolds, PTL DEF Spec, SuccessIsNotOutdated
===============================================================================
