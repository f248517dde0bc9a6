------------------------------ MODULE SettingsSync ------------------------------
(***************************************************************************)
(* The dashboard's settings (src/internal/ui/dashboard.go): pages that     *)
(* load the configuration, edit a draft of it and save it.  A save reads   *)
(* CPA's configuration, merges the draft into it, writes what changed,     *)
(* reads it again, posts it to the plugin's runtime, and reads once more.  *)
(* Saves exclude each other by a lock (SaveLock); page loads, which also   *)
(* post to the runtime, and CPA's other clients do not take it.            *)
(*                                                                         *)
(* A request that changes something may take effect after its page gave up *)
(* waiting for it, or never.  Whatever supersedes a save aborts it, so the *)
(* generation checks of the code are the absence of further steps here.    *)
(***************************************************************************)
EXTENDS Integers, FiniteSets, TLC

CONSTANTS
  Pages,      \* open dashboards of one CPA, in several tabs or browsers
  TTL,        \* the configuration's item cache_ttl_seconds
  Providers,  \* its items in provider_mappings: one per provider
  Domain,     \* Domain[i] is the set of values of item i
  Invalid,    \* any text typed for TTL that validateTTL refuses
  None,       \* no page, no configuration, no edit
  AtFirst,    \* what CPA may store at first: a bound for TLC
  Bound,      \* how often each kind of event occurs in an instance
  MaxMishaps  \* how often faults, foreign writes and losses of a lock together

Items == {TTL} \cup Providers
Typed(i) == Domain[i] \cup (IF i = TTL THEN {Invalid} ELSE {})
Drafts == {d \in [Items -> UNION {Typed(i) : i \in Items}] : \A i \in Items : d[i] \in Typed(i)}
Config == {c \in [Items -> UNION {Domain[i] : i \in Items}] : \A i \in Items : c[i] \in Domain[i]}
Bounded == {"edit", "load", "fault", "foreign", "loss", "late"}

ASSUME SyncAssumption ==
  /\ TTL \notin Providers
  /\ \A i \in Items : Domain[i] # {} /\ None \notin Typed(i) /\ Invalid \notin Domain[i]
  /\ None \notin Pages \cup Drafts
  /\ AtFirst \subseteq Config
  /\ Bound \in [Bounded -> Nat] /\ MaxMishaps \in Nat

VARIABLES
  stored,     \* the plugin's section of CPA's configuration file
  runtime,    \* what the plugin works with
  reloadDue,  \* CPA has not yet told the plugin of the last write
  late,       \* changing requests whose page no longer waits for them
  lock,       \* the page in whose name the save lock is held
  config,     \* per page: state.config, what the page takes for saved
  draft,      \* per page: state.draftMappings and state.draftTTL
  ready,      \* per page: dataReady, with the settings in view
  failed,     \* per page: runtimeApplyFailed
  saving,     \* per page: the flag that lets no second save begin
  save,       \* per page: the save under way
  load,       \* per page: the load under way
  wish,       \* history: what the user typed and no later load or save settled
  held,       \* history: what CPA stored since the save's last GET or POST
  used        \* events so far, for Bound

pageVars == <<config, draft, ready, failed>>
vars == <<stored, runtime, reloadDue, late, lock, config, draft, ready, failed,
          saving, save, load, wish, held, used>>

-------------------------------------------------------------------------------
(* Saves, loads and requests *)

\* Each stage waits for something: for the lock, for a request to be served
\* ("get", "patch", "confirm", "apply", "recheck", "reapply") or for the answer
\* to a change that was made ("patched", "applied", "reapplied").
SaveStages == {"idle", "lock", "get", "patch", "patched", "confirm",
               "apply", "applied", "recheck", "reapply", "reapplied"}
LoadStages == {"idle", "get", "apply", "applied"}

\* base, sub, next: baselineConfig, the submitted draft, nextConfig; latest is
\* what the last GET of applyAndReconcileRuntimeConfig found instead of it.
NoSave == [stage |-> "idle", base |-> None, sub |-> None, next |-> None, latest |-> None]
NoLoad == [stage |-> "idle", config |-> None]

Saves == [stage : SaveStages, base : Config \cup {None}, sub : Config \cup {None},
          next : Config \cup {None}, latest : Config \cup {None}]
Loads == [stage : LoadStages, config : Config \cup {None}]

\* A PATCH replaces provider_mappings as a whole.
Written(changes) ==
  (changes \cap {TTL}) \cup (IF changes \cap Providers # {} THEN Providers ELSE {})

submittedConfigChanges(base, sub) == {i \in Items : base[i] # sub[i]}

Request(kind, body, items) == [kind |-> kind, body |-> body, items |-> items]
Requests == [kind : {"patch", "apply"}, body : Config, items : SUBSET Items]

\* The changing request of page p that was sent and is not served yet.
InFlight(p) ==
  LET s == save[p]
  IN  CASE s.stage = "patch" ->
             {Request("patch", s.next, Written(submittedConfigChanges(s.base, s.sub)))}
        [] s.stage = "apply" -> {Request("apply", s.next, {})}
        [] s.stage = "reapply" -> {Request("apply", s.latest, {})}
        [] OTHER -> {}

LoadInFlight(p) ==
  IF load[p].stage = "apply" THEN {Request("apply", load[p].config, {})} ELSE {}

Spend(kind) ==
  /\ used[kind] < Bound[kind]
  /\ kind \in {"fault", "foreign", "loss"} =>
       used["fault"] + used["foreign"] + used["loss"] < MaxMishaps
  /\ used' = [used EXCEPT ![kind] = @ + 1]

\* CPA stores c.
Store(c) ==
  /\ stored' = c
  /\ reloadDue' = TRUE
  /\ held' = [p \in Pages |-> IF held[p] = {} THEN {} ELSE held[p] \cup {c}]

Patched(items, body) == [i \in Items |-> IF i \in items THEN body[i] ELSE stored[i]]

-------------------------------------------------------------------------------
(* Merging *)

\* mergeSubmittedConfig: what it refuses, and what it returns otherwise.
Conflicts(latest, base, sub) ==
  \E i \in submittedConfigChanges(base, sub) : latest[i] \notin {base[i], sub[i]}

\* A bug to be caught: what other pages saved meanwhile is not looked at.
MergeIntoBaseline(latest, base, sub) == sub

mergeSubmittedConfig(latest, base, sub) ==
  [i \in Items |-> IF i \in submittedConfigChanges(base, sub) THEN sub[i] ELSE latest[i]]

configMatchesChanges(current, expected, changes) ==
  \A i \in changes : current[i] = expected[i]

\* A bug to be caught: the draft becomes what was saved.
RebaseNothing(next, sub, current) == next

\* rebaseDraftMappings, and the same for the duration: what was edited since
\* the draft was submitted stays.
rebaseDraftMappings(next, sub, current) ==
  [i \in Items |-> IF current[i] = sub[i] THEN next[i] ELSE current[i]]

-------------------------------------------------------------------------------
(* The end of a save, for whatever reason *)

Idle(p) ==
  /\ saving' = [saving EXCEPT ![p] = FALSE]
  /\ save' = [save EXCEPT ![p] = NoSave]
  /\ held' = [held EXCEPT ![p] = {}]
  /\ lock' = IF lock = p THEN None ELSE lock

\* The page takes over what is now stored.
Adopt(p, next) ==
  /\ config' = [config EXCEPT ![p] = next]
  /\ draft' = [draft EXCEPT ![p] = rebaseDraftMappings(next, save[p].sub, draft[p])]

\* The catch branch.  A conflict or a lost lock, and any failure before the
\* write was confirmed, leave the page as it was; after it the page takes over
\* what it wrote and offers to save again.  A refused key leads to the
\* connection form.
Fails(p, kind, persisted) ==
  /\ Idle(p)
  /\ IF persisted /\ kind # "conflict"
     THEN /\ Adopt(p, save[p].next)
          /\ failed' = [failed EXCEPT ![p] = kind # "auth"]
          /\ ready' = [ready EXCEPT ![p] = kind # "auth"]
     ELSE UNCHANGED pageVars
  /\ UNCHANGED <<load, wish>>

\* assertOwnership, which the Web Locks branch replaces by nothing: the save
\* goes on as s if its lock is still held, and fails otherwise.
ProceedIfOwner(p, s, persisted, mark) ==
  \/ /\ lock = p
     /\ save' = [save EXCEPT ![p] = s]
     /\ held' = [held EXCEPT ![p] = mark]
     /\ UNCHANGED <<saving, lock, load, wish, pageVars>>
  \/ lock # p /\ Fails(p, "conflict", persisted)

To(p, stage) == [save[p] EXCEPT !.stage = stage]

-------------------------------------------------------------------------------
(* Saving: saveSettings and applyAndReconcileRuntimeConfig *)

Dirty(p) == draft[p] # config[p]

\* A bug to be caught: what was typed is submitted unseen.
AnythingValid(d) == TRUE

\* validateTTL
Valid(d) == d[TTL] # Invalid

BeginSave(p) ==
  /\ ready[p] /\ ~saving[p]
  /\ Valid(draft[p])
  /\ Dirty(p) \/ failed[p]
  /\ saving' = [saving EXCEPT ![p] = TRUE]
  /\ save' = [save EXCEPT ![p] = [NoSave EXCEPT !.stage = "lock", !.base = config[p],
                                                !.sub = draft[p]]]
  /\ wish' = [wish EXCEPT ![p] = [i \in Items |->
                IF draft[p][i] # config[p][i] THEN draft[p][i] ELSE None]]
  /\ UNCHANGED <<stored, runtime, reloadDue, late, lock, pageVars, load, held, used>>

\* A bug to be caught: a lock that is taken is taken again.
TakeLockAnyway(p) ==
  /\ save[p].stage = "lock"
  /\ lock' = p
  /\ save' = [save EXCEPT ![p] = To(p, "get")]
  /\ UNCHANGED <<stored, runtime, reloadDue, late, pageVars, saving, load, wish, held, used>>

TakeLock(p) ==
  /\ save[p].stage = "lock"
  /\ lock = None
  /\ lock' = p
  /\ save' = [save EXCEPT ![p] = To(p, "get")]
  /\ UNCHANGED <<stored, runtime, reloadDue, late, pageVars, saving, load, wish, held, used>>

\* Another page has the lock or contends for it, or storage is not available.
LockRefused(p) ==
  /\ save[p].stage = "lock"
  /\ Fails(p, "conflict", FALSE)
  /\ UNCHANGED <<stored, runtime, reloadDue, late, used>>

\* The first GET is answered; the merge is written unless it conflicts.
GetServed(p) ==
  LET s == save[p]
  IN  /\ s.stage = "get"
      /\ \/ Conflicts(stored, s.base, s.sub) /\ Fails(p, "conflict", FALSE)
         \/ /\ ~Conflicts(stored, s.base, s.sub)
            /\ ProceedIfOwner(p, [s EXCEPT !.stage = "patch",
                                           !.next = mergeSubmittedConfig(stored, s.base, s.sub)],
                              FALSE, {stored})
      /\ UNCHANGED <<stored, runtime, reloadDue, late, used>>

\* CPA executes the PATCH.
PatchServed(p) ==
  LET s == save[p]
  IN  /\ s.stage = "patch"
      /\ Store(Patched(Written(submittedConfigChanges(s.base, s.sub)), s.next))
      /\ save' = [save EXCEPT ![p] = To(p, "patched")]
      /\ UNCHANGED <<runtime, late, lock, pageVars, saving, load, wish, used>>

PatchAnswered(p) ==
  /\ save[p].stage = "patched"
  /\ ProceedIfOwner(p, To(p, "confirm"), TRUE, held[p])
  /\ UNCHANGED <<stored, runtime, reloadDue, late, used>>

\* The second GET: what was written has to be there.
ConfirmServed(p) ==
  LET s == save[p]
      matches == configMatchesChanges(stored, s.next, submittedConfigChanges(s.base, s.sub))
  IN  /\ s.stage = "confirm"
      /\ \/ matches /\ ProceedIfOwner(p, [s EXCEPT !.stage = "apply", !.next = stored],
                                      TRUE, {stored})
         \/ ~matches /\ Fails(p, "conflict", TRUE)
      /\ UNCHANGED <<stored, runtime, reloadDue, late, used>>

\* The plugin takes the configuration posted to config-apply.
ApplyServed(p) ==
  /\ save[p].stage = "apply"
  /\ runtime' = save[p].next
  /\ save' = [save EXCEPT ![p] = To(p, "applied")]
  /\ held' = [held EXCEPT ![p] = {stored}]
  /\ UNCHANGED <<stored, reloadDue, late, lock, pageVars, saving, load, wish, used>>

ApplyAnswered(p) ==
  /\ save[p].stage = "applied"
  /\ ProceedIfOwner(p, To(p, "recheck"), TRUE, held[p])
  /\ UNCHANGED <<stored, runtime, reloadDue, late, used>>

\* A bug to be caught: the last GET is not looked at.
SucceedUnchecked(p) ==
  /\ save[p].stage = "recheck"
  /\ Idle(p)
  /\ Adopt(p, save[p].next)
  /\ failed' = [failed EXCEPT ![p] = FALSE]
  /\ ready' = [ready EXCEPT ![p] = TRUE]
  /\ UNCHANGED <<stored, runtime, reloadDue, late, load, wish, used>>

\* The last GET shows what was applied: the save is a success.
SaveSucceeds(p) ==
  /\ save[p].stage = "recheck"
  /\ stored = save[p].next
  /\ Idle(p)
  /\ Adopt(p, save[p].next)
  /\ failed' = [failed EXCEPT ![p] = FALSE]
  /\ ready' = [ready EXCEPT ![p] = TRUE]
  /\ UNCHANGED <<stored, runtime, reloadDue, late, load, wish, used>>

\* The last GET shows something else: that is applied, and the save conflicts.
RecheckDiffers(p) ==
  /\ save[p].stage = "recheck"
  /\ stored # save[p].next
  /\ ProceedIfOwner(p, [save[p] EXCEPT !.stage = "reapply", !.latest = stored], TRUE, held[p])
  /\ UNCHANGED <<stored, runtime, reloadDue, late, used>>

ReapplyServed(p) ==
  /\ save[p].stage = "reapply"
  /\ runtime' = save[p].latest
  /\ save' = [save EXCEPT ![p] = To(p, "reapplied")]
  /\ UNCHANGED <<stored, reloadDue, late, lock, pageVars, saving, load, wish, held, used>>

ReapplyAnswered(p) ==
  /\ save[p].stage = "reapplied"
  /\ Fails(p, "conflict", TRUE)
  /\ UNCHANGED <<stored, runtime, reloadDue, late, used>>

Persisted(stage) ==
  stage \in {"confirm", "apply", "applied", "recheck", "reapply", "reapplied"}

\* CPA answers with an error instead of serving a request, or refuses the key.
\* Failing to apply the latest configuration is reported as the conflict.
SaveRefused(p) ==
  LET s == save[p]
  IN  /\ s.stage \in {"get", "patch", "confirm", "apply", "recheck", "reapply"}
      /\ \/ Fails(p, "auth", Persisted(s.stage))
         \/ Fails(p, IF s.stage = "reapply" THEN "conflict" ELSE "error", Persisted(s.stage))
      /\ Spend("fault")
      /\ UNCHANGED <<stored, runtime, reloadDue, late>>

\* The timer of a step or of the whole save: the request under way is given up.
SaveTimesOut(p) ==
  /\ save[p].stage \notin {"idle", "lock"}
  /\ Fails(p, "timeout", Persisted(save[p].stage))
  /\ late' = late \cup InFlight(p)
  /\ Spend("fault")
  /\ UNCHANGED <<stored, runtime, reloadDue>>

-------------------------------------------------------------------------------
(* Loading: loadData *)

\* A bug to be caught: the save that is aborted leaves its flag behind, as its
\* own clean-up is no longer of the current generation.
CancelSaveOnly(p) ==
  /\ save' = [save EXCEPT ![p] = NoSave]
  /\ held' = [held EXCEPT ![p] = {}]
  /\ lock' = IF lock = p THEN None ELSE lock
  /\ UNCHANGED saving

\* cancelSaveRequests
CancelSave(p) == Idle(p)

\* The page opens, connects, or reconnects; unsaved edits are given up.
BeginLoad(p) ==
  /\ CancelSave(p)
  /\ late' = late \cup InFlight(p) \cup LoadInFlight(p)
  /\ load' = [load EXCEPT ![p] = [stage |-> "get", config |-> None]]
  /\ failed' = [failed EXCEPT ![p] = FALSE]
  /\ ready' = [ready EXCEPT ![p] = FALSE]
  /\ Spend("load")
  /\ UNCHANGED <<stored, runtime, reloadDue, config, draft, wish>>

\* The configurations were read; CPA's is posted to the runtime, without lock.
LoadGetServed(p) ==
  /\ load[p].stage = "get"
  /\ load' = [load EXCEPT ![p] = [stage |-> "apply", config |-> stored]]
  /\ UNCHANGED <<stored, runtime, reloadDue, late, lock, pageVars, saving, save, wish, held, used>>

LoadApplyServed(p) ==
  /\ load[p].stage = "apply"
  /\ runtime' = load[p].config
  /\ load' = [load EXCEPT ![p].stage = "applied"]
  /\ UNCHANGED <<stored, reloadDue, late, lock, pageVars, saving, save, wish, held, used>>

NoWish == [i \in Items |-> None]

\* The page shows configuration c and a fresh draft of it.
Shows(p, c, applyFailed) ==
  /\ load' = [load EXCEPT ![p] = NoLoad]
  /\ config' = [config EXCEPT ![p] = c]
  /\ draft' = [draft EXCEPT ![p] = c]
  /\ failed' = [failed EXCEPT ![p] = applyFailed]
  /\ ready' = [ready EXCEPT ![p] = TRUE]
  /\ wish' = [wish EXCEPT ![p] = NoWish]

LoadEnds(p) ==
  /\ load[p].stage = "applied"
  /\ Shows(p, load[p].config, FALSE)
  /\ UNCHANGED <<stored, runtime, reloadDue, late, lock, saving, save, held, used>>

\* A request of the load fails or times out.  A failing POST is only noted; a
\* failing GET leaves the page with the results it had and their configuration,
\* or with those of the session's snapshot, which a page without results has
\* shown meanwhile and whose configuration is that of any earlier time, or with
\* the connection form, where a refused key always leads.
LoadFails(p) ==
  /\ \/ /\ load[p].stage \in {"get", "apply"}
        /\ load' = [load EXCEPT ![p] = NoLoad]
        /\ UNCHANGED <<pageVars, wish, late>>
     \/ /\ load[p].stage = "get"
        /\ \E c \in Config : Shows(p, c, FALSE)
        /\ UNCHANGED late
     \/ /\ load[p].stage \in {"apply", "applied"}
        /\ Shows(p, load[p].config, TRUE)
        /\ late' \in {late, late \cup LoadInFlight(p)}
  /\ Spend("fault")
  /\ UNCHANGED <<stored, runtime, reloadDue, lock, saving, save, held>>

-------------------------------------------------------------------------------
(* Users, CPA and its other clients *)

\* Value v for item i is that of the saved configuration, and no save that is
\* under way is to write another.
Undoes(p, i, v) == v = config[p][i] /\ (saving[p] => v = save[p].sub[i])

\* A control of the settings view.  The mapping controls rendered before a
\* reload stay enabled while it lasts.
Edit(p, i, v) ==
  /\ ready[p] \/ (i \in Providers /\ load[p].stage # "idle" /\ draft[p] # None)
  /\ draft[p][i] # v
  /\ draft' = [draft EXCEPT ![p][i] = v]
  /\ wish' = [wish EXCEPT ![p][i] = IF Undoes(p, i, v) THEN None ELSE v]
  /\ Spend("edit")
  /\ UNCHANGED <<stored, runtime, reloadDue, late, lock, config, ready, failed, saving, save, load, held>>

\* Another client of CPA writes an item.
ForeignWrite(i, v) ==
  /\ stored[i] # v
  /\ Store([stored EXCEPT ![i] = v])
  /\ Spend("foreign")
  /\ UNCHANGED <<runtime, late, lock, pageVars, saving, save, load, wish>>

\* CPA tells the plugin what is stored (plugin.reconfigure).
HostReload ==
  /\ reloadDue
  /\ runtime' = stored
  /\ reloadDue' = FALSE
  /\ UNCHANGED <<stored, late, lock, pageVars, saving, save, load, wish, held, used>>

\* A request whose page gave up takes effect after all.
LateRequest ==
  \E r \in late :
    /\ late' = late \ {r}
    /\ IF r.kind = "patch"
       THEN Store(Patched(r.items, r.body)) /\ UNCHANGED runtime
       ELSE runtime' = r.body /\ UNCHANGED <<stored, reloadDue, held>>
    /\ Spend("late")
    /\ UNCHANGED <<lock, pageVars, saving, save, load, wish>>

\* The lock's lease is over or its record was removed (SaveLock).
LoseLock ==
  /\ lock # None
  /\ lock' = None
  /\ Spend("loss")
  /\ UNCHANGED <<stored, runtime, reloadDue, late, pageVars, saving, save, load, wish, held>>

-------------------------------------------------------------------------------
Init ==
  /\ stored \in AtFirst
  /\ runtime = stored
  /\ reloadDue = FALSE
  /\ late = {}
  /\ lock = None
  /\ config = [p \in Pages |-> None]
  /\ draft = [p \in Pages |-> None]
  /\ ready = [p \in Pages |-> FALSE]
  /\ failed = [p \in Pages |-> FALSE]
  /\ saving = [p \in Pages |-> FALSE]
  /\ save = [p \in Pages |-> NoSave]
  /\ load = [p \in Pages |-> NoLoad]
  /\ wish = [p \in Pages |-> NoWish]
  /\ held = [p \in Pages |-> {}]
  /\ used = [k \in Bounded |-> 0]

\* What becomes of a save once it has begun.
SaveStep(p) ==
  \/ TakeLock(p) \/ LockRefused(p)
  \/ GetServed(p) \/ PatchServed(p) \/ PatchAnswered(p) \/ ConfirmServed(p)
  \/ ApplyServed(p) \/ ApplyAnswered(p) \/ SaveSucceeds(p)
  \/ RecheckDiffers(p) \/ ReapplyServed(p) \/ ReapplyAnswered(p)
  \/ SaveRefused(p) \/ SaveTimesOut(p)

LoadStep(p) == LoadGetServed(p) \/ LoadApplyServed(p) \/ LoadEnds(p) \/ LoadFails(p)

Next ==
  \/ \E p \in Pages :
       \/ BeginSave(p) \/ SaveStep(p)
       \/ BeginLoad(p) \/ LoadStep(p)
       \/ \E i \in Items : \E v \in Typed(i) : Edit(p, i, v)
  \/ \E i \in Items : \E v \in Domain[i] : ForeignWrite(i, v)
  \/ HostReload \/ LateRequest \/ LoseLock

Spec == Init /\ [][Next]_vars

-------------------------------------------------------------------------------
(* Properties *)

\* The types of the state: in particular nothing is stored, applied or shown as
\* saved that validateTTL refuses.
SyncTypeOK ==
  /\ stored \in Config /\ runtime \in Config
  /\ reloadDue \in BOOLEAN
  /\ late \subseteq Requests
  /\ lock \in Pages \cup {None}
  /\ config \in [Pages -> Config \cup {None}]
  /\ draft \in [Pages -> Drafts \cup {None}]
  /\ ready \in [Pages -> BOOLEAN]
  /\ failed \in [Pages -> BOOLEAN]
  /\ saving \in [Pages -> BOOLEAN]
  /\ save \in [Pages -> Saves]
  /\ load \in [Pages -> Loads]
  /\ wish \in [Pages -> [Items -> (UNION {Typed(i) : i \in Items}) \cup {None}]]
  /\ held \in [Pages -> SUBSET Config]
  /\ used \in [Bounded -> Nat]

\* README.md:44, a save does not undo what others saved: if nothing was
\* stored between its GET and its PATCH, the PATCH changes only items that the
\* user changed, and those only from the values the user saw.
WritesOnlyWhatItsUserSaw ==
  [][\A p \in Pages : PatchServed(p) /\ held[p] = {stored} =>
       \A i \in Items : stored'[i] # stored[i] =>
         save[p].sub[i] # save[p].base[i] /\ stored[i] = save[p].base[i]]_vars

\* What the lock is for: nothing is stored between the GET of a save and its
\* PATCH, or between its POST and the end, unless by another client, by a
\* request that was given up, or because a lock was lost.
OnlyOutsidersInterfere ==
  \A p \in Pages :
    save[p].stage \in {"patch", "apply", "applied", "recheck"} /\ Cardinality(held[p]) > 1
    => used["foreign"] + used["late"] + used["loss"] > 0

\* README.md:44, edits are not lost while a save is under way: what a user
\* typed stays in the draft until a save that includes it has begun anew or a
\* load replaces the draft; in particular a save that reports success, or that
\* it wrote, leaves every value it was to write.
EditsSurvive ==
  \A p \in Pages : \A i \in Items : wish[p][i] # None => draft[p][i] = wish[p][i]

\* A save reports success only if CPA stored the configuration that the
\* runtime got, at some time after the runtime got it.
SuccessIsNotOutdated ==
  [][\A p \in Pages : save[p].stage = "recheck" /\ config'[p] = save[p].next /\ ~failed'[p]
                      /\ save'[p].stage = "idle" /\ load'[p] = load[p] /\ ready'[p]
       => save[p].next \in held[p]]_vars

\* No page is left with a button that says "saving", which would let it never
\* save again, and no lock outlives its save.
BusyIsSaving ==
  /\ \A p \in Pages : saving[p] <=> save[p].stage # "idle"
  /\ lock # None => saving[lock]

\* README.md:44, what a save reports as in effect is in effect: when nothing is
\* under way, a page that shows what is stored, without a notice that it could
\* not be applied, shows what the runtime works with.
SavedIsInEffect ==
  /\ \A p \in Pages : ~saving[p] /\ load[p] = NoLoad
  /\ late = {} /\ ~reloadDue
  => \A p \in Pages : ready[p] /\ ~failed[p] /\ config[p] = stored => runtime = stored
===============================================================================
