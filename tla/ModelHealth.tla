------------------------------ MODULE ModelHealth ------------------------------
(* The settings row, the readiness of the selected cleanup model as the user   *)
(* interface is told it, and the background task that keeps the model loaded.  *)
(* Commands, the 10 s timer and the load task are coroutines of one event      *)
(* loop: a step runs from one await to the next.                               *)
EXTENDS Integers, FiniteSets

CONSTANTS Models,        \* identifiers of cleanup models, local and cloud
          Editors,       \* commands of the user interface, one request each
          Requests,      \* what an editor may ask for
          Initial,       \* the settings when the application starts
          FailMax,       \* bound: loads that LM Studio refuses
          UnloadMax,     \* bound: models LM Studio drops by itself
          none

Actors   == Editors \union {"timer", "load"}
Settings == [provider: {"lmstudio", "nvidia"}, model: Models, cloud: Models,
             on: BOOLEAN]
Status   == [id: Models, ready: BOOLEAN, code: {"ok", "loading", "unavailable", "key"}]
Work     == [at: {"idle", "locking", "storing", "writing", "written",
                  "checking", "publishing", "done"},
             gen: Nat, sees: Settings]

(* An update names fields of the settings, with values they may have.          *)
RequestsOK ==
    /\ none \notin Requests
    /\ \A r \in Requests :
         \/ r.kind = "select" /\ r.model \in Models
         \/ r.kind = "key" /\ r.saved \in BOOLEAN
         \/ /\ r.kind = "update"
            /\ \A f \in DOMAIN r.patch :
                 f \in DOMAIN Initial /\ r.patch[f] \in {s[f] : s \in Settings}

ModelsConstantsOK ==
    /\ "timer" \notin Editors /\ "load" \notin Editors /\ none \notin Editors
    /\ none \notin Models /\ Initial \in Settings /\ RequestsOK
    /\ FailMax \in Nat /\ UnloadMax \in Nat
ASSUME ModelsAssumption == ModelsConstantsOK

VARIABLES
    stored,       \* the settings row of the database
    current,      \* SettingsStore._settings
    storeLock,    \* SettingsStore._lock
    applied,      \* Application._settings
    key,          \* the NVIDIA key is saved
    generation,   \* ModelService._generation
    lock,         \* ModelService._publication_lock
    last,         \* ModelService._last_published
    shown,        \* the readiness the user interface was told last
    work,         \* where each coroutine is
    request,      \* what each editor asked for
    told,         \* the health each coroutine was told
    loadAt,       \* stage of Application._load_task
    force,        \* the load task was forced
    again,        \* Application._load_again
    callback,     \* the done callback of a finished load task is due
    loading,      \* ModelService._loading
    backoff,      \* models whose _load_retry_at is in the future
    loaded,       \* models LM Studio holds
    left          \* what the environment may still do

storeVars == <<stored, current, storeLock>>
loadVars     == <<loadAt, force, again, callback>>
engineVars   == <<loading, backoff, loaded, left>>
modelVars == <<storeVars, applied, key, generation, lock, last, shown, work,
          request, told, loadVars, engineVars>>

ModelsTypeOK ==
    /\ {stored, current, applied} \subseteq Settings
    /\ storeLock \in Editors \union {none}
    /\ lock \in Editors \union {none}
    /\ key \in BOOLEAN /\ again \in BOOLEAN /\ callback \in BOOLEAN /\ force \in BOOLEAN
    /\ generation \in Nat
    /\ {last, shown} \subseteq Status \union {none}
    /\ work \in [Actors -> Work]
    /\ request \in [Editors -> Requests \union {none}]
    /\ told \in [Actors -> Status \union {none}]
    /\ loadAt \in {"none", "new", "opening", "requesting", "closing"}
    /\ loading \in Models \union {none}
    /\ backoff \subseteq Models /\ loaded \subseteq Models
    /\ left \in [fails: 0..FailMax, unloads: 0..UnloadMax]

ModelsInit ==
    /\ stored = Initial /\ current = Initial /\ applied = Initial
    /\ storeLock = none /\ lock = none /\ key = FALSE
    /\ generation = 0 /\ last = none /\ shown = none
    /\ work = [a \in Actors |-> [at |-> "idle", gen |-> 0, sees |-> Initial]]
    /\ request = [e \in Editors |-> none]
    /\ told = [a \in Actors |-> none]
    /\ loadAt = "none" /\ force = FALSE /\ again = FALSE /\ callback = FALSE
    /\ loading = none /\ backoff = {} /\ loaded = {}
    /\ left = [fails |-> FailMax, unloads |-> UnloadMax]

-------------------------------------------------------------------------------
(* The identifier whose readiness is reported.                                 *)
CleanupId(s) == IF s.provider = "nvidia" THEN s.cloud ELSE s.model

(* status begins: the settings are read before the health request is awaited.  *)
Begins(a, s, gen) == work' = [work EXCEPT ![a] = [at |-> "checking", gen |-> gen, sees |-> s]]
Goes(a, to)       == work' = [work EXCEPT ![a].at = to]

(* _readiness: an answer True means ready; a failure is explained by what is   *)
(* known when the answer arrives.                                              *)
Readiness(s) ==
    LET id    == CleanupId(s)
        ready == IF s.provider = "nvidia" THEN key ELSE id \in loaded
    IN  [id |-> id, ready |-> ready,
         code |-> IF ready THEN "ok"
                  ELSE IF s.provider = "nvidia" THEN "key"
                  ELSE IF loading = id THEN "loading" ELSE "unavailable"]

(* _schedule_cleanup_load: one load at a time, a forced one is remembered.     *)
Schedule(forced) ==
    IF loadAt # "none"
    THEN /\ again' = (again \/ forced)
         /\ UNCHANGED <<loadAt, force>>
    ELSE /\ again' = FALSE
         /\ loadAt' = "new"
         /\ force' = forced

(* _apply_settings: a new cleanup choice forces a load.                        *)
Applies(s) ==
    /\ applied' = s
    /\ UNCHANGED callback
    /\ IF s # applied
       THEN Schedule(TRUE)
       ELSE UNCHANGED <<loadAt, force, again>>

-------------------------------------------------------------------------------
(* models_select takes the publication lock first; settings_update goes        *)
(* straight to the store; a key edit takes effect at once.                     *)
Ask(e, r) ==
    /\ work[e].at = "idle"
    /\ request' = [request EXCEPT ![e] = r]
    /\ UNCHANGED <<storeVars, applied, lock, last, shown, told, loadVars, engineVars>>
    /\ \/ /\ r.kind = "select"
          /\ Goes(e, "locking")
          /\ UNCHANGED <<key, generation>>
       \/ /\ r.kind = "update"
          /\ Goes(e, "storing")
          /\ UNCHANGED <<key, generation>>
       \/ /\ r.kind = "key"
          /\ key' = r.saved
          /\ generation' = generation + 1
          /\ Begins(e, current, generation + 1)

SelectLocks(e) ==
    /\ work[e].at = "locking" /\ lock = none
    /\ lock' = e
    /\ generation' = generation + 1
    /\ work' = [work EXCEPT ![e] = [at |-> "storing", gen |-> generation + 1, sees |-> current]]
    /\ UNCHANGED <<storeVars, applied, key, last, shown, request, told, loadVars, engineVars>>

(* The fields a request changes; select reads the provider under its lock.     *)
Patch(e) ==
    LET r == request[e]
    IN  IF r.kind = "update" THEN r.patch
        ELSE IF work[e].sees.provider = "nvidia" THEN [cloud |-> r.model]
        ELSE [model |-> r.model]

\* Mutant: the patch is merged into the defaults.
MergedIntoDefaults(patch, data) ==
    [f \in DOMAIN data |-> IF f \in DOMAIN patch THEN patch[f] ELSE Initial[f]]
(* The row keeps every field the patch does not name.                          *)
Merged(patch, data) ==
    [f \in DOMAIN data |-> IF f \in DOMAIN patch THEN patch[f] ELSE data[f]]

\* Mutant: updates are not serialised.
AlwaysFree(e) == TRUE
StoreFree(e) == storeLock = none

StoreLocks(e) ==
    /\ work[e].at = "storing" /\ StoreFree(e)
    /\ storeLock' = e
    /\ Goes(e, "writing")
    /\ UNCHANGED <<stored, current, applied, key, generation, lock, last, shown,
                   request, told, loadVars, engineVars>>

(* The transaction merges the patch into the row and commits.                  *)
StoreCommits(e) ==
    /\ work[e].at = "writing"
    /\ stored' = Merged(Patch(e), stored)
    /\ work' = [work EXCEPT ![e].at = "written", ![e].sees = stored']
    /\ UNCHANGED <<current, storeLock, applied, key, generation, lock, last, shown,
                   request, told, loadVars, engineVars>>

(* The write raises: the snapshot stays, both locks are given back.            *)
StoreFails(e) ==
    /\ work[e].at = "writing"
    /\ storeLock' = none
    /\ lock' = IF lock = e THEN none ELSE lock
    /\ Goes(e, "done")
    /\ UNCHANGED <<stored, current, applied, key, generation, last, shown,
                   request, told, loadVars, engineVars>>

\* Mutant: a settings edit leaves the generation alone.
NotInvalidated == generation
Invalidated == generation + 1

(* The write returns: settings_update invalidates the polls under way and      *)
(* applies the settings; select goes on to the health of what it selected.     *)
StoreReturns(e) ==
    /\ work[e].at = "written"
    /\ current' = work[e].sees
    /\ storeLock' = none
    /\ UNCHANGED <<stored, key, lock, last, shown, request, told, engineVars>>
    /\ \/ /\ request[e].kind = "update"
          /\ generation' = Invalidated
          /\ Goes(e, "done")
          /\ Applies(current')
       \/ /\ request[e].kind = "select"
          /\ Begins(e, current', work[e].gen)
          /\ UNCHANGED <<applied, generation, loadVars>>

-------------------------------------------------------------------------------
(* What models:status carries is remembered, so that a poll publishes only     *)
(* changes.                                                                    *)
\* Mutant: select publishes without remembering it.
Forgetful(status) == last
Remembered(status) == status

(* The health request of select is answered: published under the lock.         *)
SelectPublishes(e) ==
    /\ work[e].at = "checking" /\ lock = e
    /\ shown' = Readiness(work[e].sees)
    /\ last' = Remembered(shown')
    /\ lock' = none
    /\ Goes(e, "done")
    /\ Applies(current)
    /\ UNCHANGED <<storeVars, key, generation, request, told, engineVars>>

(* The end of poll: dropped when a newer generation began, published when it   *)
(* differs from the last one; then what the coroutine does next.               *)
Finishes(a, status) ==
    /\ IF work[a].gen = generation /\ status # last
       THEN shown' = status /\ last' = status
       ELSE UNCHANGED <<shown, last>>
    /\ told' = [told EXCEPT ![a] = none]
    /\ UNCHANGED <<storeVars, applied, key, generation, lock, request, engineVars>>
    /\ \/ /\ a = "timer"
          /\ Goes(a, "idle")
          /\ Schedule(FALSE)
          /\ UNCHANGED callback
       \/ /\ a = "load" /\ loadAt = "opening"
          /\ Goes(a, "idle")
          /\ loadAt' = "requesting"
          /\ UNCHANGED <<force, again, callback>>
       \/ /\ a = "load" /\ loadAt = "closing"
          /\ Goes(a, "idle")
          /\ loadAt' = "none" /\ callback' = TRUE
          /\ UNCHANGED <<force, again>>
       \/ /\ a \in Editors
          /\ Goes(a, "done")
          /\ UNCHANGED loadVars

(* Coroutines that wait for the publication lock: they are served before one   *)
(* that arrives later.                                                         *)
Waiting == \E a \in Actors : work[a].at \in {"publishing", "locking"}

(* The health request of a poll is answered: it publishes in the same step or, *)
(* when a select holds the lock, waits with what it was told.                  *)
Answered(a) ==
    /\ work[a].at = "checking" /\ lock # a
    /\ IF lock = none /\ ~Waiting
       THEN Finishes(a, Readiness(work[a].sees))
       ELSE /\ told' = [told EXCEPT ![a] = Readiness(work[a].sees)]
            /\ Goes(a, "publishing")
            /\ UNCHANGED <<storeVars, applied, key, generation, lock, last, shown,
                           request, loadVars, engineVars>>

(* The lock is free again.                                                     *)
Publishes(a) ==
    /\ work[a].at = "publishing" /\ lock = none
    /\ Finishes(a, told[a])

(* _poll_models, every 10 s.                                                   *)
TimerTicks ==
    /\ work["timer"].at = "idle"
    /\ Begins("timer", current, generation)
    /\ UNCHANGED <<storeVars, applied, key, generation, lock, last, shown,
                   request, told, loadVars, engineVars>>

-------------------------------------------------------------------------------
(* keep_cleanup_loaded, its guard: local, enabled, not backing off.            *)
MayLoad ==
    /\ current.provider = "lmstudio" /\ current.on
    /\ loading = none
    /\ force \/ current.model \notin backoff

(* The task's first step comes after the callback queued before it.            *)
LoadStarts ==
    /\ loadAt = "new" /\ ~callback
    /\ UNCHANGED <<storeVars, applied, key, generation, lock, last, shown,
                   request, told, force, again, backoff, loaded, left>>
    /\ \/ /\ MayLoad
          /\ loading' = current.model
          /\ loadAt' = "opening"
          /\ Begins("load", current, generation)
          /\ UNCHANGED callback
       \/ /\ ~MayLoad
          /\ loadAt' = "none" /\ callback' = TRUE
          /\ UNCHANGED <<loading, work>>

\* Mutant: the flag of a load in progress is not taken back.
StillLoading == loading
NotLoading == none

(* ensure_loaded returns or raises; the finally clause polls once more.        *)
LoadEnds ==
    /\ loadAt = "requesting"
    /\ \/ /\ loaded' = loaded \union {loading}
          /\ backoff' = backoff \ {loading}
          /\ UNCHANGED left
       \/ /\ left.fails > 0
          /\ left' = [left EXCEPT !.fails = @ - 1]
          /\ backoff' = backoff \union {loading}
          /\ UNCHANGED loaded
    /\ loading' = NotLoading
    /\ loadAt' = "closing"
    /\ Begins("load", current, generation)
    /\ UNCHANGED <<storeVars, applied, key, generation, lock, last, shown,
                   request, told, force, again, callback>>

(* _after_cleanup_load.                                                        *)
AfterLoad ==
    /\ callback
    /\ callback' = FALSE
    /\ IF again THEN Schedule(TRUE) ELSE UNCHANGED <<loadAt, force, again>>
    /\ UNCHANGED <<storeVars, applied, key, generation, lock, last, shown,
                   work, request, told, engineVars>>

(* LOAD_RETRY_S pass.                                                          *)
BackoffPasses(m) ==
    /\ m \in backoff
    /\ backoff' = backoff \ {m}
    /\ UNCHANGED <<storeVars, applied, key, generation, lock, last, shown,
                   work, request, told, loadVars, loading, loaded, left>>

(* LM Studio drops a model.                                                    *)
Unloaded(m) ==
    /\ m \in loaded /\ left.unloads > 0
    /\ loaded' = loaded \ {m}
    /\ left' = [left EXCEPT !.unloads = @ - 1]
    /\ UNCHANGED <<storeVars, applied, key, generation, lock, last, shown,
                   work, request, told, loadVars, loading, backoff>>

EditorStep(e) ==
    \/ SelectLocks(e) \/ StoreLocks(e) \/ StoreCommits(e) \/ StoreFails(e)
    \/ StoreReturns(e) \/ SelectPublishes(e)

ModelsNext ==
    \/ \E e \in Editors, r \in Requests : Ask(e, r)
    \/ \E e \in Editors : EditorStep(e)
    \/ \E a \in Actors : Answered(a) \/ Publishes(a)
    \/ TimerTicks
    \/ LoadStarts \/ LoadEnds \/ AfterLoad
    \/ \E m \in Models : BackoffPasses(m) \/ Unloaded(m)

ModelsSpec == ModelsInit /\ [][ModelsNext]_modelVars

(* The event loop runs every ready coroutine and every due timer; requests to  *)
(* LM Studio have timeouts. A user edit and a dropped model need not happen.   *)
ModelsFairness ==
    /\ \A e \in Editors : WF_modelVars(EditorStep(e)) /\ SF_modelVars(SelectLocks(e))
    /\ \A a \in Actors : WF_modelVars(Answered(a)) /\ SF_modelVars(Publishes(a))
    /\ WF_modelVars(TimerTicks)
    /\ WF_modelVars(LoadStarts) /\ WF_modelVars(LoadEnds) /\ WF_modelVars(AfterLoad)
    /\ \A m \in Models : WF_modelVars(BackoffPasses(m))

ModelsFairSpec == ModelsSpec /\ ModelsFairness

-------------------------------------------------------------------------------
(* Outside a commit, the snapshot every reader uses is the row a restart would *)
(* load: updates that return out of order would leave them apart.              *)
StoredIsCurrent ==
    (\A e \in Editors : work[e].at # "written") => current = stored

(* An update changes only the fields it names: no edit of another field that   *)
(* was saved before is lost (SettingsStore.update).                            *)
ChangesOnlyPatched ==
    \A f \in DOMAIN stored : stored'[f] # stored[f] =>
       \E e \in Editors : work[e].at = "writing" /\ f \in DOMAIN Patch(e)

NothingSelected ==
    \A e \in Editors : request[e] = none \/ request[e].kind # "select"

(* The readiness published is that of the model selected at that moment: a     *)
(* health result that began before the edit is dropped (invalidate).  A poll   *)
(* that began while a select awaited its write is not.                         *)
PublishesChosen ==
    NothingSelected /\ shown' # shown => shown'.id = CleanupId(current')

(* Outside a commit the settings in use are those a restart would load; no     *)
(* edit of another field that was saved before is lost; and the readiness      *)
(* published is that of the model chosen at that moment (SettingsStore,        *)
(* ModelService).                                                              *)
EditsAreKept ==
    /\ []StoredIsCurrent
    /\ [][ChangesOnlyPatched /\ PublishesChosen]_modelVars

(* Once the user leaves the settings alone, the readiness shown is and stays   *)
(* that of the selected model, whatever overlapped on the way.                 *)
ChoiceIsShown == <>[](shown # none /\ shown.id = CleanupId(current))

(* A local cleanup model that stays selected and enabled is loaded in the end, *)
(* after failed loads and after LM Studio dropped it (keep_cleanup_loaded).    *)
ModelIsLoaded ==
    <>[](current.provider = "lmstudio" /\ current.on) => <>[](current.model \in loaded)

==============================================================================
