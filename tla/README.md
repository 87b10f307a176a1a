# wispr_clone: a verification in TLA+

wispr_clone is a dictation program for Windows. The user presses a shortcut,
speaks, and the text is transcribed, optionally cleaned up by a language model,
and typed into the field that had the focus. The program promises little, and
the little is hard to keep: text is never typed twice without the user's
consent, never typed after a cancel, never reported as typed when it was not;
the microphone is never left open; what the user stored is not lost. Crashes,
failing stores, switched windows, slow models and impatient users come in
between. This directory models the program's own logic, checks it with TLC and
proves parts of it with TLAPS.

All paths below are relative to `src/backend_dev/src/wispr_clone/`. The map from
definitions to source lines, the hazards with their lines, and the mutant that
each property was tried on are in `PROJECT.json`.

## 1. The system

One asyncio event loop runs everything that decides. Sqlite runs on one thread
of its own, one transaction at a time (`storage/db.py`); Windows calls run on
another; audio arrives on a callback thread and is taken from its queue by an
executor thread; the keyboard hook and the overlay have a thread each; the main
thread belongs to the webview. So the interleavings that matter are those of
coroutines at their awaits, and of a few threads at the objects they share.

| Component | State it keeps | Operations | What is hard | What makes it correct |
|---|---|---|---|---|
| State machine (`pipeline/state_machine.py`) | none: a table | `transition`, `allowed_recovery_actions` | which event in which status | terminal statuses stay; every outcome has a status |
| Run controller (`pipeline/run_controller.py`) | tasks, cancel flags, aborted set, waiting list, insertion gate, recording slot | `start`, `stop`, `cancel`, `recover`, `abort`, `delivery_tick` | every `await` lets another command in | no double typing, none after a cancel, nothing stuck, one recording at a time |
| Insertion protocol (`pipeline/insertion_protocol.py`) | refused windows, its lock | `attempt`, `deliver_next` | claim, recheck, dispatch and outcome are five awaits | claim before dispatch, outcome true of the dispatch |
| Insertion adapters (`insertion/`) | what is borrowed: focus, tab, clipboard | `capture`, `verify`, `bring_forward`, `dispatch`, `confirm`, `restore` | the user and other programs go on between any two calls | the report is true; focus and clipboard come back |
| History (`history/`) | runs, attempts, pending deletions, audio files | `create_run`, `update_run`, `claim_attempt`, `resolve_attempt`, deletions, expiry, `recover_on_startup` | expiry under a claim, eviction, files that cannot be removed, crash | one automatic attempt; the oldest go first; no file forgotten, none of a live run removed |
| Application (`app.py`, `__main__.py`) | services, timers, instance lock, window, tray icon | `startup`, `shutdown`, timers, wiring | order of start and stop across three threads | nothing left recording after a restart; the shutdown ends |
| Commands (`application/commands/`) | dedupe tables, the microphone test | start, stop, cancel, recover, delete, test, settings, dictionary | repeated, late and overlapping commands | a request starts one run at most and is answered |
| Audio (`audio/`) | capture events, queue, stream, lease | start, chunks, stop, cancel | callback thread against consumer against loop | the lease is released once, by its owner |
| Speech to text (`stt/`) | the one active session and its samples | session, `transcribe_file`, speech gate | the session of the last run still busy; silence | the session comes back; speech is not cut, silence not sent |
| Cleanup (`cleanup/`) | cooldowns | `clean` over a chain of models | one budget of time, cancels, pending answers | every model gets its share; nothing is sent after a cancel |
| Hotkeys (`hotkeys/`) | pressed keys, holding, toggled, armed | key down, key up, reset, rebuild | lost key-ups, auto-repeat, two keys of one modifier | starts and stops alternate |
| Models (`application/model_service.py`) | generation, last published, loading | poll, select, load | slow polls against changed selections | readiness of the selected model; loaded in the end |
| Settings and keys (`settings/`) | one row and its backups; one file per key | load, update, recover; get, set, clear | other releases, damage, a crash in a write | carried over or backed up; the old key or the new |
| Dictionary (`dictionary/`) | entries | add, update, delete, import, export, apply | ambiguous terms; folding that changes lengths | unambiguous; replaces what its rules say |
| Storage (`storage/`) | connection, queue, schema version | open, migrate, read, write, close | crash between migrations, callers that give up | each write and migration all or nothing |
| User interface (`ui/`, `web/`) | overlay, window, tray | events, bridge | a timer and a thread behind the facts | shows a recording while it lasts |

How they interact: commands and hotkeys call the controller; the controller
calls history, the captures, the speech engine, the cleanup engine and the
protocol, and launches one coroutine per run; the protocol calls history and the
adapters; history calls the controller back (`abort`, via `call_soon`) when it
drops a run; timers call `delivery_tick`, `poll` and `enforce_retention`; the
controller's events go through the event router to the overlay and the page; the
application recovers history before it serves.

## 2. The modules

| Module | Models | Builds on |
|---|---|---|
| `RunLifecycle` | statuses, transition table, recovery actions | - |
| `RunStore` | run rows and attempts, as the transactions of `HistoryRepo` | `RunLifecycle` |
| `InsertionProtocol` | one delivery operation, await by await | `RunStore` |
| `RunTasks` | the controller's state, the gate, the coroutine of each run | `InsertionProtocol` |
| `RunController` | gate operations, user commands, deletions, crash, startup; `Next`, `Spec`, `FairSpec` | `RunTasks` |
| `DeliveryLedger` | abstract: what the attempts promise about the text | - |
| `RunProperties` | the properties, and the ledger as a refinement | `RunController`, `DeliveryLedger` |
| `RunInvariants` | the inductive invariants | `RunProperties` |
| `RecordingSlot` | `start`, `stop`, `cancel`, `abort`, the retry and the recording half of `_process`, await by await, with the bookkeeping of requests and the speech session | - |
| `AudioCapture` | captures against callback, executor and loop; the device lease | - |
| `Microphone` | recordings and microphone tests over the captures | `AudioCapture` |
| `Hotkeys` | listener, service, posted callbacks, hold and toggle mode | - |
| `Overlay` | events of runs, event router, ticks, the overlay's thread | - |
| `CleanupChain` | the hosted models under one budget, cooldowns, cancels | - |
| `Destination` | a text on its way into a field on a desktop others use too | - |
| `SpeechGate` | the part of a recording that is sent | - |
| `AppLifecycle` | processes, instance lock, startup, window, shutdown | - |
| `ModelHealth` | settings updates, readiness polls, background loads | - |
| `Database` | thread, queue, migrations, transactions, releases, crash | `TransactionStore` (refinement) |
| `TransactionStore` | abstract: writes whole or not at all, answers that are true | - |
| `Retention` | rows, files, eviction, expiry, the retention loop, recovery | - |
| `DictionaryRepo`, `DictionaryText` | the stored entries; the replacement scan | - |
| `SettingsStore`, `SecretStore` | the row of settings over launches and releases; the file of a key | - |
| `MCRunController`, `MCRecording`, `MCApplication` | the instances TLC checks | the above |
| `RunTypeProofs`, `RunRouteProofs`, `RunDeliveryProofs`, `RunCancelProofs` | the controller: types and claims; the way to the gate; deliveries and ledger; cancels and deletions. Each builds on the ones before | `RunInvariants` |
| `RecordingProofs` | the slot; the microphone; the shortcuts | `RecordingSlot`, `Microphone`, `Hotkeys` |
| `OutputProofs` | the model chain; the text on its way; what the abstract ledger promises | `CleanupChain`, `Destination`, `DeliveryLedger` |
| `ApplicationProofs` | processes; settings and models; database, settings row, keys, dictionary | `AppLifecycle`, `ModelHealth`, `Database`, `SettingsStore`, `SecretStore`, `DictionaryRepo` |
| `HistoryProofs` | the history on disk, its limits and its loop | `Retention` |

The definitions of a component that is proved about carry its name (`CleanupInit`,
`DestinationTypeOK`, `DictionarySpec`), so that one proof module and one MC module
can extend several components: TLC then checks the very definitions that the
theorems are about, at the constants of the `.cfg`.

An action is the code from one await to the next, or from one call of another
thread's object to the next. Where nothing another coroutine does in between can
be told apart, consecutive segments are one action.

### The controller

* `rows[r]` is the row of run `r`, with the columns decisions are made by. The
  text columns are one value: `none`, `original` (no selection) or `selected`.
  `cleanup` keeps `off`, `pending` and `settled` apart (`ok`, `failed` and
  `rejected` decide nothing). `since` is the rank of `awaiting_since`.
* `attempts[r]` are the rows of `insertion_attempts`, in order; deleting a run
  deletes them (the cascade of the schema).
* `op` and `queue` are the insertion gate: an `asyncio.Lock` is FIFO, and its
  holder runs one operation at a time. The protocol's own lock is only ever
  taken under the gate. Waiting for the gate is being in `queue`.
* `task[r]`, `orphan[r]`, `pend[r]` are coroutines: the one in `_tasks`, a
  finished one whose `finally` still awaits a read when a recovery replaces it,
  and a recovery that has committed its status and not launched its coroutine.
* `flagged`, `aborted`, `waiting` are `_cancel_flags`, `_aborted`, `_waiting`.
* `aged` and `deferred` are retention: runs past their age under the protection
  of an attempt in flight, and scheduled `on_run_evicted` callbacks.
* `typed`, `cancelWanted`, `spent` are observed only: how often the text of a
  run may have reached a field, whom the user cancelled before the dispatch, and
  which versions an explicit insert has typed for. No action is guarded by them.

The merges: `start` up to the launch of its coroutine (`RecordingSlot` has it
await by await); the read and write of `_transition` while the run's coroutine
is the only writer of its row; the selection of a text and the request for the
gate. A run that has no destination to begin with behaves like one whose first
verification answers "held". The last write of an automatic delivery is two
actions (`AutoApply`, `AutoSettle`) because a cancel or an abort in that await is
what the code handles badly or well; the same is true of `RecoverCommit` and
`RecoverLaunch`, of `CancelStart` and `CancelWrite`, and of `Delete` and
`RemoveRow`.

### The recording side

* `RecordingSlot`: `slot` and `active` are `_slot_reserved` and
  `_active_run_id`, which do not change together; that they do not is what the
  module is about. `startAt`, `proc` and `retry` are the places of the three
  coroutines of a run; `_captures`, `_sessions` and `_tasks` follow from them.
  `request`, `pending`, `dedupe`, `invalidated` belong to `RunCommands`.
* `AudioCapture`: `callback` past its check of `_accepting`, `consumer` between
  the answer of the executor and the loop that sees it, and `busy` while the
  loop is blocked in closing a stream are the three places where threads meet.
  Blocks are counted. `Microphone` adds the pump, timer and finally clause of a
  test, and starts that wait for a test to finish.
* `Hotkeys`: `held` is the keyboard, `down` the listener's count, `pressed`,
  `holding`, `toggled` and `armed` the service; a key-up may be lost, and the
  service may be rebuilt while keys are down. Callbacks wait in `posted`.
* `Overlay`: a run is the events it publishes, in the controller's order; `hides`
  are the timers of the router, `commands` the queue of the overlay's thread,
  `picture` what was drawn last.
* `CleanupChain`: time is in ticks; a call has its budget, the time of its
  attempt and its place in the chain; cooldowns are shared.
* `Destination`: windows with tabs with fields; `front`, `tab` and `focus` are the
  desktop, `content` the fields, `keys` what was sent and not yet taken by the
  program of the field. `at` goes through every call of `deliver_next` and of the
  adapters. The user and other programs may make `MoveMax` moves between any two.
  Typing is Unicode keys or a paste; the paste borrows `clipboard`. A tab may not
  be readable (`ReadTab`, the `None` of `selected_tab`), neither when the
  destination is captured nor when a jump remembers where the user was; `restore`
  has no tab to go back to then.
* `SpeechGate`: a recording is the levels of its frames in dB, and the samples
  left over; `find_speech` is computed as in the code, with the 10th percentile as noise.

### The application side

* `AppLifecycle`: per process its main thread, worker thread, flags, and how far
  `shutdown` has come; `run` and `update` are commands between their awaits.
  Another process may be launched at any time; a crash ends one at any step.
* `ModelHealth`: `stored` is the row, `current` the snapshot, `generation`, `lock`,
  `last` of the model service; `work[a]` is where editor, timer or load task is
  and what settings it read. The settings are reduced to provider, models and
  switch.
* `Database`: `disk` is the file, `tx` the open transaction, `thread` and `queue`
  the executor, `result` and `answer` what a job gave and what its caller was
  told. A launch is of any release in `Shipped`.
* `Retention`: `op[o]` is an operation of the repository between its transaction,
  the removal of files and the refresh of the next expiry; `wav` is the writer of
  a run whose file appears on its first write. `next` is the expiry the repository
  knows, `wake` the time the loop sleeps until, `sweep` the operation it awaits.
  `allowed` is a workload: what users do in this behaviour (delete one, delete
  all, insert), how many runs they start and attempts they make, how many removals
  fail, how many processes end.
* `DictionaryText`: `Replacements` is the scan over folded text with its map of
  spans, folded cluster by cluster; `Normalize` folds a term as a whole, where
  clusters that follow each other may compose (`Compose`). `ByTheRules` says of every result, in terms of the source alone, what
  the rules of the module's documentation ask for.
* `SettingsStore`: data is a function from field names to values, as the JSON is;
  fields may be missing or those of another release. `SecretStore`: one file and
  its temporary one, and whether each is on the disk.

### Steps that are merged, and what they leave out

* `Hotkeys!Rebuild` is one step: the listener is stopped and the new service put
  in its place, while in the code a key may still be on its way through the old
  service on the listener's thread (`pynput_listener.py:152`,
  `hotkey_service.py:84`).
* `RunController!TickStart` reads the run it chose (`run_controller.py:711`) in
  the step in which `deliver_next` begins (line 717).
* `InsertionProtocol!ClaimA` fails before the claim is committed. The refresh of
  the next expiry after the commit (`repo.py:368`) may fail too and leave a claim
  nobody resolves; that is the state a fault in storing the outcome leaves.
* `RecordingSlot!RecordingF` is a failure while the microphone is open; one while
  the rest is drained after the stop (`run_controller.py:798`) is left out.
* `RecordingSlot!CancelRow` reads and writes the row of a cancelled run in one
  step; `RunController` has these two apart (`CancelStart`, `CancelWrite`).
* `Retention!RemoveOrphans` tries all files that belong to no row in one step. Any
  part of them may stay, which counts as one failure.
* `DictionaryRepo!Import` counts entries and not bytes: a file of more than
  `MAX_IMPORT_BYTES` (1,000,000) is refused as well (`import_export.py:69`).

## 3. What is checked

### How the runs are composed

The controller's runs (`MCRunController`) have one or two runs and the limits
below. The other machines share no variable with each other, so TLC checks
several of them in one run: a behaviour of `MCRecording` or `MCApplication`
belongs to one machine, chosen at the start, while the others stand still. A
property of one machine that holds while it moves alone holds in every
interleaving with the others, and the state spaces add up instead of
multiplying. A property names the machine it is about where its instances have
different bounds. Where two components do interact, they are in one machine:
captures, recordings and tests (`Microphone`); requests, slot, microphone and
speech session (`RecordingSlot`); listener, service, callbacks and active run
(`Hotkeys`); controller events, router and overlay thread (`Overlay`); store,
model service and load task (`ModelHealth`); history, files and the retention
loop (`Retention`); two processes and what they share (`AppLifecycle`).

What one machine takes from another is a choice in it: `RunController` lets the
destination answer anything, `Destination` shows what the answers mean;
`RecordingSlot` lets the microphone fail, `Microphone` says when it may.

### The runs

`Limits` counts, per behaviour, steps of users and of failures. Nothing else is
bounded but by the instances below. Runs, requests, captures and calls are
numbered in the order in which they come, where a symmetry set would do the same
but could not be used with liveness. Deadlock checking is off because the user
may stop and everything may end.

| Run | Instance | Shows |
|---|---|---|
| `hazards` | 1 run; one cancel, recovery, fault, crash and removal | the invariants, step properties and the ledger, under every order of them |
| `cancellation` | 2 runs, symmetric; one cancel, one removal | a cancel or a deletion is respected, also in the queue for the gate behind another run |
| `progress` | 1 run, fair; cancel, recovery, crash, removal | `ProcessingEnds` |
| `queueing` | 2 runs, fair, no interference | `WaitingEnds` |
| `recording` | eight machines, see below | slot, microphone, shortcuts, overlay, cleanup, destination and speech: safety |
| `recording_progress` | four machines, three of them fair | deletions at every await; device, test and overlay let go |
| `application` | eight machines | processes, settings, database, history, dictionary, keys: safety and refinement |
| `application_progress` | four machines, fair | shutdown, load, readiness and database answers come |

The machines of `MCRecording`:

| Machine | Instance | Why it is enough |
|---|---|---|
| `slot` of `recording` | 3 runs, 3 requests; 1 repetition, fault, cancel, 2 retries, one of them before the failed run has let go | three starts: one holding the slot, one unwinding, one that finds it free; and the early retry with a recording beside it |
| `slot` of `recording_progress` | 2 runs; 1 repetition, 1 cancel, 2 deletions | deletion of one and of all at every await, fair |
| `blocks` | 1 recording, 1 test, queue of 2 | the queue overflows and holds more than one block |
| `tests` | 3 captures, all tests, 2 waiting starts | two starts wait for the same finishing test |
| `released` | 1 recording, 1 test, fair | who waits for the device and who holds it |
| `shortcuts` | two keys of a modifier, one of another, two shortcuts; 1 lost key-up, 1 rebuild, 1 end | each way to lose a key once, and each change of the mode |
| `overlay`, `ending` | 2 runs, 3 commands in the queue | one run's end against the next one's start |
| `cleanup` | 2 dictations, 3 models, budget 5, attempt 3, cooldown 2 | a share less than an attempt, a cooldown that ends within a call |
| `typing` | 4 fields, 3 tabs, 2 windows, 2 moves | another field of the tab, another tab, another window; a move and a move back |
| `speech` | up to 6 frames of 4 levels, 2 samples each | below the floor, near it, above the noise, clearly audible; margins that are no multiple of a frame |

And of `MCApplication`:

| Machine | Instance | Why it is enough |
|---|---|---|
| `processes` of each run | 2 launches; 1 launch, fair | the second meets what the first left, or the first itself |
| `edits` | 2 editors, 5 requests, 1 failing load | both wait for the store; the key is edited as well |
| `loaded`, `told` | 1 editor, 1 failure, 1 dropped model; 2 editors; fair | every actor can overlap every other once |
| `database` | 2 writes of 2 statements, 2 releases | a write behind a write, an upgrade and a downgrade |
| `history` | at most 2 kept, limit of 2 ticks, 3 ticks, 2 operations; one of four workloads: 3 starts and a crash; 2 with deletions, a failed removal and a crash; 3 with an attempt; 1 with the deletion of all and a failed removal | an eviction, and an operation inside another's awaits; the oldest may not go; a run created between list and deletion |
| `rows` | 4 entries over 3 terms, 2 files, 4 rows ever | every way in which two entries meet |
| `text` | all texts up to 4 of 7 clusters, and of those in which some compose; 4 dictionaries | a match next to a match, inside a ligature, across spaces; a term whose letters compose |
| `settings` | 6 rows of others, 9 patches, 5 launches, 2 edits, 2 backups | a third backup drops the first |
| `secret` | 2 keys, 3 calls, 2 power failures | a failure in the recovery of a failure |

Four more runs expect a violation (section 4).

### The properties

The controller (`RunProperties`):

* `WriteAheadClaim`: a retained run whose text may have been typed has an
  attempt that says so. `DoneMeansTyped`: "done" and "inserted" are not said of
  text that was never sent.
* `OneAttemptAtATime`: one automatic attempt per run, and while all outcomes
  could be stored, one attempt in flight. (A fault leaves an attempt in flight
  that an expired run's operation had cancelled; the delivery tick may then
  claim once more, nothing having been typed.)
* `StatusTellsClaims` (`ChoiceUntouched`, `WaitingMatchesRow`): nothing is
  claimed while the user has to choose; the waiting list and the rows agree.
* `NoSilentDuplicate`, `SettledStays`: a second typing needs an acknowledged
  explicit insert; late results do not overwrite a settled run or attempt.
* `CancelIsObeyed` (`CancelledNeverTyped`, `CancelSuppressesDispatch`) and
  `DeletedNotDelivered`: cancel and delete mean it. `CancelSuppressesDispatch`
  is checked without recovery commands, where it holds; with them it does not
  (section 4). `DeletedNotDelivered` is about deliveries the program began
  itself, without recoveries for the same reason. `CancelledNeverTyped` leaves
  out a run whose deletion is under way, whose row no longer receives its
  outcome, and is checked without faults and crashes (section 5).
* `LedgerKept`: the controller implements `DeliveryLedger`; per run `clean`,
  `open`, `inserted`, `unsure` or `gone`, with the operation between claim and
  dispatch as `armed`.
* `ProcessingEnds`, `WaitingEnds`: every run leaves processing, and the oldest
  waiting run does not block the others.

The properties of `MCRecording` and `MCApplication` state what a component
promises as a whole; the parts, in brackets, are definitions of its module, and
each part has a mutant of its own. The recording side:

* `SlotIsOwned` (`SlotHasOwner`, `OpenMicIsActive`, `SessionHasProcess`): what
  is taken belongs to a coroutine that will give it back, and the run that
  records is the one the commands reach. The first two are claimed as long as no
  retry came before the failed run had let go, because with an early retry the
  slot does get a second owner, and the session as long as no request came again
  after its run had failed, whose start has no row (both in section 4). The three
  are about behaviours without deletions, which have their own properties.
* `DeletedIsOver` (`NeverOrphaned`, `DeletedLetsGo`), `StartAnsweredOnce`
  (`AnsweredOnce`, `StartAnswered`): deletions at every await of a start.
* `MicrophoneIsOwned` (`StreamHasLease`, `TestIsStoppable`,
  `AcceptsWhileOpen`), `MicrophoneReturned` (`LeaseReturned`, `TestEnds`): one
  capture reads, the one that can be stopped, and it gives the device back.
* `ShortcutsAreFollowed` (`HoldingKeysDown`, `ModifiersCounted`,
  `StartOrStopInTurn`, `FiresOnPress`), in either mode and across a change of it.
  "Down" is what the listener was told: a key-up that is lost leaves the hold on
  (section 4). `FiresOnPress` is claimed until a new service takes over, which
  takes the auto-repeat of a key that is still down for a press.
* `OverlayIsTrue` (`NoStopTick`, `ListeningIsDrawn`, `HiddenAtTheEnd`,
  `DestroyEnds`). `HiddenAtTheEnd` is without deleted runs, whose end nobody
  publishes (section 4).
* `NoneStarved` and `CancelledIsOver` (`SendsUncancelled`, `CleansUncancelled`):
  the hosted models.
* `OutcomeIsTrue` (with `StrayNeedsMove`): "inserted" means that the field got
  the text and no other field did; "failed" that nothing arrived and nothing
  will; text lands elsewhere only if the focus moved after the last look at it.
  `BorrowedGivenBack` (`ClipboardGivenBack`, `FocusGivenBack`): what was borrowed
  comes back, clipboard, window and tab. The one exception is a tab that could not
  be read when the jump began, in the window of the destination (section 4).
* `SpeechIsSent` (`LoudNeverLost`, `QuietNeverSent`): the speech gate, from both
  sides.

The application side:

* `ProcessesTakeTurns` (`OpenUnderLock`, `NoneLeftGoing`, `HiddenHasIcon`) and
  `ShutdownCompletes` (`ShutdownEnds`, and `EveryWriteAnswered` of the database).
* `EditsAreKept` (`StoredIsCurrent`, `ChangesOnlyPatched`, `PublishesChosen`),
  `EventuallyTheChoice`, `EventuallyLoaded`: settings and models. That a poll
  publishes only the model chosen at that moment is claimed as long as nobody
  used the model selector, which invalidates before its write and not after it
  (section 4).
* `SchemaIsKept` (`SchemaIsVersion`, `NewerIsUntouched`) and `Implements`, the
  refinement of `TransactionStore`: the database.
* `FilesFollowRows` (`FilesListed`, `KeepsLiveFiles`), `AgeDecides`
  (`NeverOverdue`, `ExpiryIsRight`, `OldestLeave`) and `NeverCrowded`: the
  history. A run that is created leaves no more than the limit, or evicts all that
  no attempt protects. (On the instance, one attempt and room for two, eviction
  always makes room; the theorem is about any number of attempts.) `FilesListed` is
  without the deletion of all runs, where it does not hold (section 4), and
  `NeverOverdue` without attempts in flight, which delay the expiry of their run.
* `EntriesAreSound` (`NoAmbiguity`, `SameEntry`, `RestoresDeleted`) and
  `FollowsTheRules`: the dictionary. A span whose clusters compose is left out of
  the rules (section 4).
* `SettingsSurvive` (`CarriesOverOrBacksUp`, `RecoversOnlyOthers`): what the
  program replaces in the row it carries over, field by field, or backs up
  whole; and it never takes its own settings for damaged. `OldOrNewKey`: the file
  of a key is the old one or the new one, whatever fails in between.

### Fairness

Weak fairness for what the event loop runs as soon as it is ready, what a thread
does next, and what has a time limit: `Deliver`, `Gate`, `TickDue`, `Startup`
and, per run, `Work` and `Background` of the controller (`WaitLimit`, a clock
passing a limit, among them); the steps of start, process, retry and commit of
`RecordingSlot`; the timer, the queue and the load task of `ModelHealth`; the
startup, the shutdown and the exit of `AppLifecycle`; the thread of `Database`
and the delivery of its answers; the hide timer and the commands of `Overlay`.

Strong fairness where something else may disable a step again and again: the
threads of one capture and its pump while the loop is closing another's stream
(it blocks, then runs everything that is ready); a coroutine that waits for the
publication lock (an `asyncio.Lock` serves its waiters in order, and
`SelectLocks` and `Publishes` have no queue); the repainting of a frame, which
fails again only finitely often in a row.

Nothing is fair that a user, a device, a model or a crash does: cancels,
recoveries, deletions, key presses, faults, the end of a recording.

## 4. Where the code and its documentation disagree

Four runs expect a violation. Each checks one sentence of the repository.

* `lost_cancel`: `recover` resets the cancel flag after the await of its update,
  and so forgets a cancel that came in between. The text is typed.
* `stuck_cancel`: a cancel that meets a waiting run while the coroutine's
  `finally` awaits its last read leaves the row to a coroutine that does nothing
  more. The row waits for ever, and no tick knows of it.
* `repeated_insert`: an explicit insert that ends uncertain on an uncertain run
  changes neither status nor version, so the same command is accepted again.
* `deleted_dispatch`: `abort` does not see an explicit insert under the gate,
  which then types the text of a deleted run.

The modules have more of them, without a run of their own: what the models allow
here is what the code does, and the properties above are stated so that they do
not claim the contrary.

* The slot. An abort of a starting run frees the slot at once; when its start
  unwinds it finds no active run and frees the slot of the next start
  (`run_controller.py:235`, against "Reject overlapping starts" of the code
  map). `create_run` returns the row an earlier failed start left under the same
  request, and the new start records under an id that has no row
  (`repo.py:149`). A request whose pending start was aborted by the deletion may
  be delivered again (`run_commands.py:46`). A cancel between the row and the
  capture does not stop the start (`run_controller.py:311`). The `finally` clause
  of a failed `_process` frees the slot that an early retry has taken
  (`run_controller.py:890`), although line 527 holds it until the transcription
  returns. A run aborted after its capture ended leaves the speech session taken
  (`run_controller.py:836`).
* Audio. A block that arrives between the timeout of `queue.get` and the stop is
  not drained (`capture.py:158`).
* Shortcuts. The stop of a hold and the second press of a toggle look for the
  active run, which there is not while a start awaits: the recording goes on
  (`app.py:836`, `app.py:804`). A key-up that is lost leaves a hold recording
  until the key is pressed again (`hotkey_service.py:76`).
* Models. A poll that began in the await of `select` has the new generation and
  the old choice, and publishes after it (`model_service.py:190`). A forced load
  may be replaced by an unforced one in the step between a load's end and its
  callback (`app.py:916`). LM Studio may drop the model between `clean`'s check
  and its request, which loads it again (`lmstudio_cleanup.py:107`).
* History. The retention loop sleeps until the expiry it read and is not woken
  by a change (`app.py:957`). `delete_all` removes rows of runs that started
  after it listed them, and the recorder creates their file again
  (`history_commands.py:60`). Pending files of an empty history are retried only
  at the next use or start (`repo.py:577`).
* Start and exit. A startup that fails lets `main` release the instance lock
  while the worker still closes the database (`app.py:1144`). A settings update
  in its await rebuilds the hook after the shutdown stopped it (`app.py:634`),
  and a start in its await opens the microphone (`run_controller.py:346`). A
  webview that fails before the worker's loop runs leaves `run` waiting
  (`app.py:973`).
* Overlay. The hide 1.5 s after a run's end is not cancelled by the next
  recording (`app.py:241`); a deleted run publishes nothing and the overlay stays
  (`run_controller.py:1233`); a stop whose event comes after the next start is
  not ticked (`app.py:248`).
* Dictionary. A replacement and its neighbours may make a term of another entry,
  which a second application replaces; a dictionary that outgrew
  `MAX_IMPORT_ENTRIES` or `MAX_IMPORT_BYTES` cannot be imported from its own
  export. Terms are folded as a whole (`apply.py:23`), the text cluster by cluster
  (`apply.py:118`), so a term whose normal form is composed across clusters (the
  jamo of a Hangul syllable, a halfwidth kana with its voiced mark) is not found
  where the text has it decomposed; `test_dictionary.py:65`, which asks for
  canonical composition, tries a combining mark only, which is in the cluster.
* Insertion. Input during an idle jump ends in `error`
  (`insertion_protocol.py:215`), where the code map has the run go on waiting. A
  text the user copies while a paste settles is overwritten by what he had
  before, and a clipboard without text is cleared (`inserter.py:154`).
  Unicode keys are not waited for: when the focus is given back, those the
  program of the field has not taken yet go to the user's own window. When the tab
  in front could not be read (`inserter.py:55`) and the destination is another tab
  of that window, a jump that fails leaves the user there (`inserter.py:98`).
* Settings and keys. The row of a newer release is backed up and reset, so the
  newer release finds the defaults afterwards. Temporary files of a power failure
  are never removed.

## 5. What is proved

For every value of the constants, under the assumptions named:

| Theorem | States | From |
|---|---|---|
| `RunTypeProofs!TypeCorrect` | `Spec => []TypeOK` | `RunsAssumption`, `LimitsAssumption` |
| `RunTypeProofs!ClaimIsWrittenAhead`, `DoneIsTyped` | `[]WriteAheadClaim`, `[]DoneMeansTyped` | the same |
| `RunRouteProofs!StatusIsTrue` (from `RouteIsSafe`) | `[]StatusTellsClaims` | the same |
| `RunDeliveryProofs!AttemptsAreSingle`, `NothingTypedTwice` (from `DeliveryIsSafe`) | `[]OneAttemptAtATime`, `NoSilentDuplicate` | the same |
| `RunDeliveryProofs!SettledIsFinal` | `SettledStays` | the same |
| `RunDeliveryProofs!AttemptsKeepLedger` | `Spec => LedgerKept`: the controller implements `DeliveryLedger` | the same |
| `RunCancelProofs!DeletedIsNotDelivered`, `CancelSuppresses` (from `MarksAreKept`) | `DeletedNotDelivered`, `CancelSuppressesDispatch` | the same, and `NoRecovery` |
| `RunCancelProofs!CancellationIsObeyed` (from `CalmIsKept`) | `CancelIsObeyed` | the same, and `Undisturbed` |
| `OutputProofs!LedgerIsTrue` | the abstract ledger means what it says | none |
| `OutputProofs!NoneEverStarved`, `CancelledIsAlwaysOver` (from `ChainInvariantAlways`) | `[]NoneStarved`, `CancelledIsOver` | `CleanupAssumption` |
| `RecordingProofs!SlotIsAlwaysOwned` (from `SlotInvAlways`) | `[]SlotIsOwned` | `SlotAssumption` |
| `RecordingProofs!DeletedNeverRecords`, `AnsweredOnlyOnce` (from the same) | `[]NeverOrphaned`, `[]AnsweredOnce`: the safety halves of `DeletedIsOver` and `StartAnsweredOnce` | the same |
| `RecordingProofs!MicrophoneIsAlwaysOwned` (from `MicInvAlways`) | `MicrophoneIsOwned` | `MicAssumption` |
| `RecordingProofs!ShortcutsAreAlwaysFollowed` (from `KeysInvAlways`) | `ShortcutsAreFollowed` | `KeysAssumption` |
| `OutputProofs!OutcomeIsAlwaysTrue`, `BorrowedIsGivenBack` (from `DestinationInvariantAlways`) | `[]OutcomeIsTrue`, `[]BorrowedGivenBack` | `DestinationAssumption` |
| `ApplicationProofs!ProcessesAlwaysTakeTurns` (from `LifeInvAlways`) | `[]ProcessesTakeTurns` | `LifeAssumption` |
| `ApplicationProofs!EditsAreAlwaysKept` (from `ModelsInvAlways`) | `EditsAreKept` | `ModelsAssumption` |
| `HistoryProofs!FilesAlwaysFollowRows`, `AgeAlwaysDecides`, `HistoryNeverCrowded` (from `HistoryInvAlways`) | `FilesFollowRows`, `AgeDecides`, `NeverCrowded` | `HistoryAssumption` |
| `ApplicationProofs!SchemaIsAlwaysVersion`, `NewerAlwaysUntouched` | `[]SchemaIsVersion`, `NewerIsUntouched`; both as `SchemaIsKept` (`SchemaIsAlwaysKept`) | `ShippedAssumption`, `JobsAssumption` |
| `ApplicationProofs!DatabaseImplementsStore` | `Spec => Implements` | the same |
| `ApplicationProofs!RecoversOnlyOthersAlways`, `AlwaysCarriesOverOrBacksUp` | `RecoversOnlyOthers`, `CarriesOverOrBacksUp`; both as `SettingsSurvive` (`SettingsAlwaysSurvive`) | `SettingsAssumption` |
| `ApplicationProofs!OldOrNewKeyAlways` | `[]OldOrNewKey` | `SecretAssumption` |
| `ApplicationProofs!EntriesAreAlwaysSound` | `[]EntriesAreSound` | `DictionaryAssumption` |

The assumptions say little. `RunsAssumption`: the value that stands for no run is
not a run; `LimitsAssumption`: the limits are numbers; `SlotAssumption` and `MicAssumption`:
what stands for no run, request or capture is none, captures are numbered and
tests are captures; `KeysAssumption`: the two shortcuts differ and neither ends
in a modifier (`parse_binding` refuses it); `LifeAssumption`: processes are
numbered in the order of their launch; `ModelsAssumption`: a request names a
model, or fields of the settings with values they may have (the patch is
validated before it is stored); `HistoryAssumption`: runs and operations are
numbered, the limits are positive, and without an expiry the loop looks again
within the time a run is kept (60 s of a day, `app.py:955`); `ShippedAssumption` and
`JobsAssumption`: migrations are numbered, and a write is not one of the thread's
other jobs; `SettingsAssumption`: the defaults are valid, a formatted
shortcut is read back as itself, and the schema of this release does not have
the field that release 2 dropped; `SecretAssumption`: no key looks like a
torn file or like none; `CleanupAssumption`: dictations are numbered, the chain
has a model, and no time is zero, which the constructor refuses
(`nvidia_cleanup.py:87`); `DestinationAssumption`: every window has a tab and
every tab a field (a window without tabs is one with a single tab), and no name
stands for two things; `DictionaryAssumption`: the limits are numbers, and what
is entered or imported are entries. TLC evaluates each of them on the instances
it checks. The instances of the other modules are checked likewise
(`InstancesAreSound`, `ConstantsAreSound`).

* *The controller.* `TypeOK` is not inductive: `cancel` writes the row it read
  before an await, and the move it makes exists in the table only because a row
  with the same version is the same row. So the invariant is `TypeInvariant`,
  which adds `CancelRead` (versions grow, and at the version that was read the
  cancel is still accepted), `NothingBeforeStart` and `DownIsIdle`. For the
  claims it is `ClaimInvariant`: the attempt an operation has claimed is in
  flight until that operation resolves it (`ClaimInFlight`); for typed text there
  is a witness attempt other than a claim that has typed nothing (`TypedIsTold`),
  which is what lets a later failed or cancelled claim be resolved without losing
  the witness; an operation that reports an insertion has typed
  (`InsertedIsTyped`). Most actions touch neither attempts nor the operation: one
  lemma for such quiet steps disposes of them, and the proof has a step for each
  of the rest.
* *The way to the gate.* `StatusTellsClaims` says that nothing is claimed while
  the user still has to choose, and the row alone does not give that: what has to
  be known is who may yet claim. `RouteInvariant` says it per run: at most one
  coroutine, one request in the queue and one waiting entry lead to the gate, and
  never two of them for the same run (`OneCoroutine`, `WaitersRest`); while the
  text is still to be chosen there is none of them and no attempt
  (`ChoosingIsSafe`); what waits has a row that awaits it (`WaitingRow`); an
  explicit insert still at the version it read finds a row that takes it
  (`ExplicitRead`, as `CancelRead` for cancels). A step is about one run, or about
  the operation in the gate; `RouteElsewhere` disposes of the other runs once.
* *The deliveries.* `DeliveryInvariant` adds what a claim may find. Whoever may
  still claim automatically finds nothing typed, or an automatic attempt that
  makes the unique index refuse the claim (`AutomaticIsClear`). An attempt that
  is in flight while no operation will resolve it (`Loose`: a fault or a crash
  left it) keeps every later claim of its run from dispatching
  (`LooseIsStuck`): the one exception, a run past its age, ends at the recheck.
  After an insertion that is known nothing is claimed (`InsertedIsFinal`).
  `NothingLoose` and `OneAttempt` say that a loose attempt needs a fault that was
  counted. Only the steps of the protocol change attempts or type; they are taken
  one by one (`DeliverKeepsDelivery`), the rest leaves a run alone, deletes it, or
  begins or ends an operation.
* *The ledger.* `AttemptsKeepLedger` maps every step of the controller to a step
  of `DeliveryLedger` or to a stutter, with the invariants of types, claims, way
  and deliveries as hypotheses: a claim opens (`ClaimOpens`), a stored outcome
  settles (`ResolveSettles`), the recheck arms and the dispatch types
  (`ProtocolArms`), a restart settles what was in flight as unsure
  (`RestartLedger`), a removed row is forgotten (`LedgerForgets`), and everything
  else leaves the ledger as it is (`OutsideLedger`).
* *Cancels and deletions.* Both are promises the code keeps only without the
  recovery commands (section 4), so the theorems assume
  `NoRecovery`, that is `Limits["recover"] = 0`, and leave faults, crashes,
  cancels and deletions free. `MarksInvariant` says why a request reaches the
  work it is about: a coroutine of a run that is cancelled has its flag, one of a
  run that is being deleted is in the aborted set, a waiting run is taken off the
  list, and whoever has passed the check of the flags is at the dispatch already
  (`CancelIsMarked`, `DeletedIsMarked`); a cancel asks for the gate only when the
  run rests (`CancelRests`). A step is summed up by what it does to the marks of
  one run (`KeepsMarks`, `KeepsDelivery`), and `MarksFollow` draws the conclusion
  once.
* *A cancelled run was not typed.* `CancelledNeverTyped` needs more
  (`Undisturbed`: no recoveries, no faults, no crashes). Each of the three alone
  refutes it, as TLC shows on one run and one cancel: the write of an outcome
  fails after the text was typed, or the program ends between the typing and the
  write, and the row still takes a cancel, although the attempt tells that the
  text may have been typed; or the cancel is written between the update of a
  recovery and its launch, and the coroutine delivers the cancelled row.
  Undisturbed, the coroutine is the only writer of its row until
  the delivery (`OnlyWriter`), so the outcome is stored over the version it knows;
  a dispatch that may have typed says so (`TypedIsReported`); what is on its way
  is not typed (`UndeliveredIsUntyped`); and a typed run takes no cancel outside
  the operation that delivers it (`TypedIsOver`). That is the setting of the
  run `cancellation`, for any number of runs, cancels and deletions.
* *The slot.* The slot, the active run, the flags, the session and the row of a
  run are changed by start, task, retry, cancel and deletion, each of which reads
  some of them before an await. `SlotInv` says what each may find: before a run records it has no task,
  no capture and no retry, and its row is as `create_run` made it (`StartsFirst`);
  a start or retry that has the slot has it alone and finds no active run, and an
  open microphone is the active run's (`OneOwner`); every run that stops has a
  row, unless its request was repeated (`OneRunEach`), since `_process` leaves the
  session of a run without one; nothing is aborted without deletions
  (`NothingAborted`). For deletions: a run whose row is gone while its start goes
  on is in the starting set or already aborted (`OrphansStopped`); for requests:
  an answer is remembered, or invalidated for ever (`AnswersKept`).
* *The microphone.* `MicInv` says that token and lease go together and a stream
  never is without them, so that a capture which refuses to open changes nothing;
  that a capture which was told to stop keeps its stream only while the loop waits
  for it; and that a test whose pump is done, which the next start may replace,
  does not have the lease any more.
* *The shortcuts.* For `StartOrStopInTurn` a hold is exactly a "start" that was
  posted last (`HoldIsPosted`); a rebuild posts the stop of a hold whatever the
  mode of the new service is. For `FiresOnPress` a dictation key that is down is
  known to be (`PressIsKnown`), so that its auto-repeat is not a press. The
  listener's count of both sides of a modifier and the service's view of it agree
  in every state by themselves (`ModifiersCounted`).
* *The model chain.* `NoneStarved` speaks of calls that ended. What is inductive
  is `OwedIsReached`: a model that was ready when the call began, and that nobody
  has seen fail since, lies behind the one the call is at, and the attempt leaves
  it time. The second half is an inequality about the division of the rest of the
  budget among the models that are left (`ShareIsPart`, `PartIsSmall`).
* *The text on its way.* `DestinationInvariant` follows the call sequence. Keys
  are sent once, and after that no attempt follows (`SentOnce`); the text is in
  no field where it was not seen to land (`TextIsSeen`); from the last look to the
  last key the field in focus is the field of the run, or the focus moved after
  that look (`Aimed`). For what is borrowed, the clipboard is the user's or the
  paste knows what to put back (`ClipboardKept`), and the user is where he was, or
  the jump knows where that is (`FocusKept`), unless he moved on himself. A jump
  changes the tab of the destination's window only (`TabsKept`), which is why a tab
  that could not be read is lost nowhere else, and what it remembers is where the
  user was but for such a tab (`Remembered`). The proof takes each conjunct over all steps, in lemmas of their own, because most
  steps disturb only one or two of them.
* *The processes.* Main thread and worker know of each other by flags only, so
  `LifeInv` says what each flag tells (`ThreadsAgree`): a startup that failed is
  flagged, the main thread leaves when one of the two is over, and the shutdown
  begins after the windows are gone (`WindowsAgree`). From that follow the two
  facts about several processes: whoever comes up, serves or shuts down has the
  lock until the last step of its shutdown (`LockIsHeld`), and from its recovery
  on no other process has a run that is going on (`OthersEnded`), since only the
  holder of the lock can create one.
* *The settings and the models.* An editor is in the store exactly while it has
  the store's lock, and what it wrote is the row (`StoreIsHeld`), hence the
  snapshot is the row when none is. For `PublishesChosen` it is `PollsAreFresh`: a
  poll whose generation is still the present one began with the settings in use,
  or has been told of their model, because every edit that changes them begins a
  generation in the same step.
* *The history.* `FilesListed` needs that a file whose removal goes on, or whose
  path is to be taken off the list, cannot come into being again: what has left
  has no row any more (`PathsAreGone`), what was not created is nowhere
  (`UnbornIsNowhere`), and without a deletion of all a recording that goes on has
  its row (`RowsHoldFiles`), which expiry cannot take from it because it is young
  (`RecordingIsYoung`) and eviction not, because no run starts while another is
  recorded. For the age, `NeverOverdue` is a race of the loop with the clock:
  while it sleeps, it wakes before the oldest run is over, and while it does not,
  the expiry it is about to read is early enough for every run but those of this
  very moment, which stay longer than the loop ever sleeps without an expiry
  (`LoopIsInTime`, `ClockIsAhead`). Rows are a set, so that the first and the
  oldest `n` of a finite set have to be shown to exist; that is by the
  well-founded order of its subsets (`FirstExists`, `OldestExist`), on which
  eviction (`SurplusIsOldest`) and expiry (`ExpiryIsFirst`) rest. For
  `NeverCrowded`, the surplus is as large as it has to be or all that is free.
* *The dictionary.* Ids are given one by one, and no number twice (`RowsNumbered`),
  so the id an edit names is that of the row it was shown as. For the export it is
  `ExportSound`: the saved file holds every entry of the table and no term twice,
  so what it adds to a table that has lost rows is what was lost
  (`ExportRestores`). An import numbers its additions in the order of the file
  (`PlacesAreDistinct`).
* *The database.* The invariant says where each write is (pending once at most,
  and only before its outcome), that the outcome tells what is on disk, and what
  the open transaction may have changed; `SchemaIsVersion` is a part of it. Each
  step then maps to a step of `TransactionStore` or to a stutter: only a commit
  and a delivered answer are visible.
* *The settings.* For `RecoversOnlyOthers` the invariant is that a row of this
  program is readable as it is: parsing is the identity on it (`ReadableParses`)
  and gives only such rows (`ParsedReadable`). For `CarriesOverOrBacksUp` a field
  is followed through the three upgrades, the completion with defaults and the
  formatting (`UpgradeKeeps`, `ParsedKeeps`), and the newest backup through the
  cut of the list (`NewestIsLast`).
* *The key.* `OldOrNewKey` speaks of what `get` returns, which does not tell a
  torn file from none; the invariant `Whole` speaks of the file, and `Steps` of
  what each call of a replacement has already put on the disk.

TLC checked every inductive invariant on an instance before it was proved.

Only model-checked:

* the liveness properties, since fairness and ENABLED are outside the prover's
  reach (`ProcessingEnds`, `WaitingEnds`, `DeletedIsOver`,
  `StartAnsweredOnce`, `MicrophoneReturned`, `OverlayIsTrue`,
  `ShutdownCompletes`, `EventuallyLoaded`, `EventuallyTheChoice`);
* `FollowsTheRules`: what the scan of `DictionaryText` computes for every text is
  an induction over data, which the prover cannot do;
* everything about `Overlay` and `SpeechGate`: `SpeechIsSent`, whose computation
  over the frames of a recording is an induction over data as well, and the types
  of these modules.

## 6. What is not modelled

* Reads that change nothing: `get`, `list`, copying a text, the page's state.
* The formats: requests and answers of the speech and cleanup services, prompts,
  the stored form of a destination, WAV headers, JSON.
* `cleanup`'s guard against rewritten meaning and the local engine's request:
  functions of two texts, without state.
* The search of the accessibility tree, key codes, window classes; drawing, hit
  tests, the native frame, the fallback overlay and autostart: Windows calls that
  decide nothing the program relies on later.
* The tracker, which captures the destination of the window in front once a
  second so that a start finds one: the capture itself is in `Destination`.
* Session tokens and deadlines of commands: checks without state in front of
  every handler. The tables of answered requests are cut at 1000 entries; a
  command is valid for a few seconds.
* The page's own scripts, tests, experiments and build files.

## 7. The plan

Done: the controller with its ledger; the recording side; the application side;
the proofs of section 5. What is left, most important first:

1. An abstract recorder (at most one recording, each started and ended once)
   that `RecordingSlot` implements where the early retry is left out.
2. `RunController` over the answers of `Destination`, for one run without
   faults, in place of answers that are free.
