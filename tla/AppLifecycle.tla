---------------------------- MODULE AppLifecycle ----------------------------
(***************************************************************************)
(* Processes of the application that start, serve and stop beside each     *)
(* other: the instance lock, the main thread (App.run under main), the     *)
(* worker thread (App._worker_main), the startup steps, the window and its *)
(* tray icon, the commands the worker's loop runs, and the steps of        *)
(* App.shutdown with every await at which a command may still proceed.     *)
(*                                                                         *)
(* Source: __main__.py, app.py, ui/windows.py, ui/tray.py.                 *)
(***************************************************************************)
EXTENDS Naturals, FiniteSets

CONSTANTS Processes,   \* processes of the program, each launched once
          NoProcess         \* nobody holds the instance lock

\* Processes are numbered in the order in which they are launched.
LifeConstantsOK == Processes \subseteq Nat /\ NoProcess \notin Processes
ASSUME LifeAssumption == LifeConstantsOK

VARIABLES
  holder,    \* the process that holds the instance lock
  main,      \* the main thread of each process
  worker,    \* its worker thread
  flags,     \* its events and flags: ready, error, scheduled, stopping, done
  shut,      \* how far App.shutdown has come
  db,        \* whether its database connection is open
  listener,  \* whether its keyboard hook is on
  timers,    \* whether its periodic tasks run
  tray,      \* whether its tray icon runs
  window,    \* its settings window
  run,       \* the run it works on
  update,    \* whether a settings_update waits for its write
  rowLeft    \* the run each process left in the shared history

lifeVars == <<holder, main, worker, flags, shut, db, listener, timers, tray,
             window, run, update, rowLeft>>

threads == <<main, worker, flags>>
inputs == <<listener, timers, tray, window>>
activity == <<run, update, rowLeft>>

Starting == {"database", "history", "interrupted", "services", "inputs"}
Stopping == {"timers", "runs", "settle", "engines", "executor", "database",
             "release"}
Live == {"recording", "processing"}

LifeTypeOK ==
  /\ holder \in Processes \cup {NoProcess}
  /\ main \in [Processes -> {"out", "waiting", "windows", "gui", "finally",
                             "draining", "leaving", "exiting", "gone"}]
  /\ worker \in [Processes -> Starting \cup {"none", "ready", "loop", "failed",
                                             "done"}]
  /\ flags \in [Processes -> SUBSET {"ready", "error", "scheduled", "stopping",
                                     "done"}]
  /\ shut \in [Processes -> Stopping \cup {"no", "asked", "over"}]
  /\ db \in [Processes -> BOOLEAN]
  /\ listener \in [Processes -> BOOLEAN]
  /\ timers \in [Processes -> BOOLEAN]
  /\ tray \in [Processes -> BOOLEAN]
  /\ window \in [Processes -> {"none", "shown", "hidden", "closed"}]
  /\ run \in [Processes -> {"none", "asked", "created", "recording",
                            "working"}]
  /\ update \in [Processes -> BOOLEAN]
  /\ rowLeft \in [Processes -> Live \cup {"none", "ended"}]

LifeInit ==
  /\ holder = NoProcess
  /\ main = [p \in Processes |-> "out"]
  /\ worker = [p \in Processes |-> "none"]
  /\ flags = [p \in Processes |-> {}]
  /\ shut = [p \in Processes |-> "no"]
  /\ db = [p \in Processes |-> FALSE]
  /\ listener = [p \in Processes |-> FALSE]
  /\ timers = [p \in Processes |-> FALSE]
  /\ tray = [p \in Processes |-> FALSE]
  /\ window = [p \in Processes |-> "none"]
  /\ run = [p \in Processes |-> "none"]
  /\ update = [p \in Processes |-> FALSE]
  /\ rowLeft = [p \in Processes |-> "none"]

Raise(p, names) == flags' = [flags EXCEPT ![p] = @ \cup names]
Go(where, p, to) == [where EXCEPT ![p] = to]

(***************************************************************************)
(* The instance lock.                                                      *)
(***************************************************************************)

\* A launch takes the lock and starts the worker; when another process has
\* it, this one brings that process's window forward and exits with code 3
\* (a launch at login, in the background, only exits).
Launch(p) ==
  /\ main[p] = "out"
  /\ \A q \in Processes : q < p => main[q] # "out"
  /\ \/ /\ holder = NoProcess
        /\ holder' = p
        /\ main' = Go(main, p, "waiting")
        /\ worker' = Go(worker, p, "database")
        /\ UNCHANGED window
     \/ /\ holder # NoProcess
        /\ main' = Go(main, p, "gone")
        /\ \/ UNCHANGED window
           \/ /\ window[holder] = "hidden"
              /\ window' = [window EXCEPT ![holder] = "shown"]
        /\ UNCHANGED <<holder, worker>>
  /\ UNCHANGED <<flags, shut, db, listener, timers, tray, activity>>

\* What is left of the lock when process p lets it go.
Released(p) == IF holder = p THEN NoProcess ELSE holder

\* Everything a process owns ends with it; its rows stay in the history.
Dies(p) ==
  /\ holder' = Released(p)
  /\ main' = Go(main, p, "gone")
  /\ worker' = Go(worker, p, "none")
  /\ db' = [db EXCEPT ![p] = FALSE]
  /\ listener' = [listener EXCEPT ![p] = FALSE]
  /\ timers' = [timers EXCEPT ![p] = FALSE]
  /\ tray' = [tray EXCEPT ![p] = FALSE]
  /\ window' = [window EXCEPT ![p] = "none"]
  /\ run' = [run EXCEPT ![p] = "none"]
  /\ update' = [update EXCEPT ![p] = FALSE]
  /\ UNCHANGED <<flags, shut, rowLeft>>

\* The process is killed, at any point.
Killed(p) == main[p] \notin {"out", "gone"} /\ Dies(p)

(***************************************************************************)
(* Startup, on the worker thread.                                          *)
(***************************************************************************)

\* The database opens and its migrations run.
OpenDatabase(p) ==
  /\ worker[p] = "database"
  /\ db' = [db EXCEPT ![p] = TRUE]
  /\ worker' = Go(worker, p, "history")
  /\ UNCHANGED <<holder, main, flags, shut, inputs, activity>>

\* history.recover_on_startup, then the list of the runs it left.
RecoverHistory(p) ==
  /\ worker[p] = "history"
  /\ worker' = Go(worker, p, "interrupted")
  /\ UNCHANGED <<holder, main, flags, shut, db, inputs, activity>>

\* The statuses a crash leaves behind and the startup turns into an error.
\* Mutant: only recordings are looked for.
OnlyRecordings == {"recording"}
Interrupted == Live

\* One run a crash interrupted becomes an error, with its own write.
EndInterrupted(p, q) ==
  /\ worker[p] = "interrupted"
  /\ rowLeft[q] \in Interrupted
  /\ rowLeft' = [rowLeft EXCEPT ![q] = "ended"]
  /\ UNCHANGED <<holder, threads, shut, db, inputs, run, update>>

\* None is left.
InterruptedEnded(p) ==
  /\ worker[p] = "interrupted"
  /\ \A q \in Processes : rowLeft[q] \notin Interrupted
  /\ worker' = Go(worker, p, "services")
  /\ UNCHANGED <<holder, main, flags, shut, db, inputs, activity>>

\* Settings, services and the speech engine; an engine that does not start
\* is left to the readiness report.
LoadServices(p) ==
  /\ worker[p] = "services"
  /\ worker' = Go(worker, p, "inputs")
  /\ UNCHANGED <<holder, main, flags, shut, db, inputs, activity>>

\* The hook and the timers start and the main thread is told.
StartInputs(p) ==
  /\ worker[p] = "inputs"
  /\ listener' = [listener EXCEPT ![p] = TRUE]
  /\ timers' = [timers EXCEPT ![p] = TRUE]
  /\ Raise(p, {"ready"})
  /\ worker' = Go(worker, p, "ready")
  /\ UNCHANGED <<holder, main, shut, db, tray, window, activity>>

\* A step of the startup raises: the main thread is told, and the worker goes
\* on to its finally clause.
StartupFails(p) ==
  /\ worker[p] \in Starting
  /\ Raise(p, {"ready", "error"})
  /\ worker' = Go(worker, p, "failed")
  /\ UNCHANGED <<holder, main, shut, db, inputs, activity>>

\* run_forever: only now is the loop running again.
RunForever(p) ==
  /\ worker[p] = "ready"
  /\ worker' = Go(worker, p, "loop")
  /\ UNCHANGED <<holder, main, flags, shut, db, inputs, activity>>

\* The shutdown is over: the loop closes and drops the tasks it still had.
\* What they held, a capture among them, they keep.
WorkerEnds(p) ==
  /\ worker[p] \in {"loop", "failed"}
  /\ shut[p] = "over"
  /\ worker' = Go(worker, p, "done")
  /\ Raise(p, {"done"})
  /\ update' = [update EXCEPT ![p] = FALSE]
  /\ run' = [run EXCEPT ![p] = IF @ = "recording" THEN @ ELSE "none"]
  /\ UNCHANGED <<holder, main, shut, db, inputs, rowLeft>>

(***************************************************************************)
(* The main thread.                                                        *)
(***************************************************************************)

\* Asks the loop for one shutdown, from whichever thread: nothing happens when
\* the loop does not run, or when it has been asked before.
ScheduleShutdown(p) ==
  IF worker[p] = "loop" /\ "scheduled" \notin flags[p]
  THEN Raise(p, {"scheduled"}) /\ shut' = Go(shut, p, "asked")
  ELSE UNCHANGED <<flags, shut>>

\* The worker is ready, or its startup failed and run returns 1 at once.
MainReady(p) ==
  /\ main[p] = "waiting"
  /\ "ready" \in flags[p]
  /\ main' = Go(main, p, IF "error" \in flags[p] THEN "leaving" ELSE "windows")
  /\ UNCHANGED <<holder, worker, flags, shut, db, inputs, activity>>

\* Mutant: a launch at login hides the window whether or not there is an icon.
HiddenAnyway(background, icon) == background
\* The window starts hidden only when an icon can bring it back.
StartsHidden(background, icon) == background /\ icon

\* The overlay, the tray icon (which may not start) and the window.
CreateWindows(p) ==
  /\ main[p] = "windows"
  /\ \E background, icon \in BOOLEAN :
       /\ tray' = [tray EXCEPT ![p] = icon]
       /\ window' = [window EXCEPT ![p] =
                       IF StartsHidden(background, icon) THEN "hidden"
                       ELSE "shown"]
  /\ main' = Go(main, p, "gui")
  /\ UNCHANGED <<holder, worker, flags, shut, db, listener, timers, activity>>

\* The webview cannot be imported, or cannot make its windows.
WindowsFail(p) ==
  /\ main[p] = "windows"
  /\ main' = Go(main, p, "finally")
  /\ UNCHANGED <<holder, worker, flags, shut, db, inputs, activity>>

\* webview.start raises.
GuiFails(p) ==
  /\ main[p] = "gui"
  /\ window' = [window EXCEPT ![p] = "closed"]
  /\ main' = Go(main, p, "finally")
  /\ UNCHANGED <<holder, worker, flags, shut, db, listener, timers, tray,
                 activity>>

\* Closing the window only hides it while the tray icon runs.
HideWindow(p) ==
  /\ main[p] = "gui"
  /\ window[p] = "shown"
  /\ tray[p]
  /\ window' = [window EXCEPT ![p] = "hidden"]
  /\ UNCHANGED <<holder, threads, shut, db, listener, timers, tray, activity>>

\* The icon opens it again.
ShowWindow(p) ==
  /\ window[p] = "hidden"
  /\ tray[p]
  /\ window' = [window EXCEPT ![p] = "shown"]
  /\ UNCHANGED <<holder, threads, shut, db, listener, timers, tray, activity>>

\* The icon's Quit, the end of the Windows session, or closing a window
\* without an icon: the closed event asks for the shutdown.
CloseWindow(p) ==
  /\ main[p] = "gui"
  /\ window[p] \in {"shown", "hidden"}
  /\ window' = [window EXCEPT ![p] = "closed"]
  /\ ScheduleShutdown(p)
  /\ UNCHANGED <<holder, main, worker, db, listener, timers, tray, activity>>

\* webview.start returns when its window is gone.
GuiReturns(p) ==
  /\ main[p] = "gui"
  /\ window[p] = "closed"
  /\ main' = Go(main, p, "finally")
  /\ UNCHANGED <<holder, worker, flags, shut, db, inputs, activity>>

\* run's finally clause asks for the shutdown and waits for the worker.
RunFinally(p) ==
  /\ main[p] = "finally"
  /\ ScheduleShutdown(p)
  /\ main' = Go(main, p, "draining")
  /\ UNCHANGED <<holder, worker, db, inputs, activity>>

WorkerDone(p) ==
  /\ main[p] = "draining"
  /\ "done" \in flags[p]
  /\ main' = Go(main, p, "leaving")
  /\ UNCHANGED <<holder, worker, flags, shut, db, inputs, activity>>

\* main's finally clause releases the lock whatever run returned.
ReleaseInMain(p) ==
  /\ main[p] = "leaving"
  /\ holder' = Released(p)
  /\ main' = Go(main, p, "exiting")
  /\ UNCHANGED <<worker, flags, shut, db, inputs, activity>>

\* The interpreter exits; the worker is a daemon thread and dies with it.
Exit(p) == main[p] = "exiting" /\ Dies(p)

(***************************************************************************)
(* App.shutdown: a task of the loop, or the worker's last call after a      *)
(* failed startup.                                                         *)
(***************************************************************************)

\* Mutant: the lock is let go before the database closes.
ReleasesEarly(step) ==
  CASE step = "settle"   -> "engines"
    [] step = "engines"  -> "executor"
    [] step = "executor" -> "release"
    [] step = "release"  -> "database"
    [] step = "database" -> "over"
\* The step after each step.
After(step) ==
  CASE step = "settle"   -> "engines"
    [] step = "engines"  -> "executor"
    [] step = "executor" -> "database"
    [] step = "database" -> "release"
    [] step = "release"  -> "over"

\* The hook and the icon stop and the timers are cancelled, up to the first
\* await.
ShutdownBegins(p) ==
  /\ \/ worker[p] = "loop" /\ shut[p] = "asked"
     \/ worker[p] = "failed" /\ shut[p] = "no"
  /\ Raise(p, {"stopping"})
  /\ listener' = [listener EXCEPT ![p] = FALSE]
  /\ tray' = [tray EXCEPT ![p] = FALSE]
  /\ shut' = Go(shut, p, "timers")
  /\ UNCHANGED <<holder, main, worker, db, timers, window, activity>>

TimersEnd(p) ==
  /\ shut[p] = "timers"
  /\ timers' = [timers EXCEPT ![p] = FALSE]
  /\ shut' = Go(shut, p, "runs")
  /\ UNCHANGED <<holder, threads, db, listener, tray, window, activity>>

\* The capture closes and the task of the run unwinds.
Unwinds(state) == IF state = "recording" THEN "working" ELSE state

\* cancel_current knows a run from the moment it records. A start that has not
\* come so far is not found.
RunsCancelled(p) ==
  /\ shut[p] = "runs"
  /\ run' = [run EXCEPT ![p] = Unwinds(@)]
  /\ shut' = Go(shut, p, "settle")
  /\ UNCHANGED <<holder, threads, db, inputs, update, rowLeft>>

\* Mutant: the wait for the runs has no bound.
NoTimeout(p) == FALSE
\* wait_for gives up five seconds later.
TimesOut(p) == shut[p] = "settle"

\* The runs known at this point have ended, or the wait has.
Settled(p) ==
  /\ shut[p] = "settle"
  /\ run[p] # "working" \/ TimesOut(p)
  /\ shut' = Go(shut, p, After("settle"))
  /\ UNCHANGED <<holder, threads, db, inputs, activity>>

\* The cleanup engines, the speech engine and the overlay close; then the
\* insertion executor, which refuses every later call.
ResourcesClose(p) ==
  /\ shut[p] \in {"engines", "executor"}
  /\ shut' = Go(shut, p, After(shut[p]))
  /\ UNCHANGED <<holder, threads, db, inputs, activity>>

DatabaseCloses(p) ==
  /\ shut[p] = "database"
  /\ db' = [db EXCEPT ![p] = FALSE]
  /\ shut' = Go(shut, p, After("database"))
  /\ UNCHANGED <<holder, threads, inputs, activity>>

InstanceReleased(p) ==
  /\ shut[p] = "release"
  /\ holder' = Released(p)
  /\ shut' = Go(shut, p, After("release"))
  /\ UNCHANGED <<threads, db, inputs, activity>>

(***************************************************************************)
(* Commands: tasks of the loop that go on at every await of the shutdown.  *)
(***************************************************************************)

LoopRuns(p) == worker[p] = "loop"
ExecutorRuns(p) == shut[p] \notin {"database", "release", "over"}

\* A hotkey or the page starts a run. One run at a time is followed.
AskStart(p) ==
  /\ LoopRuns(p)
  /\ listener[p] \/ window[p] = "shown"
  /\ run[p] = "none"
  /\ run' = [run EXCEPT ![p] = "asked"]
  /\ UNCHANGED <<holder, threads, shut, db, inputs, update, rowLeft>>

\* The destination is captured on the executor and the row written.
StartCreates(p) ==
  /\ LoopRuns(p)
  /\ run[p] = "asked"
  /\ ExecutorRuns(p)
  /\ db[p]
  /\ run' = [run EXCEPT ![p] = "created"]
  /\ rowLeft' = [rowLeft EXCEPT ![p] = "recording"]
  /\ UNCHANGED <<holder, threads, shut, db, inputs, update>>

\* The dictionary is read, the capture opens and the run becomes active.
StartOpens(p) ==
  /\ LoopRuns(p)
  /\ run[p] = "created"
  /\ db[p]
  /\ run' = [run EXCEPT ![p] = "recording"]
  /\ UNCHANGED <<holder, threads, shut, db, inputs, update, rowLeft>>

\* The executor or the database is gone, and the row stays as it is.
StartFails(p) ==
  /\ LoopRuns(p)
  /\ \/ run[p] = "asked" /\ ~(ExecutorRuns(p) /\ db[p])
     \/ run[p] = "created" /\ ~db[p]
  /\ run' = [run EXCEPT ![p] = "none"]
  /\ UNCHANGED <<holder, threads, shut, db, inputs, update, rowLeft>>

\* The recording ends and its task transcribes, cleans and inserts.
StopRecording(p) ==
  /\ LoopRuns(p)
  /\ run[p] = "recording"
  /\ run' = [run EXCEPT ![p] = "working"]
  /\ rowLeft' = [rowLeft EXCEPT ![p] = IF db[p] THEN "processing" ELSE @]
  /\ UNCHANGED <<holder, threads, shut, db, inputs, update>>

\* The task ends; without a database its last status is never written.
WorkEnds(p) ==
  /\ LoopRuns(p)
  /\ run[p] = "working"
  /\ run' = [run EXCEPT ![p] = "none"]
  /\ rowLeft' = [rowLeft EXCEPT ![p] = IF db[p] THEN "ended" ELSE @]
  /\ UNCHANGED <<holder, threads, shut, db, inputs, update>>

\* The page saves its settings.
AskUpdate(p) ==
  /\ LoopRuns(p)
  /\ window[p] = "shown"
  /\ ~update[p]
  /\ update' = [update EXCEPT ![p] = TRUE]
  /\ UNCHANGED <<holder, threads, shut, db, inputs, run, rowLeft>>

\* After a write that succeeded the hook is stopped and started with the new
\* bindings, whatever the shutdown has done in between.
UpdateDone(p) ==
  /\ update[p]
  /\ LoopRuns(p)
  /\ update' = [update EXCEPT ![p] = FALSE]
  /\ listener' = [listener EXCEPT ![p] = @ \/ db[p]]
  /\ UNCHANGED <<holder, threads, shut, db, timers, tray, window, run,
                 rowLeft>>

StartsUp(p) ==
  \/ OpenDatabase(p) \/ RecoverHistory(p) \/ InterruptedEnded(p)
  \/ \E q \in Processes : EndInterrupted(p, q)
  \/ LoadServices(p) \/ StartInputs(p) \/ RunForever(p)

ShutsDown(p) ==
  \/ ShutdownBegins(p) \/ TimersEnd(p) \/ RunsCancelled(p) \/ Settled(p)
  \/ ResourcesClose(p) \/ DatabaseCloses(p) \/ InstanceReleased(p)
  \/ WorkerEnds(p)

Leaves(p) ==
  \/ MainReady(p) \/ GuiReturns(p) \/ RunFinally(p) \/ WorkerDone(p)
  \/ ReleaseInMain(p) \/ Exit(p)

LifeNext ==
  \E p \in Processes :
    \/ Launch(p) \/ Killed(p) \/ StartsUp(p) \/ StartupFails(p)
    \/ ShutsDown(p) \/ Leaves(p)
    \/ CreateWindows(p) \/ WindowsFail(p) \/ GuiFails(p)
    \/ HideWindow(p) \/ ShowWindow(p) \/ CloseWindow(p)
    \/ AskStart(p) \/ StartCreates(p) \/ StartOpens(p) \/ StartFails(p)
    \/ StopRecording(p) \/ WorkEnds(p) \/ AskUpdate(p) \/ UpdateDone(p)

LifeSpec == LifeInit /\ [][LifeNext]_lifeVars

\* The threads go on with what they can do. Users, crashes, and the models a
\* run waits for may never do anything.
LifeFairSpec ==
  /\ LifeSpec
  /\ \A p \in Processes : WF_lifeVars(StartsUp(p))
                       /\ WF_lifeVars(ShutsDown(p))
                       /\ WF_lifeVars(Leaves(p))

(***************************************************************************)
(* Properties.                                                             *)
(***************************************************************************)

\* A process that came up keeps the instance lock as long as its database is
\* open, through every step of its shutdown.
OpenUnderLock ==
  \A p \in Processes : db[p] /\ "error" \notin flags[p] => holder = p

\* While a process serves, no run of another one is recorded as going on,
\* wherever the other crashed, was closed, or gave up waiting.
NoneLeftGoing ==
  \A p, q \in Processes :
    worker[p] = "loop" /\ db[p] /\ p # q => rowLeft[q] \notin Live

\* A hidden window has an icon that can bring it back.
HiddenHasIcon == \A p \in Processes : window[p] = "hidden" => tray[p]

\* A process that came up keeps the instance lock while its database is open;
\* while it serves, no run of another is recorded as going on; and a hidden
\* window has an icon that can bring it back (__main__.py, app.py, tray.py).
ProcessesTakeTurns == OpenUnderLock /\ NoneLeftGoing /\ HiddenHasIcon

\* A shutdown that was asked for ends with the process gone, even when a
\* cleanup or a transcription never answers; so does a failed startup.
ShutdownEnds ==
  \A p \in Processes :
    (shut[p] = "asked" \/ "error" \in flags[p]) ~> main[p] = "gone"

=============================================================================
