-------------------------- MODULE ApplicationProofs --------------------------
(***************************************************************************)
(* The application around the recordings, and what lasts beyond a process. *)
(*                                                                         *)
(*   AppLifecycle   one process at a time serves, with the lock and with   *)
(*                  the runs of the others ended, for any launches and     *)
(*                  crashes                                                *)
(*   ModelHealth    the settings in use are the row on disk, no edit of    *)
(*                  another field is lost, and no poll publishes a model   *)
(*                  that was not chosen any more, for any editors,         *)
(*                  requests and models                                    *)
(*   Database       implements TransactionStore, for any writes,           *)
(*                  statements and releases                                *)
(*   SettingsStore  reads back what it stored, for any schema of fields,   *)
(*                  any readable shortcuts and models, any patches and     *)
(*                  whatever other releases leave between two launches     *)
(*   SecretStore    holds the old key or the new one, for any keys and any *)
(*                  number of calls and power failures                     *)
(*   DictionaryRepo gives a term one row and brings back what was deleted  *)
(*                  since the last export, for any entries and files       *)
(***************************************************************************)
EXTENDS AppLifecycle, ModelHealth, Database, SettingsStore, SecretStore,
        DictionaryRepo, SequenceTheorems, FiniteSetTheorems, TLAPS

-----------------------------------------------------------------------------
(* The processes. *)

\* How the two threads of a process know of each other: a startup that failed
\* or a worker that ended is flagged, and the main thread leaves only then;
\* the shutdown begins when the windows are gone.
ThreadsAgree(p) ==
    /\ worker[p] = "none" <=> main[p] \in {"out", "gone"}
    /\ worker[p] = "none" => ~db[p]
    /\ main[p] = "out" => flags[p] = {} /\ shut[p] = "no"
    /\ worker[p] \in Starting => "ready" \notin flags[p]
    /\ worker[p] \in Starting \cup {"ready"} => shut[p] = "no"
    /\ worker[p] = "failed" => "error" \in flags[p]
    /\ worker[p] = "done" => shut[p] = "over"
    /\ worker[p] = "loop" /\ shut[p] # "no" => "scheduled" \in flags[p]
    /\ "error" \in flags[p] => worker[p] \in {"failed", "done", "none"}
    /\ "done" \in flags[p] => worker[p] \in {"done", "none"}
    /\ main[p] \in {"windows", "gui", "finally", "draining"} =>
         worker[p] \in {"ready", "loop", "done"} /\ "error" \notin flags[p]
    /\ main[p] \in {"leaving", "exiting"} =>
         flags[p] \cap {"error", "done"} # {}
    /\ shut[p] \in {"release", "over"} => ~db[p]

\* Only the main thread's gui has an open window, and a shutdown finds none.
WindowsAgree(p) ==
    /\ window[p] \in {"shown", "hidden"} => main[p] = "gui"
    /\ main[p] \in {"waiting", "windows"} /\ "error" \notin flags[p] =>
         shut[p] = "no"
    /\ shut[p] # "no" => window[p] \notin {"shown", "hidden"}
    /\ window[p] = "hidden" => tray[p]

\* A process that is up, or coming up, has the lock.
LockIsHeld(p) ==
    worker[p] \in Starting \cup {"ready", "loop"} /\ shut[p] # "over" =>
      holder = p

\* From its recovery on, no run of another process is recorded as going on.
OthersEnded(p) ==
    worker[p] \in {"services", "inputs", "ready", "loop"} /\ shut[p] # "over"
      => \A q \in Processes \ {p} : rowLeft[q] \notin Live

LifeInv ==
    /\ LifeTypeOK
    /\ \A p \in Processes : /\ ThreadsAgree(p) /\ WindowsAgree(p)
                            /\ LockIsHeld(p) /\ OthersEnded(p)

\* A step of one process.
ProcessStep(p) ==
    \/ Launch(p) \/ Killed(p) \/ StartsUp(p) \/ StartupFails(p)
    \/ ShutsDown(p) \/ Leaves(p)
    \/ CreateWindows(p) \/ WindowsFail(p) \/ GuiFails(p)
    \/ HideWindow(p) \/ ShowWindow(p) \/ CloseWindow(p)
    \/ AskStart(p) \/ StartCreates(p) \/ StartOpens(p) \/ StartFails(p)
    \/ StopRecording(p) \/ WorkEnds(p) \/ AskUpdate(p) \/ UpdateDone(p)

\* Every step keeps the types.
LEMMA LifeTyped ==
    ASSUME LifeTypeOK, NEW p \in Processes, ProcessStep(p)
    PROVE  LifeTypeOK'
<1> USE DEF LifeTypeOK, threads, inputs, activity, Go, Starting, Stopping,
            Live, Interrupted
<1>1. CASE Launch(p)
  BY <1>1 DEF Launch
<1>2. CASE Killed(p)
  BY <1>2 DEF Killed, Dies, Released
<1>3. CASE OpenDatabase(p)
  BY <1>3 DEF OpenDatabase
<1>4. CASE RecoverHistory(p)
  BY <1>4 DEF RecoverHistory
<1>5. CASE \E r \in Processes : EndInterrupted(p, r)
  BY <1>5 DEF EndInterrupted
<1>6. CASE InterruptedEnded(p)
  BY <1>6 DEF InterruptedEnded
<1>7. CASE LoadServices(p)
  BY <1>7 DEF LoadServices
<1>8. CASE StartInputs(p)
  BY <1>8 DEF StartInputs, Raise
<1>9. CASE RunForever(p)
  BY <1>9 DEF RunForever
<1>10. CASE StartupFails(p)
  BY <1>10 DEF StartupFails, Raise
<1>11. CASE ShutdownBegins(p)
  BY <1>11 DEF ShutdownBegins, Raise
<1>12. CASE TimersEnd(p)
  BY <1>12 DEF TimersEnd
<1>13. CASE RunsCancelled(p)
  BY <1>13 DEF RunsCancelled, Unwinds
<1>14. CASE Settled(p)
  BY <1>14 DEF Settled, After
<1>15. CASE ResourcesClose(p)
  BY <1>15 DEF ResourcesClose, After
<1>16. CASE DatabaseCloses(p)
  BY <1>16 DEF DatabaseCloses, After
<1>17. CASE InstanceReleased(p)
  BY <1>17 DEF InstanceReleased, After, Released
<1>18. CASE WorkerEnds(p)
  BY <1>18 DEF WorkerEnds, Raise
<1>19. CASE MainReady(p)
  BY <1>19 DEF MainReady
<1>20. CASE GuiReturns(p)
  BY <1>20 DEF GuiReturns
<1>21. CASE RunFinally(p)
  BY <1>21 DEF RunFinally, ScheduleShutdown, Raise
<1>22. CASE WorkerDone(p)
  BY <1>22 DEF WorkerDone
<1>23. CASE ReleaseInMain(p)
  BY <1>23 DEF ReleaseInMain, Released
<1>24. CASE Exit(p)
  BY <1>24 DEF Exit, Dies, Released
<1>25. CASE CreateWindows(p)
  BY <1>25 DEF CreateWindows, StartsHidden
<1>26. CASE WindowsFail(p)
  BY <1>26 DEF WindowsFail
<1>27. CASE GuiFails(p)
  BY <1>27 DEF GuiFails
<1>28. CASE HideWindow(p)
  BY <1>28 DEF HideWindow
<1>29. CASE ShowWindow(p)
  BY <1>29 DEF ShowWindow
<1>30. CASE CloseWindow(p)
  BY <1>30 DEF CloseWindow, ScheduleShutdown, Raise
<1>31. CASE AskStart(p)
  BY <1>31 DEF AskStart
<1>32. CASE StartCreates(p)
  BY <1>32 DEF StartCreates
<1>33. CASE StartOpens(p)
  BY <1>33 DEF StartOpens
<1>34. CASE StartFails(p)
  BY <1>34 DEF StartFails
<1>35. CASE StopRecording(p)
  BY <1>35 DEF StopRecording
<1>36. CASE WorkEnds(p)
  BY <1>36 DEF WorkEnds
<1>37. CASE AskUpdate(p)
  BY <1>37 DEF AskUpdate
<1>38. CASE UpdateDone(p)
  BY <1>38 DEF UpdateDone
<1> QED
  BY <1>1, <1>2, <1>3, <1>4, <1>5, <1>6, <1>7, <1>8, <1>9, <1>10, <1>11,
     <1>12, <1>13, <1>14, <1>15, <1>16, <1>17, <1>18, <1>19, <1>20, <1>21,
     <1>22, <1>23, <1>24, <1>25, <1>26, <1>27, <1>28, <1>29, <1>30, <1>31,
     <1>32, <1>33, <1>34, <1>35, <1>36, <1>37, <1>38
     DEF ProcessStep, StartsUp, ShutsDown, Leaves

\* The threads of a process go on knowing of each other.
LEMMA ThreadsStep ==
    ASSUME LifeInv, LifeTypeOK', NEW p \in Processes, ProcessStep(p),
           NEW q \in Processes
    PROVE  ThreadsAgree(q)'
<1> USE DEF LifeInv, LifeTypeOK, ThreadsAgree, WindowsAgree, threads, inputs,
            activity, Go, Starting, Stopping
<1>1. CASE Launch(p)
  BY <1>1 DEF Launch
<1>2. CASE Killed(p)
  BY <1>2 DEF Killed, Dies, Released
<1>3. CASE OpenDatabase(p)
  BY <1>3 DEF OpenDatabase
<1>4. CASE RecoverHistory(p)
  BY <1>4 DEF RecoverHistory
<1>5. CASE \E r \in Processes : EndInterrupted(p, r)
  BY <1>5 DEF EndInterrupted
<1>6. CASE InterruptedEnded(p)
  BY <1>6 DEF InterruptedEnded
<1>7. CASE LoadServices(p)
  BY <1>7 DEF LoadServices
<1>8. CASE StartInputs(p)
  BY <1>8 DEF StartInputs, Raise
<1>9. CASE RunForever(p)
  BY <1>9 DEF RunForever
<1>10. CASE StartupFails(p)
  BY <1>10 DEF StartupFails, Raise
<1>11. CASE ShutdownBegins(p)
  BY <1>11 DEF ShutdownBegins, Raise
<1>12. CASE TimersEnd(p)
  BY <1>12 DEF TimersEnd
<1>13. CASE RunsCancelled(p)
  BY <1>13 DEF RunsCancelled, Unwinds
<1>14. CASE Settled(p)
  BY <1>14 DEF Settled, After
<1>15. CASE ResourcesClose(p)
  BY <1>15 DEF ResourcesClose, After
<1>16. CASE DatabaseCloses(p)
  BY <1>16 DEF DatabaseCloses, After
<1>17. CASE InstanceReleased(p)
  BY <1>17 DEF InstanceReleased, After, Released
<1>18. CASE WorkerEnds(p)
  BY <1>18 DEF WorkerEnds, Raise
<1>19. CASE MainReady(p)
  BY <1>19 DEF MainReady
<1>20. CASE GuiReturns(p)
  BY <1>20 DEF GuiReturns
<1>21. CASE RunFinally(p)
  <2>1. \/ UNCHANGED <<flags, shut>>
        \/ /\ worker[p] = "loop" /\ "scheduled" \notin flags[p]
           /\ Raise(p, {"scheduled"}) /\ shut' = Go(shut, p, "asked")
    BY <1>21 DEF RunFinally, ScheduleShutdown
  <2>2. CASE UNCHANGED <<flags, shut>>
    BY <1>21, <2>2 DEF RunFinally
  <2>3. CASE /\ worker[p] = "loop" /\ "scheduled" \notin flags[p]
             /\ Raise(p, {"scheduled"}) /\ shut' = Go(shut, p, "asked")
    BY <1>21, <2>3 DEF RunFinally, Raise
  <2> QED
    BY <2>1, <2>2, <2>3
<1>22. CASE WorkerDone(p)
  BY <1>22 DEF WorkerDone
<1>23. CASE ReleaseInMain(p)
  BY <1>23 DEF ReleaseInMain, Released
<1>24. CASE Exit(p)
  BY <1>24 DEF Exit, Dies, Released
<1>25. CASE CreateWindows(p)
  BY <1>25 DEF CreateWindows, StartsHidden
<1>26. CASE WindowsFail(p)
  BY <1>26 DEF WindowsFail
<1>27. CASE GuiFails(p)
  BY <1>27 DEF GuiFails
<1>28. CASE HideWindow(p)
  BY <1>28 DEF HideWindow
<1>29. CASE ShowWindow(p)
  BY <1>29 DEF ShowWindow
<1>30. CASE CloseWindow(p)
  <2>1. \/ UNCHANGED <<flags, shut>>
        \/ /\ worker[p] = "loop" /\ "scheduled" \notin flags[p]
           /\ Raise(p, {"scheduled"}) /\ shut' = Go(shut, p, "asked")
    BY <1>30 DEF CloseWindow, ScheduleShutdown
  <2>2. CASE UNCHANGED <<flags, shut>>
    BY <1>30, <2>2 DEF CloseWindow
  <2>3. CASE /\ worker[p] = "loop" /\ "scheduled" \notin flags[p]
             /\ Raise(p, {"scheduled"}) /\ shut' = Go(shut, p, "asked")
    BY <1>30, <2>3 DEF CloseWindow, Raise
  <2> QED
    BY <2>1, <2>2, <2>3
<1>31. CASE AskStart(p)
  BY <1>31 DEF AskStart
<1>32. CASE StartCreates(p)
  BY <1>32 DEF StartCreates
<1>33. CASE StartOpens(p)
  BY <1>33 DEF StartOpens
<1>34. CASE StartFails(p)
  BY <1>34 DEF StartFails
<1>35. CASE StopRecording(p)
  BY <1>35 DEF StopRecording
<1>36. CASE WorkEnds(p)
  BY <1>36 DEF WorkEnds
<1>37. CASE AskUpdate(p)
  BY <1>37 DEF AskUpdate
<1>38. CASE UpdateDone(p)
  BY <1>38 DEF UpdateDone
<1> QED
  BY <1>1, <1>2, <1>3, <1>4, <1>5, <1>6, <1>7, <1>8, <1>9, <1>10, <1>11,
     <1>12, <1>13, <1>14, <1>15, <1>16, <1>17, <1>18, <1>19, <1>20, <1>21,
     <1>22, <1>23, <1>24, <1>25, <1>26, <1>27, <1>28, <1>29, <1>30, <1>31,
     <1>32, <1>33, <1>34, <1>35, <1>36, <1>37, <1>38
     DEF ProcessStep, StartsUp, ShutsDown, Leaves

\* The windows go before the shutdown begins.
LEMMA WindowsStep ==
    ASSUME LifeInv, LifeTypeOK', NEW p \in Processes, ProcessStep(p),
           NEW q \in Processes
    PROVE  WindowsAgree(q)'
<1> USE DEF LifeInv, LifeTypeOK, ThreadsAgree, WindowsAgree, threads, inputs,
            activity, Go, Starting, Stopping
<1>1. CASE Launch(p)
  <2>1. CASE window' = window
    BY <1>1, <2>1 DEF Launch
  <2>2. CASE window' # window
    <3>1. /\ holder \in Processes /\ window[holder] = "hidden"
          /\ window' = [window EXCEPT ![holder] = "shown"]
          /\ main' = [main EXCEPT ![p] = "gone"] /\ main[p] = "out"
          /\ UNCHANGED <<flags, shut, tray>>
      BY <1>1, <2>2 DEF Launch
    <3>2. window[p] # "shown" /\ window[p] # "hidden"
      BY <3>1
    <3> QED
      BY <3>1, <3>2
  <2> QED
    BY <2>1, <2>2
<1>2. CASE Killed(p)
  BY <1>2 DEF Killed, Dies, Released
<1>3. CASE OpenDatabase(p)
  BY <1>3 DEF OpenDatabase
<1>4. CASE RecoverHistory(p)
  BY <1>4 DEF RecoverHistory
<1>5. CASE \E r \in Processes : EndInterrupted(p, r)
  BY <1>5 DEF EndInterrupted
<1>6. CASE InterruptedEnded(p)
  BY <1>6 DEF InterruptedEnded
<1>7. CASE LoadServices(p)
  BY <1>7 DEF LoadServices
<1>8. CASE StartInputs(p)
  BY <1>8 DEF StartInputs, Raise
<1>9. CASE RunForever(p)
  BY <1>9 DEF RunForever
<1>10. CASE StartupFails(p)
  BY <1>10 DEF StartupFails, Raise
<1>11. CASE ShutdownBegins(p)
  BY <1>11 DEF ShutdownBegins, Raise
<1>12. CASE TimersEnd(p)
  BY <1>12 DEF TimersEnd
<1>13. CASE RunsCancelled(p)
  BY <1>13 DEF RunsCancelled, Unwinds
<1>14. CASE Settled(p)
  BY <1>14 DEF Settled, After
<1>15. CASE ResourcesClose(p)
  BY <1>15 DEF ResourcesClose, After
<1>16. CASE DatabaseCloses(p)
  BY <1>16 DEF DatabaseCloses, After
<1>17. CASE InstanceReleased(p)
  BY <1>17 DEF InstanceReleased, After, Released
<1>18. CASE WorkerEnds(p)
  BY <1>18 DEF WorkerEnds, Raise
<1>19. CASE MainReady(p)
  BY <1>19 DEF MainReady
<1>20. CASE GuiReturns(p)
  BY <1>20 DEF GuiReturns
<1>21. CASE RunFinally(p)
  <2>1. \/ UNCHANGED <<flags, shut>>
        \/ /\ worker[p] = "loop" /\ "scheduled" \notin flags[p]
           /\ Raise(p, {"scheduled"}) /\ shut' = Go(shut, p, "asked")
    BY <1>21 DEF RunFinally, ScheduleShutdown
  <2>2. CASE UNCHANGED <<flags, shut>>
    BY <1>21, <2>2 DEF RunFinally
  <2>3. CASE /\ worker[p] = "loop" /\ "scheduled" \notin flags[p]
             /\ Raise(p, {"scheduled"}) /\ shut' = Go(shut, p, "asked")
    BY <1>21, <2>3 DEF RunFinally, Raise
  <2> QED
    BY <2>1, <2>2, <2>3
<1>22. CASE WorkerDone(p)
  BY <1>22 DEF WorkerDone
<1>23. CASE ReleaseInMain(p)
  BY <1>23 DEF ReleaseInMain, Released
<1>24. CASE Exit(p)
  BY <1>24 DEF Exit, Dies, Released
<1>25. CASE CreateWindows(p)
  BY <1>25 DEF CreateWindows, StartsHidden
<1>26. CASE WindowsFail(p)
  BY <1>26 DEF WindowsFail
<1>27. CASE GuiFails(p)
  BY <1>27 DEF GuiFails
<1>28. CASE HideWindow(p)
  BY <1>28 DEF HideWindow
<1>29. CASE ShowWindow(p)
  BY <1>29 DEF ShowWindow
<1>30. CASE CloseWindow(p)
  <2>1. \/ UNCHANGED <<flags, shut>>
        \/ /\ worker[p] = "loop" /\ "scheduled" \notin flags[p]
           /\ Raise(p, {"scheduled"}) /\ shut' = Go(shut, p, "asked")
    BY <1>30 DEF CloseWindow, ScheduleShutdown
  <2>2. CASE UNCHANGED <<flags, shut>>
    BY <1>30, <2>2 DEF CloseWindow
  <2>3. CASE /\ worker[p] = "loop" /\ "scheduled" \notin flags[p]
             /\ Raise(p, {"scheduled"}) /\ shut' = Go(shut, p, "asked")
    BY <1>30, <2>3 DEF CloseWindow, Raise
  <2> QED
    BY <2>1, <2>2, <2>3
<1>31. CASE AskStart(p)
  BY <1>31 DEF AskStart
<1>32. CASE StartCreates(p)
  BY <1>32 DEF StartCreates
<1>33. CASE StartOpens(p)
  BY <1>33 DEF StartOpens
<1>34. CASE StartFails(p)
  BY <1>34 DEF StartFails
<1>35. CASE StopRecording(p)
  BY <1>35 DEF StopRecording
<1>36. CASE WorkEnds(p)
  BY <1>36 DEF WorkEnds
<1>37. CASE AskUpdate(p)
  BY <1>37 DEF AskUpdate
<1>38. CASE UpdateDone(p)
  BY <1>38 DEF UpdateDone
<1> QED
  BY <1>1, <1>2, <1>3, <1>4, <1>5, <1>6, <1>7, <1>8, <1>9, <1>10, <1>11,
     <1>12, <1>13, <1>14, <1>15, <1>16, <1>17, <1>18, <1>19, <1>20, <1>21,
     <1>22, <1>23, <1>24, <1>25, <1>26, <1>27, <1>28, <1>29, <1>30, <1>31,
     <1>32, <1>33, <1>34, <1>35, <1>36, <1>37, <1>38
     DEF ProcessStep, StartsUp, ShutsDown, Leaves

\* The lock stays with the process that is up.
LEMMA LockStep ==
    ASSUME LifeInv, LifeTypeOK', NEW p \in Processes, ProcessStep(p),
           NEW q \in Processes
    PROVE  LockIsHeld(q)'
<1> USE DEF LifeInv, LifeTypeOK, ThreadsAgree, LockIsHeld, threads, inputs,
            activity, Go, Starting, Stopping
<1>1. CASE Launch(p)
  BY <1>1, LifeAssumption DEF Launch, LifeConstantsOK
<1>2. CASE Killed(p)
  BY <1>2 DEF Killed, Dies, Released
<1>3. CASE OpenDatabase(p)
  BY <1>3 DEF OpenDatabase
<1>4. CASE RecoverHistory(p)
  BY <1>4 DEF RecoverHistory
<1>5. CASE \E r \in Processes : EndInterrupted(p, r)
  BY <1>5 DEF EndInterrupted
<1>6. CASE InterruptedEnded(p)
  BY <1>6 DEF InterruptedEnded
<1>7. CASE LoadServices(p)
  BY <1>7 DEF LoadServices
<1>8. CASE StartInputs(p)
  BY <1>8 DEF StartInputs, Raise
<1>9. CASE RunForever(p)
  BY <1>9 DEF RunForever
<1>10. CASE StartupFails(p)
  BY <1>10 DEF StartupFails, Raise
<1>11. CASE ShutdownBegins(p)
  BY <1>11 DEF ShutdownBegins, Raise
<1>12. CASE TimersEnd(p)
  BY <1>12 DEF TimersEnd
<1>13. CASE RunsCancelled(p)
  BY <1>13 DEF RunsCancelled, Unwinds
<1>14. CASE Settled(p)
  BY <1>14 DEF Settled, After
<1>15. CASE ResourcesClose(p)
  BY <1>15 DEF ResourcesClose, After
<1>16. CASE DatabaseCloses(p)
  BY <1>16 DEF DatabaseCloses, After
<1>17. CASE InstanceReleased(p)
  BY <1>17 DEF InstanceReleased, After, Released
<1>18. CASE WorkerEnds(p)
  BY <1>18 DEF WorkerEnds, Raise
<1>19. CASE MainReady(p)
  BY <1>19 DEF MainReady
<1>20. CASE GuiReturns(p)
  BY <1>20 DEF GuiReturns
<1>21. CASE RunFinally(p)
  <2>1. \/ UNCHANGED <<flags, shut>>
        \/ /\ worker[p] = "loop" /\ "scheduled" \notin flags[p]
           /\ Raise(p, {"scheduled"}) /\ shut' = Go(shut, p, "asked")
    BY <1>21 DEF RunFinally, ScheduleShutdown
  <2>2. CASE UNCHANGED <<flags, shut>>
    BY <1>21, <2>2 DEF RunFinally
  <2>3. CASE /\ worker[p] = "loop" /\ "scheduled" \notin flags[p]
             /\ Raise(p, {"scheduled"}) /\ shut' = Go(shut, p, "asked")
    BY <1>21, <2>3 DEF RunFinally, Raise
  <2> QED
    BY <2>1, <2>2, <2>3
<1>22. CASE WorkerDone(p)
  BY <1>22 DEF WorkerDone
<1>23. CASE ReleaseInMain(p)
  BY <1>23 DEF ReleaseInMain, Released
<1>24. CASE Exit(p)
  BY <1>24 DEF Exit, Dies, Released
<1>25. CASE CreateWindows(p)
  BY <1>25 DEF CreateWindows, StartsHidden
<1>26. CASE WindowsFail(p)
  BY <1>26 DEF WindowsFail
<1>27. CASE GuiFails(p)
  BY <1>27 DEF GuiFails
<1>28. CASE HideWindow(p)
  BY <1>28 DEF HideWindow
<1>29. CASE ShowWindow(p)
  BY <1>29 DEF ShowWindow
<1>30. CASE CloseWindow(p)
  <2>1. \/ UNCHANGED <<flags, shut>>
        \/ /\ worker[p] = "loop" /\ "scheduled" \notin flags[p]
           /\ Raise(p, {"scheduled"}) /\ shut' = Go(shut, p, "asked")
    BY <1>30 DEF CloseWindow, ScheduleShutdown
  <2>2. CASE UNCHANGED <<flags, shut>>
    BY <1>30, <2>2 DEF CloseWindow
  <2>3. CASE /\ worker[p] = "loop" /\ "scheduled" \notin flags[p]
             /\ Raise(p, {"scheduled"}) /\ shut' = Go(shut, p, "asked")
    BY <1>30, <2>3 DEF CloseWindow, Raise
  <2> QED
    BY <2>1, <2>2, <2>3
<1>31. CASE AskStart(p)
  BY <1>31 DEF AskStart
<1>32. CASE StartCreates(p)
  BY <1>32 DEF StartCreates
<1>33. CASE StartOpens(p)
  BY <1>33 DEF StartOpens
<1>34. CASE StartFails(p)
  BY <1>34 DEF StartFails
<1>35. CASE StopRecording(p)
  BY <1>35 DEF StopRecording
<1>36. CASE WorkEnds(p)
  BY <1>36 DEF WorkEnds
<1>37. CASE AskUpdate(p)
  BY <1>37 DEF AskUpdate
<1>38. CASE UpdateDone(p)
  BY <1>38 DEF UpdateDone
<1> QED
  BY <1>1, <1>2, <1>3, <1>4, <1>5, <1>6, <1>7, <1>8, <1>9, <1>10, <1>11,
     <1>12, <1>13, <1>14, <1>15, <1>16, <1>17, <1>18, <1>19, <1>20, <1>21,
     <1>22, <1>23, <1>24, <1>25, <1>26, <1>27, <1>28, <1>29, <1>30, <1>31,
     <1>32, <1>33, <1>34, <1>35, <1>36, <1>37, <1>38
     DEF ProcessStep, StartsUp, ShutsDown, Leaves

\* Runs of other processes stay ended.
LEMMA EndedStep ==
    ASSUME LifeInv, LifeTypeOK', NEW p \in Processes, ProcessStep(p),
           NEW q \in Processes
    PROVE  OthersEnded(q)'
<1> USE DEF LifeInv, LifeTypeOK, ThreadsAgree, LockIsHeld, OthersEnded,
            LoopRuns, threads, inputs, activity, Go, Starting, Live,
            Interrupted
<1>1. CASE Launch(p)
  BY <1>1 DEF Launch
<1>2. CASE Killed(p)
  BY <1>2 DEF Killed, Dies, Released
<1>3. CASE OpenDatabase(p)
  BY <1>3 DEF OpenDatabase
<1>4. CASE RecoverHistory(p)
  BY <1>4 DEF RecoverHistory
<1>5. CASE \E r \in Processes : EndInterrupted(p, r)
  BY <1>5 DEF EndInterrupted
<1>6. CASE InterruptedEnded(p)
  BY <1>6 DEF InterruptedEnded
<1>7. CASE LoadServices(p)
  BY <1>7 DEF LoadServices
<1>8. CASE StartInputs(p)
  BY <1>8 DEF StartInputs, Raise
<1>9. CASE RunForever(p)
  BY <1>9 DEF RunForever
<1>10. CASE StartupFails(p)
  BY <1>10 DEF StartupFails, Raise
<1>11. CASE ShutdownBegins(p)
  BY <1>11 DEF ShutdownBegins, Raise
<1>12. CASE TimersEnd(p)
  BY <1>12 DEF TimersEnd
<1>13. CASE RunsCancelled(p)
  BY <1>13 DEF RunsCancelled, Unwinds
<1>14. CASE Settled(p)
  BY <1>14 DEF Settled, After
<1>15. CASE ResourcesClose(p)
  BY <1>15 DEF ResourcesClose, After
<1>16. CASE DatabaseCloses(p)
  BY <1>16 DEF DatabaseCloses, After
<1>17. CASE InstanceReleased(p)
  BY <1>17 DEF InstanceReleased, After, Released
<1>18. CASE WorkerEnds(p)
  BY <1>18 DEF WorkerEnds, Raise
<1>19. CASE MainReady(p)
  BY <1>19 DEF MainReady
<1>20. CASE GuiReturns(p)
  BY <1>20 DEF GuiReturns
<1>21. CASE RunFinally(p)
  <2>1. \/ UNCHANGED <<flags, shut>>
        \/ /\ worker[p] = "loop" /\ "scheduled" \notin flags[p]
           /\ Raise(p, {"scheduled"}) /\ shut' = Go(shut, p, "asked")
    BY <1>21 DEF RunFinally, ScheduleShutdown
  <2>2. CASE UNCHANGED <<flags, shut>>
    BY <1>21, <2>2 DEF RunFinally
  <2>3. CASE /\ worker[p] = "loop" /\ "scheduled" \notin flags[p]
             /\ Raise(p, {"scheduled"}) /\ shut' = Go(shut, p, "asked")
    BY <1>21, <2>3 DEF RunFinally, Raise
  <2> QED
    BY <2>1, <2>2, <2>3
<1>22. CASE WorkerDone(p)
  BY <1>22 DEF WorkerDone
<1>23. CASE ReleaseInMain(p)
  BY <1>23 DEF ReleaseInMain, Released
<1>24. CASE Exit(p)
  BY <1>24 DEF Exit, Dies, Released
<1>25. CASE CreateWindows(p)
  BY <1>25 DEF CreateWindows, StartsHidden
<1>26. CASE WindowsFail(p)
  BY <1>26 DEF WindowsFail
<1>27. CASE GuiFails(p)
  BY <1>27 DEF GuiFails
<1>28. CASE HideWindow(p)
  BY <1>28 DEF HideWindow
<1>29. CASE ShowWindow(p)
  BY <1>29 DEF ShowWindow
<1>30. CASE CloseWindow(p)
  <2>1. \/ UNCHANGED <<flags, shut>>
        \/ /\ worker[p] = "loop" /\ "scheduled" \notin flags[p]
           /\ Raise(p, {"scheduled"}) /\ shut' = Go(shut, p, "asked")
    BY <1>30 DEF CloseWindow, ScheduleShutdown
  <2>2. CASE UNCHANGED <<flags, shut>>
    BY <1>30, <2>2 DEF CloseWindow
  <2>3. CASE /\ worker[p] = "loop" /\ "scheduled" \notin flags[p]
             /\ Raise(p, {"scheduled"}) /\ shut' = Go(shut, p, "asked")
    BY <1>30, <2>3 DEF CloseWindow, Raise
  <2> QED
    BY <2>1, <2>2, <2>3
<1>31. CASE AskStart(p)
  BY <1>31 DEF AskStart
<1>32. CASE StartCreates(p)
  BY <1>32 DEF StartCreates
<1>33. CASE StartOpens(p)
  BY <1>33 DEF StartOpens
<1>34. CASE StartFails(p)
  BY <1>34 DEF StartFails
<1>35. CASE StopRecording(p)
  BY <1>35 DEF StopRecording
<1>36. CASE WorkEnds(p)
  BY <1>36 DEF WorkEnds
<1>37. CASE AskUpdate(p)
  BY <1>37 DEF AskUpdate
<1>38. CASE UpdateDone(p)
  BY <1>38 DEF UpdateDone
<1> QED
  BY <1>1, <1>2, <1>3, <1>4, <1>5, <1>6, <1>7, <1>8, <1>9, <1>10, <1>11,
     <1>12, <1>13, <1>14, <1>15, <1>16, <1>17, <1>18, <1>19, <1>20, <1>21,
     <1>22, <1>23, <1>24, <1>25, <1>26, <1>27, <1>28, <1>29, <1>30, <1>31,
     <1>32, <1>33, <1>34, <1>35, <1>36, <1>37, <1>38
     DEF ProcessStep, StartsUp, ShutsDown, Leaves

\* The inductive invariant holds from the start and through every step: the
\* threads of a process agree, whoever is up has the lock, and the runs of the
\* others have ended.
THEOREM LifeInvAlways == LifeSpec => []LifeInv
<1>1. LifeInit => LifeInv
  BY DEF LifeInit, LifeInv, LifeTypeOK, ThreadsAgree, WindowsAgree, LockIsHeld,
         OthersEnded, Starting, Stopping, Live
<1>2. ASSUME LifeInv, [LifeNext]_lifeVars
      PROVE  LifeInv'
  <2>1. CASE LifeNext
    <3>1. PICK p \in Processes : ProcessStep(p)
      BY <2>1 DEF LifeNext, ProcessStep
    <3>2. LifeTypeOK'
      BY <1>2, <3>1, LifeTyped DEF LifeInv
    <3> QED
      BY <1>2, <3>1, <3>2, ThreadsStep, WindowsStep, LockStep, EndedStep
         DEF LifeInv
  <2>2. CASE UNCHANGED lifeVars
    BY <1>2, <2>2 DEF lifeVars, LifeInv, LifeTypeOK, ThreadsAgree,
                      WindowsAgree, LockIsHeld, OthersEnded
  <2> QED
    BY <1>2, <2>1, <2>2
<1> QED
  BY <1>1, <1>2, PTL DEF LifeSpec

\* A process that came up keeps the lock while its database is open, no run of
\* another one is recorded as going on while it serves, and a hidden window has
\* an icon, for any number of launches, crashes and failed startups.
THEOREM ProcessesAlwaysTakeTurns == LifeSpec => []ProcessesTakeTurns
<1>1. LifeInv => ProcessesTakeTurns
  <2> SUFFICES ASSUME LifeInv
               PROVE  ProcessesTakeTurns
    OBVIOUS
  <2>1. OpenUnderLock
    BY DEF LifeInv, LifeTypeOK, OpenUnderLock, ThreadsAgree, LockIsHeld,
           Starting
  <2>2. NoneLeftGoing
    BY DEF LifeInv, NoneLeftGoing, ThreadsAgree, OthersEnded
  <2>3. HiddenHasIcon
    BY DEF LifeInv, HiddenHasIcon, WindowsAgree
  <2> QED
    BY <2>1, <2>2, <2>3 DEF ProcessesTakeTurns
<1> QED
  BY <1>1, LifeInvAlways, PTL

-----------------------------------------------------------------------------
(* The settings and the models. *)

\* An editor has asked once it has left its rest, and waits for the
\* publication lock or holds it only for a select.
EditorsAsk ==
    \A e \in Editors :
       /\ work[e].at = "idle" <=> request[e] = none
       /\ work[e].at \in {"storing", "writing", "written"} =>
             request[e].kind \in {"update", "select"}
       /\ work[e].at = "locking" => request[e].kind = "select"
       /\ lock = e => /\ request[e].kind = "select"
                      /\ work[e].at \in {"storing", "writing", "written",
                                         "checking"}

\* One editor at a time is in the store, and what it wrote is the row.
StoreIsHeld ==
    \A e \in Editors :
       /\ work[e].at \in {"writing", "written"} <=> storeLock = e
       /\ work[e].at = "written" => work[e].sees = stored

\* A poll of the present generation began with the settings in use.
PollsAreFresh ==
    \A a \in Actors :
       /\ work[a].gen <= generation
       /\ work[a].at = "publishing" =>
             told[a] \in Status /\ told[a].id = CleanupId(work[a].sees)
       /\ NothingSelected /\ work[a].at \in {"checking", "publishing"}
             /\ work[a].gen = generation => work[a].sees = current

\* The load task works on a model.
LoadHasModel == loadAt \in {"opening", "requesting"} => loading # none

ModelsInv == /\ ModelsTypeOK /\ EditorsAsk /\ StoreIsHeld /\ StoredIsCurrent
             /\ PollsAreFresh /\ LoadHasModel

\* A coroutine that goes to another await changes its own place only.
LEMMA Going ==
    ASSUME ModelsTypeOK, NEW a \in Actors, NEW to, Goes(a, to),
           to \in {"idle", "locking", "storing", "writing", "written",
                   "checking", "publishing", "done"}
    PROVE  /\ work' \in [Actors -> Work]
           /\ work'[a].at = to
           /\ work'[a].gen = work[a].gen /\ work'[a].sees = work[a].sees
           /\ \A c \in Actors \ {a} : work'[c] = work[c]
  BY DEF ModelsTypeOK, Goes, Work

\* A coroutine that begins a poll has what it was given.
LEMMA Beginning ==
    ASSUME ModelsTypeOK, NEW a \in Actors, NEW s \in Settings, NEW n \in Nat,
           Begins(a, s, n)
    PROVE  /\ work' \in [Actors -> Work]
           /\ work'[a].at = "checking"
           /\ work'[a].gen = n /\ work'[a].sees = s
           /\ \A c \in Actors \ {a} : work'[c] = work[c]
  BY DEF ModelsTypeOK, Begins, Work

\* A merged row is valid, and keeps the fields that the patch does not name.
LEMMA Merging ==
    ASSUME ModelsTypeOK, NEW e \in Editors, request[e] # none,
           request[e].kind \in {"update", "select"}, NEW s \in Settings
    PROVE  /\ Merged(Patch(e), s) \in Settings
           /\ \A f \in DOMAIN s \ DOMAIN Patch(e) :
                 Merged(Patch(e), s)[f] = s[f]
<1>1. request[e] \in Requests
  BY DEF ModelsTypeOK
<1>2. CASE request[e].kind = "update"
  <2>1. \A f \in DOMAIN request[e].patch :
           /\ f \in DOMAIN Initial
           /\ request[e].patch[f] \in {x[f] : x \in Settings}
    BY <1>1, <1>2, ModelsAssumption DEF ModelsConstantsOK, RequestsOK
  <2> QED
    BY <1>2, <2>1, ModelsAssumption
       DEF ModelsConstantsOK, Merged, Patch, Settings
<1>3. CASE request[e].kind = "select"
  <2>1. request[e].model \in Models
    BY <1>1, <1>3, ModelsAssumption DEF ModelsConstantsOK, RequestsOK
  <2> QED
    BY <1>3, <2>1 DEF Merged, Patch, Settings
<1> QED
  BY <1>2, <1>3

\* What is reported is a status of the model asked about.
LEMMA Reporting ==
    ASSUME ModelsTypeOK, NEW s \in Settings
    PROVE  Readiness(s) \in Status /\ Readiness(s).id = CleanupId(s)
<1> DEFINE ready == IF s.provider = "nvidia" THEN key
                    ELSE CleanupId(s) \in loaded
           code  == IF ready THEN "ok"
                    ELSE IF s.provider = "nvidia" THEN "key"
                    ELSE IF loading = CleanupId(s) THEN "loading"
                    ELSE "unavailable"
<1>1. CleanupId(s) \in Models
  BY DEF Settings, CleanupId
<1>2. ready \in BOOLEAN
  <2>1. CASE s.provider = "nvidia"
    BY <2>1 DEF ModelsTypeOK
  <2>2. CASE s.provider # "nvidia"
    BY <2>2
  <2> QED
    BY <2>1, <2>2
<1>3. code \in {"ok", "loading", "unavailable", "key"}
  OBVIOUS
<1>4. Readiness(s) = [id |-> CleanupId(s), ready |-> ready, code |-> code]
  BY Zenon DEF Readiness
<1> HIDE DEF ready, code
<1> QED
  BY <1>1, <1>2, <1>3, <1>4 DEF Status

\* Scheduling a load keeps the types, and the task that is under way.
LEMMA Scheduling ==
    ASSUME ModelsTypeOK, NEW forced \in BOOLEAN, Schedule(forced)
    PROVE  /\ again' \in BOOLEAN /\ force' \in BOOLEAN
           /\ loadAt' \in {"none", "new", "opening", "requesting", "closing"}
           /\ loadAt # "none" => loadAt' = loadAt
           /\ loadAt = "none" => loadAt' = "new"
  BY DEF ModelsTypeOK, Schedule

\* So does applying settings.
LEMMA Applying ==
    ASSUME ModelsTypeOK, NEW s \in Settings, Applies(s)
    PROVE  /\ again' \in BOOLEAN /\ force' \in BOOLEAN /\ applied' \in Settings
           /\ callback' = callback
           /\ loadAt' \in {"none", "new", "opening", "requesting", "closing"}
           /\ loadAt # "none" => loadAt' = loadAt
           /\ loadAt = "none" => loadAt' \in {"none", "new"}
  BY Scheduling DEF ModelsTypeOK, Applies

\* A poll that ends publishes what it was told or nothing.
LEMMA Finishing ==
    ASSUME ModelsInv, NEW a \in Actors, NEW status \in Status,
           Finishes(a, status)
    PROVE  /\ ModelsTypeOK'
           /\ work'[a].at \in {"idle", "done"}
           /\ a \in Editors => work'[a].at = "done"
           /\ work'[a].gen = work[a].gen /\ work'[a].sees = work[a].sees
           /\ \A c \in Actors \ {a} : work'[c] = work[c] /\ told'[c] = told[c]
           /\ loadAt' \in {"opening", "requesting"} =>
                 loadAt \in {"opening", "requesting"}
           /\ UNCHANGED <<storeVars, generation, lock, request, engineVars>>
           /\ shown' # shown => work[a].gen = generation /\ shown' = status
<1> USE DEF ModelsInv
<1>1. /\ \E to \in {"idle", "done"} :
            Goes(a, to) /\ (a \in Editors => to = "done")
      /\ again' \in BOOLEAN /\ force' \in BOOLEAN /\ callback' \in BOOLEAN
      /\ loadAt' \in {"none", "new", "opening", "requesting", "closing"}
      /\ loadAt' \in {"opening", "requesting"} =>
            loadAt \in {"opening", "requesting"}
  <2>1. CASE /\ a = "timer" /\ Goes(a, "idle") /\ Schedule(FALSE)
             /\ UNCHANGED callback
    BY <2>1, Scheduling, ModelsAssumption DEF ModelsConstantsOK, ModelsTypeOK
  <2>2. CASE /\ a = "load" /\ loadAt = "opening" /\ Goes(a, "idle")
             /\ loadAt' = "requesting" /\ UNCHANGED <<force, again, callback>>
    BY <2>2, ModelsAssumption DEF ModelsConstantsOK, ModelsTypeOK
  <2>3. CASE /\ a = "load" /\ loadAt = "closing" /\ Goes(a, "idle")
             /\ loadAt' = "none" /\ callback' = TRUE
             /\ UNCHANGED <<force, again>>
    BY <2>3, ModelsAssumption DEF ModelsConstantsOK, ModelsTypeOK
  <2>4. CASE a \in Editors /\ Goes(a, "done") /\ UNCHANGED loadVars
    BY <2>4 DEF loadVars, ModelsTypeOK
  <2> QED
    BY <2>1, <2>2, <2>3, <2>4 DEF Finishes
<1>2. PICK to \in {"idle", "done"} :
         Goes(a, to) /\ (a \in Editors => to = "done")
  BY <1>1
<1>3. /\ UNCHANGED <<storeVars, applied, key, generation, lock, request,
                     engineVars>>
      /\ told' = [told EXCEPT ![a] = none]
      /\ \/ shown' = status /\ last' = status /\ work[a].gen = generation
         \/ UNCHANGED <<shown, last>>
  BY DEF Finishes
<1>4. /\ work' \in [Actors -> Work] /\ work'[a].at = to
      /\ work'[a].gen = work[a].gen /\ work'[a].sees = work[a].sees
      /\ \A c \in Actors \ {a} : work'[c] = work[c]
  BY <1>2, Going
<1>5. ModelsTypeOK'
  BY <1>1, <1>3, <1>4 DEF ModelsTypeOK, storeVars, engineVars
<1> QED
  BY <1>1, <1>2, <1>3, <1>4, <1>5 DEF ModelsTypeOK

\* What is claimed of every step.
StepIsRight == ModelsInv' /\ ChangesOnlyPatched /\ PublishesChosen

\* Select takes the lock and begins a generation.
LEMMA SelectLocksIsRight ==
    ASSUME ModelsInv, NEW e \in Editors, SelectLocks(e)
    PROVE  StepIsRight
<1> USE DEF ModelsInv, StepIsRight
<1>1. /\ work' \in [Actors -> Work] /\ work'[e].at = "storing"
      /\ work'[e].gen = generation + 1 /\ work'[e].sees = current
      /\ \A c \in Actors \ {e} : work'[c] = work[c]
  BY DEF SelectLocks, ModelsTypeOK, Actors, Work
<1>2. ModelsTypeOK'
  BY <1>1, ModelsAssumption
     DEF SelectLocks, storeVars, loadVars, engineVars, Actors, Work,
         ModelsTypeOK, ModelsConstantsOK
<1>3. EditorsAsk'
  BY <1>1, <1>2, ModelsAssumption
     DEF SelectLocks, storeVars, loadVars, engineVars, Actors, Work,
         ModelsTypeOK, EditorsAsk, ModelsConstantsOK
<1>4. StoreIsHeld' /\ StoredIsCurrent'
  BY <1>1, <1>2, ModelsAssumption
     DEF SelectLocks, storeVars, loadVars, engineVars, Actors, Work,
         ModelsTypeOK, EditorsAsk, StoreIsHeld, StoredIsCurrent,
         ModelsConstantsOK
<1>5. PollsAreFresh'
  BY <1>1, <1>2, ModelsAssumption
     DEF SelectLocks, storeVars, loadVars, engineVars, Actors, Work,
         ModelsTypeOK, EditorsAsk, PollsAreFresh, NothingSelected,
         ModelsConstantsOK
<1>6. LoadHasModel'
  BY <1>1, <1>2, ModelsAssumption
     DEF SelectLocks, storeVars, loadVars, engineVars, Actors, Work,
         ModelsTypeOK, LoadHasModel, EditorsAsk, ModelsConstantsOK
<1>7. ChangesOnlyPatched /\ PublishesChosen
  BY <1>1, <1>2, ModelsAssumption
     DEF SelectLocks, storeVars, loadVars, engineVars, Actors, Work,
         ModelsTypeOK, EditorsAsk, ChangesOnlyPatched, PublishesChosen,
         NothingSelected, ModelsConstantsOK
<1> QED
  BY <1>2, <1>3, <1>4, <1>5, <1>6, <1>7

\* The store is free.
LEMMA StoreLocksIsRight ==
    ASSUME ModelsInv, NEW e \in Editors, StoreLocks(e)
    PROVE  StepIsRight
<1> USE DEF ModelsInv, StepIsRight
<1>1. /\ work' \in [Actors -> Work] /\ work'[e].at = "writing"
      /\ work'[e].gen = work[e].gen /\ work'[e].sees = work[e].sees
      /\ \A c \in Actors \ {e} : work'[c] = work[c]
  BY Going
     DEF StoreLocks, Actors
<1>2. ModelsTypeOK'
  BY <1>1, ModelsAssumption
     DEF StoreLocks, StoreFree, storeVars, loadVars, engineVars, Actors, Work,
         ModelsTypeOK, ModelsConstantsOK
<1>3. EditorsAsk'
  BY <1>1, <1>2, ModelsAssumption
     DEF StoreLocks, StoreFree, storeVars, loadVars, engineVars, Actors, Work,
         ModelsTypeOK, EditorsAsk, ModelsConstantsOK
<1>4. StoreIsHeld' /\ StoredIsCurrent'
  BY <1>1, <1>2, ModelsAssumption
     DEF StoreLocks, StoreFree, storeVars, loadVars, engineVars, Actors, Work,
         ModelsTypeOK, EditorsAsk, StoreIsHeld, StoredIsCurrent,
         ModelsConstantsOK
<1>5. PollsAreFresh'
  BY <1>1, <1>2, ModelsAssumption
     DEF StoreLocks, StoreFree, storeVars, loadVars, engineVars, Actors, Work,
         ModelsTypeOK, EditorsAsk, PollsAreFresh, NothingSelected,
         ModelsConstantsOK
<1>6. LoadHasModel'
  BY <1>1, <1>2, ModelsAssumption
     DEF StoreLocks, StoreFree, storeVars, loadVars, engineVars, Actors, Work,
         ModelsTypeOK, LoadHasModel, EditorsAsk, ModelsConstantsOK
<1>7. ChangesOnlyPatched /\ PublishesChosen
  BY <1>1, <1>2, ModelsAssumption
     DEF StoreLocks, StoreFree, storeVars, loadVars, engineVars, Actors, Work,
         ModelsTypeOK, EditorsAsk, ChangesOnlyPatched, PublishesChosen,
         NothingSelected, ModelsConstantsOK
<1> QED
  BY <1>2, <1>3, <1>4, <1>5, <1>6, <1>7

\* The patch is merged.
LEMMA StoreCommitsIsRight ==
    ASSUME ModelsInv, NEW e \in Editors, StoreCommits(e)
    PROVE  StepIsRight
<1> USE DEF ModelsInv, StepIsRight
<1>1. stored' \in Settings
  BY Merging DEF StoreCommits, EditorsAsk, ModelsTypeOK
<1>2. /\ work' \in [Actors -> Work] /\ work'[e].at = "written"
      /\ work'[e].gen = work[e].gen /\ work'[e].sees = stored'
      /\ \A c \in Actors \ {e} : work'[c] = work[c]
  BY <1>1
     DEF StoreCommits, ModelsTypeOK, Actors, Work
<1>3. ModelsTypeOK'
  BY <1>2, ModelsAssumption
     DEF StoreCommits, storeVars, loadVars, engineVars, Actors, Work,
         ModelsTypeOK, ModelsConstantsOK
<1>4. EditorsAsk'
  BY <1>2, <1>3, ModelsAssumption
     DEF StoreCommits, storeVars, loadVars, engineVars, Actors, Work,
         ModelsTypeOK, EditorsAsk, ModelsConstantsOK
<1>5. StoreIsHeld' /\ StoredIsCurrent'
  BY <1>2, <1>3, ModelsAssumption
     DEF StoreCommits, storeVars, loadVars, engineVars, Actors, Work,
         ModelsTypeOK, EditorsAsk, StoreIsHeld, StoredIsCurrent,
         ModelsConstantsOK
<1>6. PollsAreFresh'
  BY <1>2, <1>3, ModelsAssumption
     DEF StoreCommits, storeVars, loadVars, engineVars, Actors, Work,
         ModelsTypeOK, EditorsAsk, PollsAreFresh, NothingSelected,
         ModelsConstantsOK
<1>7. LoadHasModel'
  BY <1>2, <1>3, ModelsAssumption
     DEF StoreCommits, storeVars, loadVars, engineVars, Actors, Work,
         ModelsTypeOK, LoadHasModel, EditorsAsk, ModelsConstantsOK
<1>8. \A f \in DOMAIN stored \ DOMAIN Patch(e) : stored'[f] = stored[f]
  BY Merging DEF StoreCommits, EditorsAsk, ModelsTypeOK
<1>9. ChangesOnlyPatched /\ PublishesChosen
  BY <1>2, <1>8, <1>3, ModelsAssumption
     DEF StoreCommits, storeVars, loadVars, engineVars, Actors, Work,
         ModelsTypeOK, EditorsAsk, ChangesOnlyPatched, PublishesChosen,
         NothingSelected, ModelsConstantsOK
<1> QED
  BY <1>3, <1>4, <1>5, <1>6, <1>7, <1>8, <1>9

\* The store raises.
LEMMA StoreFailsIsRight ==
    ASSUME ModelsInv, NEW e \in Editors, StoreFails(e)
    PROVE  StepIsRight
<1> USE DEF ModelsInv, StepIsRight
<1>1. /\ work' \in [Actors -> Work] /\ work'[e].at = "done"
      /\ work'[e].gen = work[e].gen /\ work'[e].sees = work[e].sees
      /\ \A c \in Actors \ {e} : work'[c] = work[c]
  BY Going
     DEF StoreFails, Actors
<1>2. ModelsTypeOK'
  BY <1>1, ModelsAssumption
     DEF StoreFails, storeVars, loadVars, engineVars, Actors, Work,
         ModelsTypeOK, ModelsConstantsOK
<1>3. EditorsAsk'
  BY <1>1, <1>2, ModelsAssumption
     DEF StoreFails, storeVars, loadVars, engineVars, Actors, Work,
         ModelsTypeOK, EditorsAsk, ModelsConstantsOK
<1>4. StoreIsHeld' /\ StoredIsCurrent'
  BY <1>1, <1>2, ModelsAssumption
     DEF StoreFails, storeVars, loadVars, engineVars, Actors, Work,
         ModelsTypeOK, EditorsAsk, StoreIsHeld, StoredIsCurrent,
         ModelsConstantsOK
<1>5. PollsAreFresh'
  BY <1>1, <1>2, ModelsAssumption
     DEF StoreFails, storeVars, loadVars, engineVars, Actors, Work,
         ModelsTypeOK, EditorsAsk, PollsAreFresh, NothingSelected,
         ModelsConstantsOK
<1>6. LoadHasModel'
  BY <1>1, <1>2, ModelsAssumption
     DEF StoreFails, storeVars, loadVars, engineVars, Actors, Work,
         ModelsTypeOK, LoadHasModel, EditorsAsk, ModelsConstantsOK
<1>7. ChangesOnlyPatched /\ PublishesChosen
  BY <1>1, <1>2, ModelsAssumption
     DEF StoreFails, storeVars, loadVars, engineVars, Actors, Work,
         ModelsTypeOK, EditorsAsk, ChangesOnlyPatched, PublishesChosen,
         NothingSelected, ModelsConstantsOK
<1> QED
  BY <1>2, <1>3, <1>4, <1>5, <1>6, <1>7

\* Select publishes under its lock.
LEMMA SelectPublishesIsRight ==
    ASSUME ModelsInv, NEW e \in Editors, SelectPublishes(e)
    PROVE  StepIsRight
<1> USE DEF ModelsInv, StepIsRight
<1>1. /\ work' \in [Actors -> Work] /\ work'[e].at = "done"
      /\ work'[e].gen = work[e].gen /\ work'[e].sees = work[e].sees
      /\ \A c \in Actors \ {e} : work'[c] = work[c]
  BY Going
     DEF SelectPublishes, Actors
<1>2. Readiness(work[e].sees) \in Status
  BY Reporting DEF ModelsTypeOK, Work, Actors
<1>3. /\ again' \in BOOLEAN /\ force' \in BOOLEAN /\ applied' \in Settings
      /\ callback' = callback
      /\ loadAt' \in {"none", "new", "opening", "requesting", "closing"}
      /\ loadAt # "none" => loadAt' = loadAt
      /\ loadAt = "none" => loadAt' \in {"none", "new"}
  BY Applying DEF SelectPublishes, ModelsTypeOK
<1>4. ModelsTypeOK'
  BY <1>1, <1>2, <1>3, ModelsAssumption
     DEF SelectPublishes, Remembered, storeVars, loadVars, engineVars, Actors,
         Work, ModelsTypeOK, ModelsConstantsOK
<1>5. EditorsAsk'
  BY <1>1, <1>2, <1>3, <1>4, ModelsAssumption
     DEF SelectPublishes, Remembered, storeVars, loadVars, engineVars, Actors,
         Work, ModelsTypeOK, EditorsAsk, ModelsConstantsOK
<1>6. StoreIsHeld' /\ StoredIsCurrent'
  BY <1>1, <1>2, <1>3, <1>4, ModelsAssumption
     DEF SelectPublishes, Remembered, storeVars, loadVars, engineVars, Actors,
         Work, ModelsTypeOK, EditorsAsk, StoreIsHeld, StoredIsCurrent,
         ModelsConstantsOK
<1>7. PollsAreFresh'
  BY <1>1, <1>2, <1>3, <1>4, ModelsAssumption
     DEF SelectPublishes, Remembered, storeVars, loadVars, engineVars, Actors,
         Work, ModelsTypeOK, EditorsAsk, PollsAreFresh, NothingSelected,
         ModelsConstantsOK
<1>8. LoadHasModel'
  BY <1>1, <1>2, <1>3, <1>4, ModelsAssumption
     DEF SelectPublishes, Remembered, storeVars, loadVars, engineVars, Actors,
         Work, ModelsTypeOK, LoadHasModel, EditorsAsk, ModelsConstantsOK
<1>9. ChangesOnlyPatched /\ PublishesChosen
  BY <1>1, <1>2, <1>3, <1>4, ModelsAssumption
     DEF SelectPublishes, Remembered, storeVars, loadVars, engineVars, Actors,
         Work, ModelsTypeOK, EditorsAsk, ChangesOnlyPatched, PublishesChosen,
         NothingSelected, ModelsConstantsOK
<1> QED
  BY <1>4, <1>5, <1>6, <1>7, <1>8, <1>9

\* The timer begins a poll.
LEMMA TimerTicksIsRight ==
    ASSUME ModelsInv, TimerTicks
    PROVE  StepIsRight
<1> USE DEF ModelsInv, StepIsRight
<1>1. /\ work' \in [Actors -> Work] /\ work'["timer"].at = "checking"
      /\ work'["timer"].gen = generation /\ work'["timer"].sees = current
      /\ \A c \in Actors \ {"timer"} : work'[c] = work[c]
  BY Beginning
     DEF TimerTicks, ModelsTypeOK, Actors
<1>2. ModelsTypeOK'
  BY <1>1, ModelsAssumption
     DEF TimerTicks, storeVars, loadVars, engineVars, Actors, Work,
         ModelsTypeOK, ModelsConstantsOK
<1>3. EditorsAsk'
  BY <1>1, <1>2, ModelsAssumption
     DEF TimerTicks, storeVars, loadVars, engineVars, Actors, Work,
         ModelsTypeOK, EditorsAsk, ModelsConstantsOK
<1>4. StoreIsHeld' /\ StoredIsCurrent'
  BY <1>1, <1>2, ModelsAssumption
     DEF TimerTicks, storeVars, loadVars, engineVars, Actors, Work,
         ModelsTypeOK, EditorsAsk, StoreIsHeld, StoredIsCurrent,
         ModelsConstantsOK
<1>5. PollsAreFresh'
  BY <1>1, <1>2, ModelsAssumption
     DEF TimerTicks, storeVars, loadVars, engineVars, Actors, Work,
         ModelsTypeOK, EditorsAsk, PollsAreFresh, NothingSelected,
         ModelsConstantsOK
<1>6. LoadHasModel'
  BY <1>1, <1>2, ModelsAssumption
     DEF TimerTicks, storeVars, loadVars, engineVars, Actors, Work,
         ModelsTypeOK, LoadHasModel, EditorsAsk, ModelsConstantsOK
<1>7. ChangesOnlyPatched /\ PublishesChosen
  BY <1>1, <1>2, ModelsAssumption
     DEF TimerTicks, storeVars, loadVars, engineVars, Actors, Work,
         ModelsTypeOK, EditorsAsk, ChangesOnlyPatched, PublishesChosen,
         NothingSelected, ModelsConstantsOK
<1> QED
  BY <1>2, <1>3, <1>4, <1>5, <1>6, <1>7

\* The load task ends its load and polls again.
LEMMA LoadEndsIsRight ==
    ASSUME ModelsInv, LoadEnds
    PROVE  StepIsRight
<1> USE DEF ModelsInv, StepIsRight
<1>1. /\ loaded' \subseteq Models /\ backoff' \subseteq Models
      /\ left' \in [fails: 0 .. FailMax, unloads: 0 .. UnloadMax]
  BY ModelsAssumption
     DEF LoadEnds, ModelsTypeOK, LoadHasModel, ModelsConstantsOK
<1>2. /\ work' \in [Actors -> Work] /\ work'["load"].at = "checking"
      /\ work'["load"].gen = generation /\ work'["load"].sees = current
      /\ \A c \in Actors \ {"load"} : work'[c] = work[c]
  BY <1>1, Beginning
     DEF LoadEnds, ModelsTypeOK, Actors
<1>3. ModelsTypeOK'
  BY <1>1, <1>2, ModelsAssumption
     DEF LoadEnds, NotLoading, storeVars, loadVars, engineVars, Actors, Work,
         ModelsTypeOK, ModelsConstantsOK
<1>4. EditorsAsk'
  BY <1>1, <1>2, <1>3, ModelsAssumption
     DEF LoadEnds, NotLoading, storeVars, loadVars, engineVars, Actors, Work,
         ModelsTypeOK, EditorsAsk, ModelsConstantsOK
<1>5. StoreIsHeld' /\ StoredIsCurrent'
  BY <1>1, <1>2, <1>3, ModelsAssumption
     DEF LoadEnds, NotLoading, storeVars, loadVars, engineVars, Actors, Work,
         ModelsTypeOK, EditorsAsk, StoreIsHeld, StoredIsCurrent,
         ModelsConstantsOK
<1>6. PollsAreFresh'
  BY <1>1, <1>2, <1>3, ModelsAssumption
     DEF LoadEnds, NotLoading, storeVars, loadVars, engineVars, Actors, Work,
         ModelsTypeOK, EditorsAsk, PollsAreFresh, NothingSelected,
         ModelsConstantsOK
<1>7. LoadHasModel'
  BY <1>1, <1>2, <1>3, ModelsAssumption
     DEF LoadEnds, NotLoading, storeVars, loadVars, engineVars, Actors, Work,
         ModelsTypeOK, LoadHasModel, EditorsAsk, ModelsConstantsOK
<1>8. ChangesOnlyPatched /\ PublishesChosen
  BY <1>1, <1>2, <1>3, ModelsAssumption
     DEF LoadEnds, NotLoading, storeVars, loadVars, engineVars, Actors, Work,
         ModelsTypeOK, EditorsAsk, ChangesOnlyPatched, PublishesChosen,
         NothingSelected, ModelsConstantsOK
<1> QED
  BY <1>3, <1>4, <1>5, <1>6, <1>7, <1>8

\* A poll ends, with a status of the model it asked about.
LEMMA FinishedPollIsRight ==
    ASSUME ModelsInv, NEW a \in Actors, NEW status \in Status,
           work[a].at \in {"checking", "publishing"},
           a \in Editors => lock # a,
           status.id = CleanupId(work[a].sees), Finishes(a, status)
    PROVE  StepIsRight
<1> USE DEF ModelsInv, StepIsRight
<1>1. /\ work' \in [Actors -> Work] /\ work'[a].at \in {"idle", "done"}
      /\ work'[a].gen = work[a].gen /\ work'[a].sees = work[a].sees
      /\ \A c \in Actors \ {a} : work'[c] = work[c]
  BY Finishing
     DEF ModelsTypeOK
<1>2. /\ a \in Editors => work'[a].at = "done"
      /\ \A c \in Actors \ {a} : told'[c] = told[c]
      /\ loadAt' \in {"opening", "requesting"} =>
            loadAt \in {"opening", "requesting"}
      /\ UNCHANGED <<storeVars, generation, lock, request, engineVars>>
      /\ shown' # shown => work[a].gen = generation /\ shown' = status
  BY Finishing
<1>3. ModelsTypeOK'
  BY Finishing
<1>4. ModelsTypeOK'
  BY <1>1, <1>2, <1>3, ModelsAssumption
     DEF Work, storeVars, loadVars, engineVars, Actors, Work, ModelsTypeOK,
         ModelsConstantsOK
<1>5. EditorsAsk'
  BY <1>1, <1>2, <1>3, <1>4, ModelsAssumption
     DEF Work, storeVars, loadVars, engineVars, Actors, Work, ModelsTypeOK,
         EditorsAsk, ModelsConstantsOK
<1>6. StoreIsHeld' /\ StoredIsCurrent'
  BY <1>1, <1>2, <1>3, <1>4, ModelsAssumption
     DEF Work, storeVars, loadVars, engineVars, Actors, Work, ModelsTypeOK,
         EditorsAsk, StoreIsHeld, StoredIsCurrent, ModelsConstantsOK
<1>7. PollsAreFresh'
  BY <1>1, <1>2, <1>3, <1>4, ModelsAssumption
     DEF Work, storeVars, loadVars, engineVars, Actors, Work, ModelsTypeOK,
         EditorsAsk, PollsAreFresh, NothingSelected, ModelsConstantsOK
<1>8. LoadHasModel'
  BY <1>1, <1>2, <1>3, <1>4, ModelsAssumption
     DEF Work, storeVars, loadVars, engineVars, Actors, Work, ModelsTypeOK,
         LoadHasModel, EditorsAsk, ModelsConstantsOK
<1>9. ChangesOnlyPatched /\ PublishesChosen
  BY <1>1, <1>2, <1>3, <1>4, ModelsAssumption
     DEF Work, storeVars, loadVars, engineVars, Actors, Work, ModelsTypeOK,
         EditorsAsk, ChangesOnlyPatched, PublishesChosen, NothingSelected,
         PollsAreFresh, ModelsConstantsOK
<1> QED
  BY <1>4, <1>5, <1>6, <1>7, <1>8, <1>9

\* A poll that is answered waits for the lock.
LEMMA AnsweredPollIsRight ==
    ASSUME ModelsInv, NEW a \in Actors, work[a].at = "checking", lock # a,
           told' = [told EXCEPT ![a] = Readiness(work[a].sees)],
           Goes(a, "publishing"),
           UNCHANGED <<storeVars, applied, key, generation, lock, last, shown,
                       request, loadVars, engineVars>>
    PROVE  StepIsRight
<1> USE DEF ModelsInv, StepIsRight
<1>1. /\ work' \in [Actors -> Work] /\ work'[a].at = "publishing"
      /\ work'[a].gen = work[a].gen /\ work'[a].sees = work[a].sees
      /\ \A c \in Actors \ {a} : work'[c] = work[c]
  BY Going
     DEF Actors
<1>2. /\ Readiness(work[a].sees) \in Status
      /\ Readiness(work[a].sees).id = CleanupId(work[a].sees)
  BY Reporting DEF ModelsTypeOK, Work
<1>3. ModelsTypeOK'
  BY <1>1, <1>2, ModelsAssumption
     DEF Work, storeVars, loadVars, engineVars, Actors, Work, ModelsTypeOK,
         ModelsConstantsOK
<1>4. EditorsAsk'
  BY <1>1, <1>2, <1>3, ModelsAssumption
     DEF Work, storeVars, loadVars, engineVars, Actors, Work, ModelsTypeOK,
         EditorsAsk, ModelsConstantsOK
<1>5. StoreIsHeld' /\ StoredIsCurrent'
  BY <1>1, <1>2, <1>3, ModelsAssumption
     DEF Work, storeVars, loadVars, engineVars, Actors, Work, ModelsTypeOK,
         EditorsAsk, StoreIsHeld, StoredIsCurrent, ModelsConstantsOK
<1>6. PollsAreFresh'
  BY <1>1, <1>2, <1>3, ModelsAssumption
     DEF Work, storeVars, loadVars, engineVars, Actors, Work, ModelsTypeOK,
         EditorsAsk, PollsAreFresh, NothingSelected, ModelsConstantsOK
<1>7. LoadHasModel'
  BY <1>1, <1>2, <1>3, ModelsAssumption
     DEF Work, storeVars, loadVars, engineVars, Actors, Work, ModelsTypeOK,
         LoadHasModel, EditorsAsk, ModelsConstantsOK
<1>8. ChangesOnlyPatched /\ PublishesChosen
  BY <1>1, <1>2, <1>3, ModelsAssumption
     DEF Work, storeVars, loadVars, engineVars, Actors, Work, ModelsTypeOK,
         EditorsAsk, ChangesOnlyPatched, PublishesChosen, NothingSelected,
         ModelsConstantsOK
<1> QED
  BY <1>3, <1>4, <1>5, <1>6, <1>7, <1>8

\* A poll that is answered ends or waits.
LEMMA AnsweredIsRight ==
    ASSUME ModelsInv, NEW a \in Actors, Answered(a)
    PROVE  StepIsRight
<1>1. /\ Readiness(work[a].sees) \in Status
      /\ Readiness(work[a].sees).id = CleanupId(work[a].sees)
  BY Reporting DEF ModelsInv, ModelsTypeOK, Work
<1>2. CASE lock = none /\ ~Waiting
  BY <1>1, <1>2, FinishedPollIsRight DEF Answered
<1>3. CASE ~(lock = none /\ ~Waiting)
  BY <1>3, AnsweredPollIsRight DEF Answered
<1> QED
  BY <1>2, <1>3

\* A poll that waited ends.
LEMMA PublishesIsRight ==
    ASSUME ModelsInv, NEW a \in Actors, Publishes(a)
    PROVE  StepIsRight
<1>1. a \in Editors => lock # a
  BY ModelsAssumption
     DEF Publishes, ModelsInv, ModelsTypeOK, EditorsAsk, Actors,
         ModelsConstantsOK
<1> QED
  BY <1>1, FinishedPollIsRight DEF Publishes, ModelsInv, PollsAreFresh

\* A select is asked for.
LEMMA AskingSelectIsRight ==
    ASSUME ModelsInv, NEW e \in Editors, NEW r \in Requests, Ask(e, r),
           r.kind = "select"
    PROVE  StepIsRight
<1> USE DEF ModelsInv, StepIsRight
<1>1. /\ work' \in [Actors -> Work] /\ work'[e].at = "locking"
      /\ work'[e].gen = work[e].gen /\ work'[e].sees = work[e].sees
      /\ \A c \in Actors \ {e} : work'[c] = work[c]
  BY Going
     DEF Ask, Actors, ModelsTypeOK
<1>2. request[e] = none /\ r # none
  BY ModelsAssumption
     DEF Ask, EditorsAsk, ModelsConstantsOK, RequestsOK
<1>3. ModelsTypeOK'
  BY <1>1, <1>2, ModelsAssumption
     DEF Ask, storeVars, loadVars, engineVars, Actors, Work, ModelsTypeOK,
         ModelsConstantsOK
<1>4. EditorsAsk'
  BY <1>1, <1>2, <1>3, ModelsAssumption
     DEF Ask, storeVars, loadVars, engineVars, Actors, Work, ModelsTypeOK,
         EditorsAsk, ModelsConstantsOK
<1>5. StoreIsHeld' /\ StoredIsCurrent'
  BY <1>1, <1>2, <1>3, ModelsAssumption
     DEF Ask, storeVars, loadVars, engineVars, Actors, Work, ModelsTypeOK,
         EditorsAsk, StoreIsHeld, StoredIsCurrent, ModelsConstantsOK
<1>6. PollsAreFresh'
  BY <1>1, <1>2, <1>3, ModelsAssumption
     DEF Ask, storeVars, loadVars, engineVars, Actors, Work, ModelsTypeOK,
         EditorsAsk, PollsAreFresh, NothingSelected, ModelsConstantsOK
<1>7. LoadHasModel'
  BY <1>1, <1>2, <1>3, ModelsAssumption
     DEF Ask, storeVars, loadVars, engineVars, Actors, Work, ModelsTypeOK,
         LoadHasModel, EditorsAsk, ModelsConstantsOK
<1>8. ChangesOnlyPatched /\ PublishesChosen
  BY <1>1, <1>2, <1>3, ModelsAssumption
     DEF Ask, storeVars, loadVars, engineVars, Actors, Work, ModelsTypeOK,
         EditorsAsk, ChangesOnlyPatched, PublishesChosen, NothingSelected,
         ModelsConstantsOK
<1> QED
  BY <1>3, <1>4, <1>5, <1>6, <1>7, <1>8

\* An update is asked for.
LEMMA AskingUpdateIsRight ==
    ASSUME ModelsInv, NEW e \in Editors, NEW r \in Requests, Ask(e, r),
           r.kind = "update"
    PROVE  StepIsRight
<1> USE DEF ModelsInv, StepIsRight
<1>1. /\ work' \in [Actors -> Work] /\ work'[e].at = "storing"
      /\ work'[e].gen = work[e].gen /\ work'[e].sees = work[e].sees
      /\ \A c \in Actors \ {e} : work'[c] = work[c]
  BY Going
     DEF Ask, Actors, ModelsTypeOK
<1>2. request[e] = none /\ r # none
  BY ModelsAssumption
     DEF Ask, EditorsAsk, ModelsConstantsOK, RequestsOK
<1>3. ModelsTypeOK'
  BY <1>1, <1>2, ModelsAssumption
     DEF Ask, storeVars, loadVars, engineVars, Actors, Work, ModelsTypeOK,
         ModelsConstantsOK
<1>4. EditorsAsk'
  BY <1>1, <1>2, <1>3, ModelsAssumption
     DEF Ask, storeVars, loadVars, engineVars, Actors, Work, ModelsTypeOK,
         EditorsAsk, ModelsConstantsOK
<1>5. StoreIsHeld' /\ StoredIsCurrent'
  BY <1>1, <1>2, <1>3, ModelsAssumption
     DEF Ask, storeVars, loadVars, engineVars, Actors, Work, ModelsTypeOK,
         EditorsAsk, StoreIsHeld, StoredIsCurrent, ModelsConstantsOK
<1>6. PollsAreFresh'
  BY <1>1, <1>2, <1>3, ModelsAssumption
     DEF Ask, storeVars, loadVars, engineVars, Actors, Work, ModelsTypeOK,
         EditorsAsk, PollsAreFresh, NothingSelected, ModelsConstantsOK
<1>7. LoadHasModel'
  BY <1>1, <1>2, <1>3, ModelsAssumption
     DEF Ask, storeVars, loadVars, engineVars, Actors, Work, ModelsTypeOK,
         LoadHasModel, EditorsAsk, ModelsConstantsOK
<1>8. ChangesOnlyPatched /\ PublishesChosen
  BY <1>1, <1>2, <1>3, ModelsAssumption
     DEF Ask, storeVars, loadVars, engineVars, Actors, Work, ModelsTypeOK,
         EditorsAsk, ChangesOnlyPatched, PublishesChosen, NothingSelected,
         ModelsConstantsOK
<1> QED
  BY <1>3, <1>4, <1>5, <1>6, <1>7, <1>8

\* A key edit is asked for.
LEMMA AskingKeyIsRight ==
    ASSUME ModelsInv, NEW e \in Editors, NEW r \in Requests, Ask(e, r),
           r.kind = "key"
    PROVE  StepIsRight
<1> USE DEF ModelsInv, StepIsRight
<1>1. /\ work' \in [Actors -> Work] /\ work'[e].at = "checking"
      /\ work'[e].gen = generation + 1 /\ work'[e].sees = current
      /\ \A c \in Actors \ {e} : work'[c] = work[c]
  BY Beginning
     DEF Ask, Actors, ModelsTypeOK
<1>2. request[e] = none /\ r # none
  BY ModelsAssumption
     DEF Ask, EditorsAsk, ModelsConstantsOK, RequestsOK
<1>3. /\ key' \in BOOLEAN /\ generation' = generation + 1
      /\ request' \in [Editors -> Requests \union {none}]
      /\ UNCHANGED <<storeVars, applied, lock, last, shown, told, loadVars,
                     engineVars>>
  BY ModelsAssumption DEF Ask, ModelsTypeOK, ModelsConstantsOK, RequestsOK
<1>4. ModelsTypeOK'
  BY <1>1, <1>2, <1>3, ModelsAssumption
     DEF Ask, storeVars, loadVars, engineVars, Actors, Work, ModelsTypeOK,
         ModelsConstantsOK
<1>5. EditorsAsk'
  BY <1>1, <1>2, <1>3, <1>4, ModelsAssumption
     DEF Ask, storeVars, loadVars, engineVars, Actors, Work, ModelsTypeOK,
         EditorsAsk, ModelsConstantsOK
<1>6. StoreIsHeld' /\ StoredIsCurrent'
  BY <1>1, <1>2, <1>3, <1>4, ModelsAssumption
     DEF Ask, storeVars, loadVars, engineVars, Actors, Work, ModelsTypeOK,
         EditorsAsk, StoreIsHeld, StoredIsCurrent, ModelsConstantsOK
<1>7. PollsAreFresh'
  BY <1>1, <1>2, <1>3, <1>4, ModelsAssumption
     DEF Ask, storeVars, loadVars, engineVars, Actors, Work, ModelsTypeOK,
         EditorsAsk, PollsAreFresh, NothingSelected, ModelsConstantsOK
<1>8. LoadHasModel'
  BY <1>1, <1>2, <1>3, <1>4, ModelsAssumption
     DEF Ask, storeVars, loadVars, engineVars, Actors, Work, ModelsTypeOK,
         LoadHasModel, EditorsAsk, ModelsConstantsOK
<1>9. ChangesOnlyPatched /\ PublishesChosen
  BY <1>1, <1>2, <1>3, <1>4, ModelsAssumption
     DEF Ask, storeVars, loadVars, engineVars, Actors, Work, ModelsTypeOK,
         EditorsAsk, ChangesOnlyPatched, PublishesChosen, NothingSelected,
         ModelsConstantsOK
<1> QED
  BY <1>4, <1>5, <1>6, <1>7, <1>8, <1>9

\* The write of an update returns.
LEMMA ReturningUpdateIsRight ==
    ASSUME ModelsInv, NEW e \in Editors, StoreReturns(e),
           request[e].kind = "update"
    PROVE  StepIsRight
<1> USE DEF ModelsInv, StepIsRight
<1>1. /\ work' \in [Actors -> Work] /\ work'[e].at = "done"
      /\ work'[e].gen = work[e].gen /\ work'[e].sees = work[e].sees
      /\ \A c \in Actors \ {e} : work'[c] = work[c]
  BY Going
     DEF StoreReturns, Actors
<1>2. /\ again' \in BOOLEAN /\ force' \in BOOLEAN /\ applied' \in Settings
      /\ callback' = callback /\ current' = stored
      /\ loadAt' \in {"none", "new", "opening", "requesting", "closing"}
      /\ loadAt # "none" => loadAt' = loadAt
      /\ loadAt = "none" => loadAt' \in {"none", "new"}
  BY Applying DEF StoreReturns, ModelsTypeOK, StoreIsHeld
<1>3. ModelsTypeOK'
  BY <1>1, <1>2, ModelsAssumption
     DEF StoreReturns, Invalidated, storeVars, loadVars, engineVars, Actors,
         Work, ModelsTypeOK, ModelsConstantsOK
<1>4. EditorsAsk'
  BY <1>1, <1>2, <1>3, ModelsAssumption
     DEF StoreReturns, Invalidated, storeVars, loadVars, engineVars, Actors,
         Work, ModelsTypeOK, EditorsAsk, ModelsConstantsOK
<1>5. StoreIsHeld' /\ StoredIsCurrent'
  BY <1>1, <1>2, <1>3, ModelsAssumption
     DEF StoreReturns, Invalidated, storeVars, loadVars, engineVars, Actors,
         Work, ModelsTypeOK, EditorsAsk, StoreIsHeld, StoredIsCurrent,
         ModelsConstantsOK
<1>6. PollsAreFresh'
  BY <1>1, <1>2, <1>3, ModelsAssumption
     DEF StoreReturns, Invalidated, storeVars, loadVars, engineVars, Actors,
         Work, ModelsTypeOK, EditorsAsk, PollsAreFresh, NothingSelected,
         ModelsConstantsOK
<1>7. LoadHasModel'
  BY <1>1, <1>2, <1>3, ModelsAssumption
     DEF StoreReturns, Invalidated, storeVars, loadVars, engineVars, Actors,
         Work, ModelsTypeOK, LoadHasModel, EditorsAsk, ModelsConstantsOK
<1>8. ChangesOnlyPatched /\ PublishesChosen
  BY <1>1, <1>2, <1>3, ModelsAssumption
     DEF StoreReturns, Invalidated, storeVars, loadVars, engineVars, Actors,
         Work, ModelsTypeOK, EditorsAsk, ChangesOnlyPatched, PublishesChosen,
         NothingSelected, ModelsConstantsOK
<1> QED
  BY <1>3, <1>4, <1>5, <1>6, <1>7, <1>8

\* The write of a select returns.
LEMMA ReturningSelectIsRight ==
    ASSUME ModelsInv, NEW e \in Editors, StoreReturns(e),
           request[e].kind = "select"
    PROVE  StepIsRight
<1> USE DEF ModelsInv, StepIsRight
<1>1. current' = stored
  BY DEF StoreReturns, StoreIsHeld
<1>2. /\ work' \in [Actors -> Work] /\ work'[e].at = "checking"
      /\ work'[e].gen = work[e].gen /\ work'[e].sees = stored
      /\ \A c \in Actors \ {e} : work'[c] = work[c]
  BY <1>1, Beginning
     DEF StoreReturns, Actors, ModelsTypeOK, StoreIsHeld, Work
<1>3. ModelsTypeOK'
  BY <1>1, <1>2, ModelsAssumption
     DEF StoreReturns, storeVars, loadVars, engineVars, Actors, Work,
         ModelsTypeOK, ModelsConstantsOK
<1>4. EditorsAsk'
  BY <1>1, <1>2, <1>3, ModelsAssumption
     DEF StoreReturns, storeVars, loadVars, engineVars, Actors, Work,
         ModelsTypeOK, EditorsAsk, ModelsConstantsOK
<1>5. StoreIsHeld' /\ StoredIsCurrent'
  BY <1>1, <1>2, <1>3, ModelsAssumption
     DEF StoreReturns, storeVars, loadVars, engineVars, Actors, Work,
         ModelsTypeOK, EditorsAsk, StoreIsHeld, StoredIsCurrent,
         ModelsConstantsOK
<1>6. PollsAreFresh'
  BY <1>1, <1>2, <1>3, ModelsAssumption
     DEF StoreReturns, storeVars, loadVars, engineVars, Actors, Work,
         ModelsTypeOK, EditorsAsk, PollsAreFresh, NothingSelected,
         ModelsConstantsOK
<1>7. LoadHasModel'
  BY <1>1, <1>2, <1>3, ModelsAssumption
     DEF StoreReturns, storeVars, loadVars, engineVars, Actors, Work,
         ModelsTypeOK, LoadHasModel, EditorsAsk, ModelsConstantsOK
<1>8. ChangesOnlyPatched /\ PublishesChosen
  BY <1>1, <1>2, <1>3, ModelsAssumption
     DEF StoreReturns, storeVars, loadVars, engineVars, Actors, Work,
         ModelsTypeOK, EditorsAsk, ChangesOnlyPatched, PublishesChosen,
         NothingSelected, ModelsConstantsOK
<1> QED
  BY <1>3, <1>4, <1>5, <1>6, <1>7, <1>8

\* A load starts with a poll.
LEMMA StartingLoadIsRight ==
    ASSUME ModelsInv, loadAt = "new", loading' = current.model,
           loadAt' = "opening",
           Begins("load", current, generation),
           UNCHANGED <<storeVars, applied, key, generation, lock, last, shown,
                       request, told, force, again, callback, backoff, loaded,
                       left>>
    PROVE  StepIsRight
<1> USE DEF ModelsInv, StepIsRight
<1>1. /\ work' \in [Actors -> Work] /\ work'["load"].at = "checking"
      /\ work'["load"].gen = generation /\ work'["load"].sees = current
      /\ \A c \in Actors \ {"load"} : work'[c] = work[c]
  BY Beginning
     DEF ModelsTypeOK, Actors
<1>2. ModelsTypeOK'
  BY <1>1, ModelsAssumption
     DEF Settings, storeVars, loadVars, engineVars, Actors, Work,
         ModelsTypeOK, ModelsConstantsOK
<1>3. EditorsAsk'
  BY <1>1, <1>2, ModelsAssumption
     DEF Settings, storeVars, loadVars, engineVars, Actors, Work,
         ModelsTypeOK, EditorsAsk, ModelsConstantsOK
<1>4. StoreIsHeld' /\ StoredIsCurrent'
  BY <1>1, <1>2, ModelsAssumption
     DEF Settings, storeVars, loadVars, engineVars, Actors, Work,
         ModelsTypeOK, EditorsAsk, StoreIsHeld, StoredIsCurrent,
         ModelsConstantsOK
<1>5. PollsAreFresh'
  BY <1>1, <1>2, ModelsAssumption
     DEF Settings, storeVars, loadVars, engineVars, Actors, Work,
         ModelsTypeOK, EditorsAsk, PollsAreFresh, NothingSelected,
         ModelsConstantsOK
<1>6. LoadHasModel'
  BY <1>1, <1>2, ModelsAssumption
     DEF Settings, storeVars, loadVars, engineVars, Actors, Work,
         ModelsTypeOK, LoadHasModel, EditorsAsk, ModelsConstantsOK
<1>7. ChangesOnlyPatched /\ PublishesChosen
  BY <1>1, <1>2, ModelsAssumption
     DEF Settings, storeVars, loadVars, engineVars, Actors, Work,
         ModelsTypeOK, EditorsAsk, ChangesOnlyPatched, PublishesChosen,
         NothingSelected, ModelsConstantsOK
<1> QED
  BY <1>2, <1>3, <1>4, <1>5, <1>6, <1>7

\* Steps that no editor and no poll sees.
LEMMA QuietStepIsRight ==
    ASSUME ModelsInv, ModelsTypeOK', LoadHasModel',
           UNCHANGED <<storeVars, generation, lock, shown, work, request,
                       told>>
    PROVE  StepIsRight
<1> USE DEF ModelsInv, StepIsRight
<1>1. ModelsTypeOK'
  BY ModelsAssumption
     DEF StepIsRight, storeVars, loadVars, engineVars, Actors, Work,
         ModelsTypeOK, ModelsConstantsOK
<1>2. EditorsAsk'
  BY <1>1, ModelsAssumption
     DEF StepIsRight, storeVars, loadVars, engineVars, Actors, Work,
         ModelsTypeOK, EditorsAsk, ModelsConstantsOK
<1>3. StoreIsHeld' /\ StoredIsCurrent'
  BY <1>1, ModelsAssumption
     DEF StepIsRight, storeVars, loadVars, engineVars, Actors, Work,
         ModelsTypeOK, EditorsAsk, StoreIsHeld, StoredIsCurrent,
         ModelsConstantsOK
<1>4. PollsAreFresh'
  BY <1>1, ModelsAssumption
     DEF StepIsRight, storeVars, loadVars, engineVars, Actors, Work,
         ModelsTypeOK, EditorsAsk, PollsAreFresh, NothingSelected,
         ModelsConstantsOK
<1>5. LoadHasModel'
  BY <1>1, ModelsAssumption
     DEF StepIsRight, storeVars, loadVars, engineVars, Actors, Work,
         ModelsTypeOK, LoadHasModel, EditorsAsk, ModelsConstantsOK
<1>6. ChangesOnlyPatched /\ PublishesChosen
  BY <1>1, ModelsAssumption
     DEF StepIsRight, storeVars, loadVars, engineVars, Actors, Work,
         ModelsTypeOK, EditorsAsk, ChangesOnlyPatched, PublishesChosen,
         NothingSelected, ModelsConstantsOK
<1> QED
  BY <1>1, <1>2, <1>3, <1>4, <1>5, <1>6

\* What an editor asks for.
LEMMA AskIsRight ==
    ASSUME ModelsInv, NEW e \in Editors, NEW r \in Requests, Ask(e, r)
    PROVE  StepIsRight
<1>1. r.kind \in {"select", "update", "key"}
  BY DEF Ask
<1> QED
  BY <1>1, AskingSelectIsRight, AskingUpdateIsRight, AskingKeyIsRight

\* The write returns.
LEMMA StoreReturnsIsRight ==
    ASSUME ModelsInv, NEW e \in Editors, StoreReturns(e)
    PROVE  StepIsRight
<1>1. request[e].kind \in {"select", "update"}
  BY DEF StoreReturns
<1> QED
  BY <1>1, ReturningUpdateIsRight, ReturningSelectIsRight

\* The load task starts, or ends at once.
LEMMA LoadStartsIsRight ==
    ASSUME ModelsInv, LoadStarts
    PROVE  StepIsRight
<1>1. CASE MayLoad
  BY <1>1, StartingLoadIsRight DEF LoadStarts
<1>2. CASE ~MayLoad
  <2>1. /\ loadAt' = "none" /\ callback' = TRUE
        /\ UNCHANGED <<storeVars, applied, key, generation, lock, last, shown,
                       request, told, force, again, backoff, loaded, left,
                       loading, work>>
    BY <1>2 DEF LoadStarts
  <2>2. ModelsTypeOK' /\ LoadHasModel'
    BY <2>1 DEF ModelsInv, ModelsTypeOK, LoadHasModel, storeVars
  <2> QED
    BY <2>1, <2>2, QuietStepIsRight
<1> QED
  BY <1>1, <1>2

\* The callback of the load task schedules another one, or nothing.
LEMMA AfterLoadIsRight ==
    ASSUME ModelsInv, AfterLoad
    PROVE  StepIsRight
<1>1. /\ again' \in BOOLEAN /\ force' \in BOOLEAN
      /\ loadAt' \in {"none", "new", "opening", "requesting", "closing"}
      /\ loadAt' \in {"opening", "requesting"} =>
            loadAt \in {"opening", "requesting"}
  <2>1. CASE again
    BY <2>1, Scheduling DEF AfterLoad, ModelsInv
  <2>2. CASE ~again
    BY <2>2 DEF AfterLoad, ModelsInv, ModelsTypeOK
  <2> QED
    BY <2>1, <2>2
<1>2. ModelsTypeOK' /\ LoadHasModel'
  BY <1>1 DEF AfterLoad, ModelsInv, ModelsTypeOK, LoadHasModel, engineVars,
              storeVars
<1> QED
  BY <1>2, QuietStepIsRight DEF AfterLoad

\* LM Studio's models come and go without any poll knowing.
LEMMA EnvironmentIsRight ==
    ASSUME ModelsInv, NEW m \in Models, BackoffPasses(m) \/ Unloaded(m)
    PROVE  StepIsRight
<1>1. ModelsTypeOK'
  <2>1. left' \in [fails: 0 .. FailMax, unloads: 0 .. UnloadMax]
    BY ModelsAssumption
       DEF BackoffPasses, Unloaded, ModelsInv, ModelsTypeOK, ModelsConstantsOK
  <2> QED
    BY <2>1 DEF BackoffPasses, Unloaded, ModelsInv, ModelsTypeOK, storeVars,
                loadVars
<1>2. LoadHasModel'
  BY DEF BackoffPasses, Unloaded, ModelsInv, LoadHasModel, loadVars
<1> QED
  BY <1>1, <1>2, QuietStepIsRight DEF BackoffPasses, Unloaded

\* Every step is right.
LEMMA ModelsStepIsRight ==
    ASSUME ModelsInv, [ModelsNext]_modelVars
    PROVE  ModelsInv' /\ [ChangesOnlyPatched /\ PublishesChosen]_modelVars
<1>1. CASE \E e \in Editors, r \in Requests : Ask(e, r)
  BY <1>1, AskIsRight DEF StepIsRight
<1>2. CASE \E e \in Editors : EditorStep(e)
  BY <1>2, SelectLocksIsRight, StoreLocksIsRight, StoreCommitsIsRight,
     StoreFailsIsRight, StoreReturnsIsRight, SelectPublishesIsRight
     DEF EditorStep, StepIsRight
<1>3. CASE \E a \in Actors : Answered(a) \/ Publishes(a)
  BY <1>3, AnsweredIsRight, PublishesIsRight DEF StepIsRight
<1>4. CASE TimerTicks \/ LoadStarts \/ LoadEnds \/ AfterLoad
  BY <1>4, TimerTicksIsRight, LoadStartsIsRight, LoadEndsIsRight,
     AfterLoadIsRight DEF StepIsRight
<1>5. CASE \E m \in Models : BackoffPasses(m) \/ Unloaded(m)
  BY <1>5, EnvironmentIsRight DEF StepIsRight
<1>6. CASE UNCHANGED modelVars
  BY <1>6 DEF modelVars, storeVars, loadVars, engineVars, ModelsInv,
              ModelsTypeOK, EditorsAsk, StoreIsHeld, StoredIsCurrent,
              PollsAreFresh, LoadHasModel, NothingSelected
<1> QED
  BY <1>1, <1>2, <1>3, <1>4, <1>5, <1>6 DEF ModelsNext

\* The inductive invariant of the settings and the models: who has asked for
\* what, who is in the store, and that a poll of the present generation began
\* with the settings in use.
THEOREM ModelsInvAlways == ModelsSpec => []ModelsInv
<1>1. ModelsInit => ModelsInv
  <2> SUFFICES ASSUME ModelsInit
               PROVE  ModelsInv
    OBVIOUS
  <2> USE ModelsAssumption DEF ModelsInit, ModelsConstantsOK
  <2>1. ModelsTypeOK
    <3>1. work \in [Actors -> Work]
      BY DEF Work
    <3>2. left \in [fails: 0 .. FailMax, unloads: 0 .. UnloadMax]
      OBVIOUS
    <3> QED
      BY <3>1, <3>2 DEF ModelsTypeOK
  <2>2. EditorsAsk /\ StoreIsHeld
    BY DEF EditorsAsk, StoreIsHeld, Actors
  <2>3. StoredIsCurrent /\ LoadHasModel
    BY DEF StoredIsCurrent, LoadHasModel
  <2>4. PollsAreFresh
    BY DEF PollsAreFresh
  <2> QED
    BY <2>1, <2>2, <2>3, <2>4 DEF ModelsInv
<1> QED
  BY <1>1, ModelsStepIsRight, PTL DEF ModelsSpec

\* Outside a commit the settings in use are the row a restart would load, no
\* write changes a field its request does not name, and no poll publishes the
\* readiness of a model that was not chosen any more, for any number of
\* overlapping edits, polls and loads.
THEOREM EditsAreAlwaysKept == ModelsSpec => EditsAreKept
<1>1. ModelsInv => StoredIsCurrent
  BY DEF ModelsInv
<1> QED
  BY <1>1, ModelsInvAlways, ModelsStepIsRight, PTL DEF ModelsSpec, EditsAreKept

-----------------------------------------------------------------------------
(* The database. *)

\* A write that waits in the queue or runs.
Queued(w) == \E i \in 1..Len(queue) : queue[i] = w
Pending(w) == thread = w \/ Queued(w)

\* A write is pending once at most, and only before its outcome.
QueueInv ==
  /\ \A i, j \in 1..Len(queue) :
       queue[i] = queue[j] /\ queue[i] \in Writes => i = j
  /\ \A w \in Writes : ~(thread = w /\ Queued(w))
  /\ \A w \in Writes :
       Pending(w) => answer[w] \in {"waiting", "given_up"} /\ result[w] = "none"
  /\ \A w \in Writes : answer[w] = "none" => result[w] = "none"

\* The outcome of a write tells what is on disk.
DiskInv ==
  \A w \in Writes :
    IF result[w] = "ok" THEN PartsOf(w) \subseteq disk.rows
    ELSE PartsOf(w) \cap disk.rows = {}

\* What an open transaction may have changed.
TxInv ==
  /\ thread \in Writes =>
       /\ tx.version = disk.version
       /\ tx.tables = disk.tables
       /\ disk.rows \subseteq tx.rows
       /\ tx.rows \subseteq disk.rows \cup PartsOf(thread)
  /\ thread = Migrating /\ inTx =>
       /\ disk.version < highest
       /\ tx.rows = disk.rows
       /\ \/ /\ tx.version = disk.version
             /\ tx.tables \in {disk.tables, disk.tables \cup {disk.version + 1}}
          \/ /\ tx.version = disk.version + 1
             /\ tx.tables = disk.tables \cup {disk.version + 1}

\* Writes run only on a file this release knows.
PhaseInv ==
  /\ thread = Migrating <=> phase = "opening"
  /\ thread \in Writes => Running
  /\ thread = Idle => ~inTx
  /\ Running => disk.version <= highest

DatabaseInv ==
  TypeOK /\ QueueInv /\ DiskInv /\ TxInv /\ PhaseInv /\ SchemaIsVersion

LEMMA DatabaseStarts == Init => DatabaseInv
<1> SUFFICES ASSUME Init PROVE DatabaseInv
  OBVIOUS
<1> USE JobsAssumption DEF Init
<1>1. TypeOK
  <2>1. disk \in Files /\ tx \in Files
    BY DEF Files
  <2>2. queue \in Seq(Writes \cup {Closing})
    OBVIOUS
  <2> QED
    BY <2>1, <2>2 DEF TypeOK
<1>2. QueueInv /\ DiskInv
  BY DEF QueueInv, DiskInv, Pending, Queued
<1>3. TxInv /\ PhaseInv
  BY DEF TxInv, PhaseInv, Running
<1>4. SchemaIsVersion
  BY DEF SchemaIsVersion
<1> QED
  BY <1>1, <1>2, <1>3, <1>4 DEF DatabaseInv

\* The queue after its first job is taken.
LEMMA TailQueue ==
  ASSUME NEW S, NEW q \in Seq(S), q # <<>>
  PROVE  /\ Tail(q) \in Seq(S)
         /\ Head(q) \in S
         /\ Head(q) = q[1]
         /\ 1 \in 1..Len(q)
         /\ Len(Tail(q)) = Len(q) - 1
         /\ \A i \in 1..Len(Tail(q)) : i + 1 \in 1..Len(q) /\ Tail(q)[i] = q[i + 1]
OBVIOUS

LEMMA AppendQueue ==
  ASSUME NEW S, NEW q \in Seq(S), NEW job \in S
  PROVE  /\ Append(q, job) \in Seq(S)
         /\ Len(Append(q, job)) = Len(q) + 1
         /\ \A i \in 1..Len(Append(q, job)) :
              Append(q, job)[i] = IF i = Len(q) + 1 THEN job ELSE q[i]
OBVIOUS


\* A step that touches no job keeps what is known of the queue, the outcomes
\* and the rows.
LEMMA NoJobTouched ==
  ASSUME QueueInv, DiskInv, UNCHANGED <<queue, result, answer>>,
         disk.rows' = disk.rows, thread \notin Writes, thread' \notin Writes
  PROVE  QueueInv' /\ DiskInv'
BY DEF QueueInv, DiskInv, Pending, Queued, PartsOf

LEMMA OpenKeepsDatabase ==
  ASSUME DatabaseInv, NEW newest \in Shipped, Open(newest)
  PROVE  DatabaseInv'
<1> USE DEF DatabaseInv, Open
<1>1. thread \notin Writes /\ thread' \notin Writes
  BY JobsAssumption DEF PhaseInv, Running
<1>2. TypeOK'
  BY ShippedAssumption DEF TypeOK
<1>3. QueueInv' /\ DiskInv'
  BY <1>1, NoJobTouched
<1>4. ~inTx
  BY <1>1, JobsAssumption DEF PhaseInv, TypeOK
<1>5. TxInv' /\ PhaseInv' /\ SchemaIsVersion'
  BY <1>1, <1>4, JobsAssumption DEF TxInv, PhaseInv, SchemaIsVersion, Running
<1> QED
  BY <1>2, <1>3, <1>5

LEMMA MigratesKeepDatabase ==
  ASSUME DatabaseInv, Migrates
  PROVE  DatabaseInv'
<1> USE DEF DatabaseInv
<1>1. thread = Migrating /\ UNCHANGED <<queue, result, answer>>
  BY DEF Migrates, OpenFails, BeginMigration, ApplyMigration, StampVersion,
         CommitMigration, Opened
<1>2. thread \notin Writes /\ thread' \notin Writes /\ disk.rows' = disk.rows
  BY <1>1, JobsAssumption
     DEF Migrates, OpenFails, BeginMigration, ApplyMigration, StampVersion,
         CommitMigration, Opened, RolledBack, TxInv
<1>3. QueueInv' /\ DiskInv'
  BY <1>1, <1>2, NoJobTouched
<1>4. CASE OpenFails
  BY <1>2, <1>3, <1>4, JobsAssumption
     DEF OpenFails, RolledBack, TypeOK, TxInv, PhaseInv, Running,
         SchemaIsVersion
<1>5. CASE BeginMigration
  BY <1>2, <1>3, <1>5, JobsAssumption
     DEF BeginMigration, TypeOK, Files, TxInv, PhaseInv, Running,
         SchemaIsVersion
<1>6. CASE ApplyMigration
  BY <1>2, <1>3, <1>6, JobsAssumption
     DEF ApplyMigration, TypeOK, Files, TxInv, PhaseInv, Running,
         SchemaIsVersion
<1>7. CASE StampVersion
  BY <1>2, <1>3, <1>7, JobsAssumption
     DEF StampVersion, TypeOK, Files, TxInv, PhaseInv, Running,
         SchemaIsVersion
<1>8. CASE CommitMigration
  <2>1. TypeOK' /\ PhaseInv'
    BY <1>1, <1>8, JobsAssumption DEF CommitMigration, TypeOK, PhaseInv, Running
  <2>2. TxInv'
    BY <1>1, <1>8, JobsAssumption DEF CommitMigration, TxInv
  <2>3. tx.version = disk.version + 1 /\ tx.tables = disk.tables \cup {disk.version + 1}
    BY <1>1, <1>8 DEF CommitMigration, TxInv, TypeOK, Files
  <2>4. SchemaIsVersion'
    BY <1>8, <2>3 DEF CommitMigration, SchemaIsVersion, TypeOK, Files
  <2> QED
    BY <1>3, <2>1, <2>2, <2>4
<1>9. CASE Opened
  BY <1>2, <1>3, <1>9, JobsAssumption
     DEF Opened, NewerSchema, TypeOK, Files, TxInv, PhaseInv, Running,
         SchemaIsVersion
<1> QED
  BY <1>4, <1>5, <1>6, <1>7, <1>8, <1>9 DEF Migrates

LEMMA WriteKeepsDatabase ==
  ASSUME DatabaseInv, NEW w \in Writes, Write(w)
  PROVE  DatabaseInv'
<1> USE JobsAssumption DEF DatabaseInv
<1>1. UNCHANGED <<disk, phase, highest, thread, inTx, tx, result>>
  BY DEF Write
<1>2. TxInv' /\ PhaseInv' /\ SchemaIsVersion' /\ DiskInv'
  BY <1>1 DEF TxInv, PhaseInv, Running, SchemaIsVersion, DiskInv, PartsOf
<1>3. CASE phase = "open"
  <2>1. /\ answer' = [answer EXCEPT ![w] = "waiting"]
        /\ queue' = Append(queue, w)
        /\ answer[w] = "none"
    BY <1>3 DEF Write
  <2>2. queue \in Seq(Writes \cup {Closing})
    BY DEF TypeOK
  <2>3. /\ queue' \in Seq(Writes \cup {Closing})
        /\ Len(queue') = Len(queue) + 1
        /\ \A i \in 1..Len(queue') :
             queue'[i] = IF i = Len(queue) + 1 THEN w ELSE queue[i]
        /\ Len(queue) \in Nat
    BY <2>1, <2>2, AppendQueue
  <2>4. TypeOK'
    BY <1>1, <2>1, <2>3 DEF TypeOK
  <2>5. \A i \in 1..Len(queue) : queue[i] # w
    BY <2>1 DEF QueueInv, Pending, Queued
  <2>6. \A v \in Writes : Queued(v)' <=> v = w \/ Queued(v)
    BY <2>3 DEF Queued
  <2>7. QueueInv'
    <3>1. \A i, j \in 1..Len(queue') :
             queue'[i] = queue'[j] /\ queue'[i] \in Writes => i = j
      BY <2>3, <2>5 DEF QueueInv
    <3>2. thread # w
      BY <2>1 DEF QueueInv, Pending
    <3>3. result[w] = "none" /\ answer'[w] = "waiting"
      BY <2>1 DEF QueueInv, TypeOK
    <3>4. \A v \in Writes : v # w => answer'[v] = answer[v]
      BY <2>1 DEF TypeOK
    <3> QED
      BY <1>1, <2>6, <3>1, <3>2, <3>3, <3>4 DEF QueueInv, Pending
  <2> QED
    BY <1>2, <2>4, <2>7
<1>4. CASE phase # "open"
  <2>1. /\ answer' = [answer EXCEPT ![w] = "failed"]
        /\ queue' = queue
        /\ answer[w] = "none"
    BY <1>4 DEF Write
  <2>2. TypeOK' /\ QueueInv'
    BY <1>1, <2>1 DEF TypeOK, QueueInv, Pending, Queued
  <2> QED
    BY <1>2, <2>2
<1> QED
  BY <1>3, <1>4

\* The thread takes the first job, or drops it: what it is no longer waits.
LEMMA TakeJobKeepsQueue ==
  ASSUME TypeOK, QueueInv, queue # <<>>, queue' = Tail(queue)
  PROVE  /\ queue' \in Seq(Writes \cup {Closing})
         /\ \A i, j \in 1..Len(queue') :
             queue'[i] = queue'[j] /\ queue'[i] \in Writes => i = j
         /\ \A v \in Writes : Queued(v)' => Queued(v) /\ v # Head(queue)
         /\ \A v \in Writes : v = Head(queue) => Queued(v)
<1>1. /\ Tail(queue) \in Seq(Writes \cup {Closing})
      /\ Head(queue) = queue[1]
      /\ 1 \in 1..Len(queue)
      /\ Len(Tail(queue)) = Len(queue) - 1
      /\ \A i \in 1..Len(Tail(queue)) :
           i + 1 \in 1..Len(queue) /\ Tail(queue)[i] = queue[i + 1]
  BY TailQueue DEF TypeOK
<1>2. \A i, j \in 1..Len(queue) :
        queue[i] = queue[j] /\ queue[i] \in Writes => i = j
  BY DEF QueueInv
<1>3. \A i, j \in 1..Len(queue') :
             queue'[i] = queue'[j] /\ queue'[i] \in Writes => i = j
  BY <1>1, <1>2
<1>4. ASSUME NEW v \in Writes, Queued(v)' PROVE Queued(v) /\ v # Head(queue)
  <2>1. PICK i \in 1..Len(queue') : queue'[i] = v
    BY <1>4 DEF Queued
  <2>2. i + 1 \in 1..Len(queue) /\ queue[i + 1] = v /\ i + 1 # 1
    BY <1>1, <2>1
  <2> QED
    BY <1>1, <1>2, <2>2 DEF Queued
<1>5. \A v \in Writes : v = Head(queue) => Queued(v)
  BY <1>1 DEF Queued
<1> QED
  BY <1>1, <1>3, <1>4, <1>5

LEMMA TakeKeepsDatabase ==
  ASSUME DatabaseInv, NEW w \in Writes, Take(w)
  PROVE  DatabaseInv'
<1> USE JobsAssumption DEF DatabaseInv
<1>1. /\ UNCHANGED <<disk, phase, highest, result, answer>>
      /\ thread = Idle /\ queue # <<>> /\ Head(queue) = w
      /\ queue' = Tail(queue)
      /\ thread' \in {Idle, w}
      /\ Running
  BY DEF Take
<1>2. /\ queue' \in Seq(Writes \cup {Closing})
      /\ \A i, j \in 1..Len(queue') :
             queue'[i] = queue'[j] /\ queue'[i] \in Writes => i = j
      /\ \A v \in Writes : Queued(v)' => Queued(v) /\ v # w
      /\ Queued(w)
  BY <1>1, TakeJobKeepsQueue
<1>3. TypeOK'
  BY <1>1, <1>2 DEF Take, TypeOK
<1>4. QueueInv'
  BY <1>1, <1>2 DEF QueueInv, Pending
<1>5. DiskInv' /\ SchemaIsVersion'
  BY <1>1 DEF DiskInv, SchemaIsVersion, PartsOf
<1>6. TxInv' /\ PhaseInv'
  BY <1>1 DEF Take, TxInv, PhaseInv, Running, TypeOK
<1> QED
  BY <1>3, <1>4, <1>5, <1>6

LEMMA ExecuteKeepsDatabase ==
  ASSUME DatabaseInv, NEW w \in Writes, NEW part \in Parts, Execute(w, part)
  PROVE  DatabaseInv'
<1> USE JobsAssumption DEF DatabaseInv
<1>1. /\ UNCHANGED <<disk, phase, highest, thread, queue, inTx, result, answer>>
      /\ thread = w
      /\ tx' = [tx EXCEPT !.rows = @ \cup {<<w, part>>}]
  BY DEF Execute, Stored
<1>2. TypeOK'
  BY <1>1 DEF TypeOK, Files
<1>3. QueueInv' /\ DiskInv' /\ SchemaIsVersion' /\ PhaseInv'
  BY <1>1 DEF QueueInv, Pending, Queued, DiskInv, PartsOf, SchemaIsVersion,
              PhaseInv, Running
<1>4. TxInv'
  BY <1>1 DEF TxInv, TypeOK, Files, PartsOf
<1> QED
  BY <1>2, <1>3, <1>4

LEMMA CommitKeepsDatabase ==
  ASSUME DatabaseInv, NEW w \in Writes, Commit(w)
  PROVE  DatabaseInv' /\ disk'.rows = disk.rows \cup PartsOf(w)
               /\ disk'.tables = disk.tables
<1> USE JobsAssumption DEF DatabaseInv
<1>1. /\ UNCHANGED <<phase, highest, queue, tx, answer>>
      /\ thread = w /\ thread' = Idle
      /\ disk' = tx
      /\ inTx' = FALSE
      /\ PartsOf(w) \subseteq tx.rows
      /\ result' = [result EXCEPT ![w] = "ok"]
  BY DEF Commit
<1>2. /\ disk'.version = disk.version
      /\ disk'.tables = disk.tables
      /\ disk'.rows = disk.rows \cup PartsOf(w)
  BY <1>1 DEF TxInv
<1>3. TypeOK'
  BY <1>1 DEF TypeOK
<1>4. SchemaIsVersion' /\ PhaseInv' /\ TxInv'
  BY <1>1, <1>2 DEF SchemaIsVersion, PhaseInv, Running, TxInv
<1>5. \A v \in Writes : result'[v] = IF v = w THEN "ok" ELSE result[v]
  BY <1>1 DEF TypeOK
<1>6. QueueInv'
  BY <1>1, <1>5 DEF QueueInv, Pending, Queued
<1>7. DiskInv'
  BY <1>2, <1>5 DEF DiskInv, PartsOf
<1> QED
  BY <1>2, <1>3, <1>4, <1>6, <1>7

LEMMA WriteFailsKeepsDatabase ==
  ASSUME DatabaseInv, NEW w \in Writes, WriteFails(w)
  PROVE  DatabaseInv'
<1> USE JobsAssumption DEF DatabaseInv
<1>1. /\ UNCHANGED <<phase, highest, queue, tx, answer, disk>>
      /\ thread = w /\ thread' = Idle
      /\ inTx' = FALSE
      /\ result' = [result EXCEPT ![w] = "failed"]
  BY DEF WriteFails, RolledBack
<1>2. TypeOK'
  BY <1>1 DEF TypeOK
<1>3. SchemaIsVersion' /\ PhaseInv' /\ TxInv'
  BY <1>1 DEF SchemaIsVersion, PhaseInv, Running, TxInv
<1>4. \A v \in Writes : result'[v] = IF v = w THEN "failed" ELSE result[v]
  BY <1>1 DEF TypeOK
<1>5. result[w] = "none"
  BY <1>1 DEF QueueInv, Pending
<1>6. QueueInv' /\ DiskInv'
  BY <1>1, <1>4, <1>5 DEF QueueInv, Pending, Queued, DiskInv, PartsOf
<1> QED
  BY <1>2, <1>3, <1>6

\* A caller is told, or gives up: only its answer changes.
LEMMA AnswersKeepDatabase ==
  ASSUME DatabaseInv, NEW w \in Writes, Answer(w) \/ GiveUp(w)
  PROVE  DatabaseInv'
<1> USE JobsAssumption DEF DatabaseInv
<1>1. /\ UNCHANGED <<disk, phase, highest, thread, queue, inTx, tx, result>>
      /\ answer[w] = "waiting"
      /\ \/ result[w] # "none" /\ answer' = [answer EXCEPT ![w] = result[w]]
         \/ answer' = [answer EXCEPT ![w] = "given_up"]
  BY DEF Answer, GiveUp
<1>2. TypeOK'
  BY <1>1 DEF TypeOK
<1>3. DiskInv' /\ SchemaIsVersion' /\ PhaseInv' /\ TxInv'
  BY <1>1 DEF DiskInv, PartsOf, SchemaIsVersion, PhaseInv, Running, TxInv
<1>4. \A v \in Writes : v # w => answer'[v] = answer[v]
  BY <1>1 DEF TypeOK
<1>5. Pending(w) => answer'[w] = "given_up"
  BY <1>1 DEF QueueInv, TypeOK
<1>6. answer'[w] # "none"
  BY <1>1 DEF TypeOK
<1>7. QueueInv'
  BY <1>1, <1>4, <1>5, <1>6 DEF QueueInv, Pending, Queued
<1> QED
  BY <1>2, <1>3, <1>7

LEMMA ClosingKeepsDatabase ==
  ASSUME DatabaseInv, Close \/ CloseConnection
  PROVE  DatabaseInv'
<1> USE JobsAssumption DEF DatabaseInv
<1>1. /\ UNCHANGED <<disk, highest, thread, inTx, tx, result, answer>>
      /\ phase' \in {"closing", "over"}
      /\ Running
      /\ phase' = "over" => thread = Idle
  BY DEF Close, CloseConnection, Running
<1>2. DiskInv' /\ SchemaIsVersion' /\ TxInv' /\ PhaseInv'
  BY <1>1 DEF DiskInv, PartsOf, SchemaIsVersion, TxInv, PhaseInv, Running
<1>3. CASE Close
  <2>1. phase = "open" /\ queue' = Append(queue, Closing)
    BY <1>3 DEF Close
  <2>2. queue \in Seq(Writes \cup {Closing})
    BY DEF TypeOK
  <2>3. /\ queue' \in Seq(Writes \cup {Closing})
        /\ Len(queue') = Len(queue) + 1
        /\ \A i \in 1..Len(queue') :
             queue'[i] = IF i = Len(queue) + 1 THEN Closing ELSE queue[i]
        /\ Len(queue) \in Nat
    BY <2>1, <2>2, AppendQueue
  <2>4. \A v \in Writes : Queued(v)' <=> Queued(v)
    BY <2>3 DEF Queued
  <2>5. TypeOK'
    BY <1>1, <2>3 DEF TypeOK
  <2>6. QueueInv'
    BY <1>1, <2>3, <2>4 DEF QueueInv, Pending
  <2> QED
    BY <1>2, <2>5, <2>6
<1>4. CASE CloseConnection
  <2>1. /\ queue # <<>> /\ queue' = Tail(queue)
        /\ Head(queue) = Closing
    BY <1>4 DEF CloseConnection
  <2>2. /\ queue' \in Seq(Writes \cup {Closing})
        /\ \A i, j \in 1..Len(queue') :
             queue'[i] = queue'[j] /\ queue'[i] \in Writes => i = j
        /\ \A v \in Writes : Queued(v)' => Queued(v)
    BY <2>1, TakeJobKeepsQueue
  <2>3. TypeOK' /\ QueueInv'
    BY <1>1, <2>2 DEF TypeOK, QueueInv, Pending
  <2> QED
    BY <1>2, <2>3
<1> QED
  BY <1>3, <1>4

LEMMA CrashKeepsDatabase ==
  ASSUME DatabaseInv, Crash
  PROVE  DatabaseInv'
<1> USE JobsAssumption DEF DatabaseInv
<1>1. /\ UNCHANGED <<disk, highest, tx, result>>
      /\ thread' = Idle /\ queue' = <<>> /\ inTx' = FALSE /\ phase' = "over"
      /\ answer' = [w \in Writes |->
                      IF answer[w] = "waiting" THEN "given_up" ELSE answer[w]]
  BY DEF Crash
<1>2. TypeOK'
  <2>1. queue' \in Seq(Writes \cup {Closing})
    BY <1>1
  <2> QED
    BY <1>1, <2>1 DEF TypeOK
<1>3. DiskInv' /\ SchemaIsVersion' /\ TxInv' /\ PhaseInv'
  BY <1>1 DEF DiskInv, PartsOf, SchemaIsVersion, TxInv, PhaseInv, Running
<1>4. QueueInv'
  BY <1>1 DEF QueueInv, Pending, Queued, TypeOK
<1> QED
  BY <1>2, <1>3, <1>4

LEMMA StutterKeepsDatabase ==
  ASSUME DatabaseInv, UNCHANGED dbVars PROVE DatabaseInv'
<1> USE DEF dbVars, DatabaseInv
<1>1. TypeOK' /\ SchemaIsVersion'
  BY DEF TypeOK, SchemaIsVersion
<1>2. QueueInv'
  BY DEF QueueInv, Pending, Queued
<1>3. DiskInv' /\ TxInv' /\ PhaseInv'
  BY DEF DiskInv, TxInv, PhaseInv, PartsOf, Running
<1> QED
  BY <1>1, <1>2, <1>3

LEMMA DatabaseSteps == DatabaseInv /\ [Next]_dbVars => DatabaseInv'
<1> SUFFICES ASSUME DatabaseInv, [Next]_dbVars PROVE DatabaseInv'
  OBVIOUS
<1>1. ASSUME NEW newest \in Shipped, Open(newest) PROVE DatabaseInv'
  BY <1>1, OpenKeepsDatabase
<1>2. CASE Migrates
  BY <1>2, MigratesKeepDatabase
<1>3. ASSUME NEW w \in Writes, Write(w) \/ Works(w) \/ Answer(w) \/ GiveUp(w)
      PROVE  DatabaseInv'
  BY <1>3, WriteKeepsDatabase, TakeKeepsDatabase, ExecuteKeepsDatabase,
       CommitKeepsDatabase,
     WriteFailsKeepsDatabase, AnswersKeepDatabase DEF Works
<1>4. CASE Close \/ CloseConnection
  BY <1>4, ClosingKeepsDatabase
<1>5. CASE Crash
  BY <1>5, CrashKeepsDatabase
<1>6. CASE UNCHANGED dbVars
  BY <1>6, StutterKeepsDatabase
<1> QED
  BY <1>1, <1>2, <1>3, <1>4, <1>5, <1>6 DEF Next

\* The schema, the rows on disk and what the queue still holds agree in every
\* state (storage/db.py, storage/migrations/__init__.py).
THEOREM DatabaseInvariant == Spec => []DatabaseInv
BY DatabaseStarts, DatabaseSteps, PTL DEF Spec

\* user_version names exactly the migrations whose tables exist, whatever
\* fails or crashes, for any writes and releases.
THEOREM SchemaIsAlwaysVersion == Spec => []SchemaIsVersion
<1>1. DatabaseInv => SchemaIsVersion
  BY DEF DatabaseInv
<1> QED
  BY <1>1, DatabaseInvariant, PTL

\* A release never writes into the file of a newer one.
THEOREM NewerAlwaysUntouched == Spec => NewerIsUntouched
<1>1. DatabaseInv /\ [Next]_dbVars => [disk.version > highest => disk' = disk]_dbVars
  <2> SUFFICES ASSUME DatabaseInv, Next, disk.version > highest PROVE disk' = disk
    BY DEF dbVars
  <2> USE DEF DatabaseInv
  <2>1. ~Running /\ thread \notin Writes
    BY DEF PhaseInv, TypeOK, Files
  <2>2. ~(thread = Migrating /\ inTx)
    BY DEF TxInv, TypeOK, Files
  <2>3. CASE Migrates
    BY <2>2, <2>3 DEF Migrates, OpenFails, BeginMigration, ApplyMigration,
           StampVersion, CommitMigration, Opened
  <2>4. ASSUME NEW w \in Writes, Write(w) \/ Works(w) \/ Answer(w) \/ GiveUp(w)
        PROVE  disk' = disk
    BY <2>1, <2>4 DEF Write, Works, Take, Execute, Commit, WriteFails, Answer,
           GiveUp
  <2> QED
    BY <2>3, <2>4 DEF Next, Open, Close, CloseConnection, Crash
<1> QED
  BY <1>1, DatabaseInvariant, PTL DEF Spec, NewerIsUntouched

\* Both at once: whatever releases take turns on the file, its version tells its
\* tables and the older ones leave it alone.
THEOREM SchemaIsAlwaysKept == Spec => SchemaIsKept
BY SchemaIsAlwaysVersion, NewerAlwaysUntouched DEF SchemaIsKept

(***************************************************************************)
(* The refinement.                                                         *)
(***************************************************************************)

LEMMA InitImplements == Init => Store!Init
BY DEF Init, Store!Init

LEMMA StepImplements ==
  DatabaseInv /\ DatabaseInv' /\ [Next]_dbVars => [Store!Next]_(Store!storeVars)
<1> SUFFICES ASSUME DatabaseInv, DatabaseInv', [Next]_dbVars
             PROVE  Store!Next \/ UNCHANGED <<disk.tables, disk.rows, answer>>
  BY DEF Store!storeVars
<1> USE DEF DatabaseInv
<1>1. ASSUME NEW newest \in Shipped, Open(newest)
      PROVE  UNCHANGED <<disk.tables, disk.rows, answer>>
  BY <1>1 DEF Open
<1>2. CASE Migrates
  <2>1. CASE CommitMigration
    <3>1. /\ disk' = tx
          /\ tx.version = disk.version + 1
          /\ tx.rows = disk.rows
          /\ UNCHANGED answer
      BY <2>1 DEF CommitMigration, TxInv
    <3>2. /\ disk.tables = 1..disk.version
          /\ disk.tables' = 1..(disk.version + 1)
          /\ disk.version \in Nat
      BY <3>1 DEF SchemaIsVersion, TypeOK, Files
    <3>3. Store!Migrate
      <4>1. disk.version + 1 \in disk.tables'
        BY <3>2
      <4>2. disk.tables = 1..((disk.version + 1) - 1)
        BY <3>2
      <4> QED
        BY <3>1, <3>2, <4>1, <4>2 DEF Store!Migrate
    <3> QED
      BY <3>3 DEF Store!Next
  <2>2. CASE ~CommitMigration
    BY <1>2, <2>2 DEF Migrates, OpenFails, RolledBack, BeginMigration,
           ApplyMigration, StampVersion, Opened
  <2> QED
    BY <2>1, <2>2
<1>3. ASSUME NEW w \in Writes, Write(w)
      PROVE  Store!Next
  <2>1. result[w] = "none" /\ answer[w] = "none" /\ UNCHANGED disk
    BY <1>3 DEF Write, QueueInv
  <2>2. Store!PartsOf(w) \cap disk.rows = {}
    BY <2>1 DEF DiskInv, PartsOf, Store!PartsOf
  <2>3. Store!Submit(w) \/ Store!Refuse(w)
    BY <1>3, <2>1, <2>2 DEF Write, Store!Submit, Store!Refuse
  <2> QED
    BY <2>3 DEF Store!Next
<1>4. ASSUME NEW w \in Writes, Commit(w)
      PROVE  Store!Next
  <2>1. /\ disk'.rows = disk.rows \cup Store!PartsOf(w)
        /\ disk'.tables = disk.tables
    BY <1>4, CommitKeepsDatabase DEF PartsOf, Store!PartsOf
  <2>2. answer[w] \in {"waiting", "given_up"} /\ UNCHANGED answer
    BY <1>4 DEF Commit, QueueInv, Pending
  <2>3. Store!Store(w)
    BY <2>1, <2>2 DEF Store!Store
  <2> QED
    BY <2>3 DEF Store!Next
<1>5. ASSUME NEW w \in Writes, Answer(w)
      PROVE  Store!Next
  <2>1. /\ UNCHANGED disk
        /\ answer[w] = "waiting"
        /\ result[w] \in {"ok", "failed"}
        /\ answer' = [answer EXCEPT ![w] = result[w]]
    BY <1>5 DEF Answer, TypeOK
  <2>2. IF result[w] = "ok" THEN Store!PartsOf(w) \subseteq disk.rows
        ELSE Store!PartsOf(w) \cap disk.rows = {}
    BY DEF DiskInv, PartsOf, Store!PartsOf
  <2>3. Store!Confirm(w) \/ Store!Refuse(w)
    BY <2>1, <2>2 DEF Store!Confirm, Store!Refuse
  <2> QED
    BY <2>3 DEF Store!Next
<1>6. ASSUME NEW w \in Writes, GiveUp(w)
      PROVE  Store!Next
  <2>1. Store!GiveUp({w})
    BY <1>6 DEF GiveUp, Store!GiveUp, TypeOK
  <2> QED
    BY <2>1 DEF Store!Next
<1>7. ASSUME NEW w \in Writes, Take(w) \/ WriteFails(w)
                               \/ \E part \in Parts : Execute(w, part)
      PROVE  UNCHANGED <<disk.tables, disk.rows, answer>>
  BY <1>7 DEF Take, WriteFails, RolledBack, Execute
<1>8. CASE Close \/ CloseConnection
  BY <1>8 DEF Close, CloseConnection
<1>9. CASE Crash
  <2>1. Store!GiveUp(Writes)
    BY <1>9 DEF Crash, Store!GiveUp
  <2> QED
    BY <2>1 DEF Store!Next
<1>10. CASE UNCHANGED dbVars
  BY <1>10 DEF dbVars
<1> QED
  BY <1>1, <1>2, <1>3, <1>4, <1>5, <1>6, <1>7, <1>8, <1>9, <1>10
     DEF Next, Works

\* The database keeps the promises of TransactionStore: each step of it is a
\* step of the abstract store or changes nothing of it.
THEOREM DatabaseImplementsStore == Spec => Implements
BY InitImplements, StepImplements, DatabaseInvariant, PTL
   DEF Spec, Implements, Store!Spec

-----------------------------------------------------------------------------
(* The row of settings. *)

\* A row of this program's own is one that its next launch can read, as it is.
Readable(d) == Valid(d) /\ Formatted(d) = d

SettingsInv == own => row.is = "data" /\ Readable(row.data)

\* Readable data parses, without an upgrade.
LEMMA ReadableParses ==
  ASSUME SettingsConstantsOK, NEW d, Readable(d)
  PROVE  Parses(d) /\ Parsed(d) = d
<1> USE DEF SettingsConstantsOK, Readable
<1>1. /\ "schema_version" \in DOMAIN d
      /\ d.schema_version = 4
  BY DEF Valid, SchemaVersion
<1>2. Upgraded(d) = d
  BY <1>1 DEF Upgraded
<1>3. Completed(d) = d
  <2>1. DOMAIN d = Fields /\ DOMAIN Default = Fields
    BY DEF Valid
  <2>2. d = [f \in Fields |-> d[f]]
    BY DEF Formatted
  <2>3. Over(d, Default) = [f \in Fields |-> d[f]]
    BY <2>1 DEF Over
  <2>4. QED
    BY <1>2, <2>2, <2>3 DEF Completed
<1>4. QED
  BY <1>1, <1>3 DEF Parses, Parsed, SchemaVersion

\* Whatever parses is readable once it is formatted.
LEMMA ParsedReadable ==
  ASSUME SettingsConstantsOK, NEW d, Parses(d)
  PROVE  Readable(Parsed(d))
<1> DEFINE s == Completed(d)
<1>1. Valid(s)
  BY DEF Parses
<1> HIDE DEF s
<1>2. Valid(Formatted(s))
  BY <1>1 DEF Valid, Formatted, SettingsConstantsOK, Shortcuts
<1>3. Formatted(Formatted(s)) = Formatted(s)
  BY <1>1 DEF Valid, Formatted, SettingsConstantsOK, Shortcuts
<1>4. QED
  BY <1>2, <1>3 DEF Readable, Parsed, s

LEMMA SettingsStart == ASSUME SettingsInit PROVE SettingsInv
  BY DEF SettingsInit, SettingsInv

LEMMA SettingsStep ==
  ASSUME SettingsConstantsOK, SettingsInv, [SettingsNext]_settingsVars
  PROVE  SettingsInv'
<1>1. Readable(Default)
  BY DEF Readable, SettingsConstantsOK
<1>2. CASE Load
  <2>1. CASE row' = StoredAs(Default)
    BY <1>1, <2>1 DEF SettingsInv, StoredAs
  <2>2. CASE /\ row.is = "data" /\ Parses(row.data)
             /\ row' = StoredAs(Parsed(row.data))
    BY <2>2, ParsedReadable DEF SettingsInv, StoredAs
  <2>3. CASE UNCHANGED <<row, own>>
    BY <2>3 DEF SettingsInv
  <2>4. QED
    BY <1>2, <2>1, <2>2, <2>3 DEF Load
<1>3. ASSUME NEW patch \in Patches, Update(patch) PROVE SettingsInv'
  BY <1>3, ParsedReadable DEF Update, Accepted, SettingsInv, StoredAs
<1>4. CASE Returns \/ CallerGone \/ UNCHANGED settingsVars
  BY <1>4 DEF Returns, CallerGone, settingsVars, SettingsInv
<1>5. CASE Relaunch
  BY <1>5 DEF Relaunch, SettingsInv
<1>6. QED
  BY <1>2, <1>3, <1>4, <1>5 DEF SettingsNext

\* Only load recovers a row, and only one that does not parse.
LEMMA StepRecovers ==
  ASSUME SettingsConstantsOK, SettingsInv, [SettingsNext]_settingsVars
  PROVE  OnlyOthersRecovered
<1> SUFFICES ASSUME backups' # backups PROVE ~own
  BY DEF OnlyOthersRecovered
<1>1. Load
  BY DEF SettingsNext, Update, Returns, CallerGone, Relaunch, settingsVars
<1>2. row.is = "data" => ~Parses(row.data)
  BY <1>1 DEF Load
<1>3. QED
  BY <1>2, ReadableParses DEF SettingsInv

\* Settings the program stored are never recovered as damaged, whatever the
\* schema and whoever wrote to the row in between (SettingsStore.load, update).
THEOREM RecoversOnlyOthersAlways == SettingsSpec => RecoversOnlyOthers
<1> USE SettingsAssumption
<1>1. SettingsInit => SettingsInv
  BY SettingsStart
<1>2. SettingsInv /\ [SettingsNext]_settingsVars => SettingsInv'
  BY SettingsStep
<1>3. SettingsInv /\ [SettingsNext]_settingsVars
      => [OnlyOthersRecovered]_settingsVars
  BY StepRecovers
<1>4. QED
  BY <1>1, <1>2, <1>3, PTL DEF SettingsSpec, RecoversOnlyOthers

-----------------------------------------------------------------------------
\* A field of this schema comes through an upgrade, but for a replaced model.
Through(f, old, new) ==
  \/ new = old
  \/ f = "stt_model_id" /\ old = Replaced.old /\ new = Replaced.new

LEMMA UpgradeKeeps ==
  ASSUME SettingsConstantsOK, NEW d, "schema_version" \in DOMAIN d,
         NEW f \in DOMAIN d \cap Fields, f # "schema_version"
  PROVE  /\ f \in DOMAIN Upgraded(d)
         /\ Through(f, d[f], Upgraded(d)[f])
<1> DEFINE second == IF d.schema_version = 1 THEN Upgrade1(d) ELSE d
           third == IF second.schema_version = 2 THEN Upgrade2(second)
                    ELSE second
<1>1. f # "local_only"
  BY DEF SettingsConstantsOK
<1>2. f \in DOMAIN second /\ Through(f, d[f], second[f])
  <2>1. CASE d.schema_version = 1
    <3> DEFINE model == IF "stt_model_id" \in DOMAIN d
                           /\ d.stt_model_id = Replaced.old
                        THEN [stt_model_id |-> Replaced.new] ELSE <<>>
               below == Over(model, d)
    <3>1. f \in DOMAIN below /\ Through(f, d[f], below[f])
      BY DEF Over, Through
    <3> HIDE DEF model
    <3>2. second = Over([schema_version |-> 2, local_only |-> FALSE], below)
      BY <2>1 DEF Upgrade1, model
    <3> HIDE DEF below, second
    <3>3. f \in DOMAIN second /\ second[f] = below[f]
      BY <1>1, <3>1, <3>2 DEF Over
    <3>4. QED
      BY <3>1, <3>3
  <2>2. CASE d.schema_version # 1
    BY <2>2 DEF Through
  <2>3. QED
    BY <2>1, <2>2
<1> HIDE DEF second
<1>3. f \in DOMAIN third /\ third[f] = second[f]
  BY <1>1, <1>2 DEF Upgrade2, Over, Without
<1> HIDE DEF third
<1>4. Upgraded(d) = IF third.schema_version = 3 THEN Upgrade3(third) ELSE third
  BY DEF Upgraded, second, third
<1>5. f \in DOMAIN Upgraded(d) /\ Upgraded(d)[f] = third[f]
  BY <1>3, <1>4 DEF Upgrade3, Over
<1>6. QED
  BY <1>2, <1>3, <1>5

\* Every choice in data that parses lives on in what is made of it.
LEMMA ParsedKeeps ==
  ASSUME SettingsConstantsOK, NEW d, Parses(d), NEW f \in DOMAIN d \cap Fields
  PROVE  Preserved(f, d[f], Parsed(d)[f])
<1> SUFFICES ASSUME f # "schema_version" PROVE Preserved(f, d[f], Parsed(d)[f])
  BY DEF Preserved
<1> DEFINE s == Completed(d)
<1>1. /\ f \in DOMAIN Upgraded(d)
      /\ Through(f, d[f], Upgraded(d)[f])
  BY UpgradeKeeps DEF Parses
<1>2. Through(f, d[f], s[f])
  BY <1>1 DEF Completed, Over
<1>3. Valid(s) /\ Parsed(d) = Formatted(s)
  BY DEF Parses, Parsed
<1> HIDE DEF s
<1>4. CASE f \in Shortcuts
  BY <1>2, <1>3, <1>4 DEF Formatted, Valid, Through, Preserved, Shortcuts
<1>5. CASE f \notin Shortcuts
  BY <1>2, <1>3, <1>5 DEF Formatted, Through, Preserved
<1>6. QED
  BY <1>4, <1>5

Counted ==
  launches \in Nat /\ edits \in Nat /\ \E S : backups \in Seq(S)

LEMMA WiderSeq ==
  ASSUME NEW S, NEW all \in Seq(S), NEW r
  PROVE  all \in Seq(S \cup {r})
<1>1. Len(all) \in Nat /\ all \in [1 .. Len(all) -> S]
  OBVIOUS
<1>2. all \in [1 .. Len(all) -> S \cup {r}]
  BY <1>1
<1>3. QED
  BY <1>1, <1>2

\* What is cut from the backups is never the newest.
LEMMA NewestIsLast ==
  ASSUME SettingsConstantsOK, NEW S, NEW all \in Seq(S), NEW r \in S
  PROVE  /\ Newest(Append(all, r)) \in Seq(S)
         /\ Newest(Append(all, r)) # <<>>
         /\ Newest(Append(all, r))[Len(Newest(Append(all, r)))] = r
<1> DEFINE more == Append(all, r)
<1>1. /\ more \in Seq(S)
      /\ Len(more) = Len(all) + 1 /\ Len(all) \in Nat
      /\ more[Len(more)] = r
  OBVIOUS
<1> HIDE DEF more
<1>2. CASE Len(more) <= MaxBackups
  <2>1. Newest(more) = more
    BY <1>2 DEF Newest
  <2>2. more # <<>>
    BY <1>1
  <2>3. QED
    BY <1>1, <2>1, <2>2 DEF more
<1>3. CASE ~(Len(more) <= MaxBackups)
  <2> DEFINE m == Len(more) - MaxBackups + 1
             cut == SubSeq(more, m, Len(more))
  <2>1. /\ MaxBackups \in Nat \ {0}
        /\ m \in 1 .. Len(more) /\ Len(more) \in Nat
        /\ Len(more) - m + 1 = MaxBackups
        /\ m + MaxBackups - 1 = Len(more)
    BY <1>1, <1>3 DEF SettingsConstantsOK
  <2>2. Newest(more) = cut
    BY <1>3 DEF Newest
  <2> HIDE DEF m
  <2>3. /\ cut \in Seq(S)
        /\ Len(cut) = MaxBackups
        /\ \A i \in 1 .. MaxBackups : cut[i] = more[m + i - 1]
    BY <1>1, <2>1, SubSeqProperties
  <2> HIDE DEF cut
  <2>4. cut[Len(cut)] = r
    BY <1>1, <2>1, <2>3
  <2>5. cut # <<>>
    BY <2>1, <2>3
  <2>6. QED
    BY <2>2, <2>3, <2>4, <2>5 DEF more
<1>4. QED
  BY <1>2, <1>3

LEMMA NextCounted ==
  ASSUME SettingsConstantsOK, Counted, [SettingsNext]_settingsVars
  PROVE  Counted'
<1> PICK S : backups \in Seq(S)
  BY DEF Counted
<1>1. launches' \in Nat /\ edits' \in Nat
  BY DEF Counted, SettingsNext, Load, Update, Returns, CallerGone, Relaunch,
         settingsVars
<1>2. CASE backups' = backups
  BY <1>1, <1>2 DEF Counted
<1>3. CASE backups' = Newest(Append(backups, row))
  <2>1. backups \in Seq(S \cup {row}) /\ row \in S \cup {row}
    BY WiderSeq
  <2>2. backups' \in Seq(S \cup {row})
    BY <1>3, <2>1, NewestIsLast
  <2>3. QED
    BY <1>1, <2>2 DEF Counted
<1>4. QED
  BY <1>2, <1>3 DEF SettingsNext, Load, Update, Returns, CallerGone, Relaunch,
                    settingsVars

LEMMA StepCarriesOver ==
  ASSUME SettingsConstantsOK, Counted, [SettingsNext]_settingsVars
  PROVE  CarriedOverOrBackedUp
<1> SUFFICES ASSUME launches' = launches, row' # row, row # NoRow
             PROVE  \/ backups' # <<>> /\ backups'[Len(backups')] = row
                    \/ CarriesOver(row.data)
                    \/ /\ edits' > edits
                       /\ \E patch \in Patches :
                            CarriesOver(Over(patch, row.data))
  BY DEF CarriedOverOrBackedUp
<1>1. CASE Load
  <2>1. CASE backups' = Newest(Append(backups, row))
    <3> PICK S : backups \in Seq(S)
      BY DEF Counted
    <3>1. backups \in Seq(S \cup {row}) /\ row \in S \cup {row}
      BY WiderSeq
    <3>2. backups' # <<>> /\ backups'[Len(backups')] = row
      BY <2>1, <3>1, NewestIsLast
    <3>3. QED
      BY <3>2
  <2>2. CASE Parses(row.data) /\ row' = StoredAs(Parsed(row.data))
    BY <2>2, ParsedKeeps DEF CarriesOver, StoredAs
  <2>3. QED
    BY <1>1, <2>1, <2>2 DEF Load
<1>2. ASSUME NEW patch \in Patches, Update(patch)
      PROVE  edits' > edits /\ CarriesOver(Over(patch, row.data))
  <2>1. edits' > edits
    BY <1>2 DEF Update, Counted
  <2>2. CarriesOver(Over(patch, row.data))
    BY <1>2, ParsedKeeps DEF Update, Accepted, CarriesOver, StoredAs
  <2>3. QED
    BY <2>1, <2>2
<1>3. CASE Returns \/ CallerGone \/ UNCHANGED settingsVars
  BY <1>3 DEF Returns, CallerGone, settingsVars
<1>4. CASE Relaunch
  BY <1>4 DEF Relaunch, Counted
<1>5. QED
  BY <1>1, <1>2, <1>3, <1>4 DEF SettingsNext

\* Every choice in the row is carried over, edited by the user or backed up
\* with the whole row, for any schema and any rows of others (load, update,
\* _recover).
THEOREM AlwaysCarriesOverOrBacksUp == SettingsSpec => CarriesOverOrBacksUp
<1> USE SettingsAssumption
<1>1. SettingsInit => Counted
  BY DEF SettingsInit, Counted
<1>2. Counted /\ [SettingsNext]_settingsVars => Counted'
  BY NextCounted
<1>3. Counted /\ [SettingsNext]_settingsVars
      => [CarriedOverOrBackedUp]_settingsVars
  BY StepCarriesOver
<1>4. QED
  BY <1>1, <1>2, <1>3, PTL DEF SettingsSpec, CarriesOverOrBacksUp

\* Both at once: no choice is lost without a backup, none reset without a
\* reason.
THEOREM SettingsAlwaysSurvive == SettingsSpec => SettingsSurvive
BY RecoversOnlyOthersAlways, AlwaysCarriesOverOrBacksUp DEF SettingsSurvive

-----------------------------------------------------------------------------
(* A key. *)

\* While set runs the old file is there; the temporary file holds the whole new
\* key before it is flushed, and is on the disk before it is put in place.
Steps ==
  /\ at # "idle" => file = before /\ newKey \in Keys /\ outcome = "none"
  /\ at \in {"flush", "replace"} => temp = newKey
  /\ at = "replace" => "temp" \in flushed
  /\ "file" \in flushed

\* Which key the file holds, in terms of the file itself: OldOrNewKey is not
\* inductive, for get does not tell no file from a torn one.
Whole ==
  /\ file \in {before, newKey}
  /\ file # Torn
  /\ outcome = "raised" => file = before
  /\ outcome \in {"saved", "cleared"} => file = newKey

SecretInv == SecretTypeOK /\ Steps /\ Whole

LEMMA SecretStarts == ASSUME SecretConstantsOK, SecretInit PROVE SecretInv
  BY DEF SecretConstantsOK, SecretInit, SecretInv, SecretTypeOK, Steps, Whole

LEMMA SecretSteps ==
  ASSUME SecretConstantsOK, SecretInv, [SecretNext]_secretVars
  PROVE  SecretInv'
<1> USE DEF SecretConstantsOK, SecretInv, SecretTypeOK, Steps, Whole
<1>1. ASSUME NEW k \in Keys, Set(k) PROVE SecretInv'
  BY <1>1 DEF Set
<1>2. CASE WriteTemp
  BY <1>2 DEF WriteTemp, Raises, Unlinked
<1>3. CASE Flush
  BY <1>3 DEF Flush, FlushedBy, Raises, Unlinked
<1>4. CASE Replace
  BY <1>4 DEF Replace, Raises, Unlinked
<1>5. CASE Clear
  BY <1>5 DEF Clear
<1>6. CASE PowerFails
  BY <1>6 DEF PowerFails
<1>7. CASE UNCHANGED secretVars
  BY <1>7 DEF secretVars
<1>8. QED
  BY <1>1, <1>2, <1>3, <1>4, <1>5, <1>6, <1>7 DEF SecretNext

LEMMA SecretInvImplies == ASSUME SecretConstantsOK, SecretInv PROVE OldOrNewKey
  BY DEF SecretConstantsOK, SecretInv, SecretTypeOK, Steps, Whole, OldOrNewKey, Get

\* set and clear leave the old key or the new one, whole, for any keys and any
\* failures of calls and of the power (DpapiSecretStore).
THEOREM OldOrNewKeyAlways == SecretSpec => []OldOrNewKey
<1> USE SecretAssumption
<1>1. SecretInit => SecretInv
  BY SecretStarts
<1>2. SecretInv /\ [SecretNext]_secretVars => SecretInv'
  BY SecretSteps
<1>3. SecretInv => OldOrNewKey
  BY SecretInvImplies
<1>4. QED
  BY <1>1, <1>2, <1>3, PTL DEF SecretSpec

-----------------------------------------------------------------------------
(* The dictionary. *)

\* Rows are named by the order of their creation, one by one.
RowsNumbered ==
  /\ lastId = clock
  /\ \A r \in table \cup listed : r.id = r.born /\ r.id \in 1 .. lastId
  /\ \A r, s \in table : r.id = s.id => r = s

\* The last export holds whatever was not added since, and no term twice.
ExportSound ==
  pristine =>
    /\ Contents(table) \subseteq {saved[i] : i \in DOMAIN saved}
    /\ \A i, j \in DOMAIN saved :
         i # j => TermsOf(saved[i]) \cap TermsOf(saved[j]) = {}

DictionaryInv ==
  /\ DictionaryTypeOK
  /\ RowsNumbered
  /\ NoAmbiguity
  /\ ExportSound

-----------------------------------------------------------------------------
LEMMA ContentOfRow ==
  ASSUME NEW r \in Rows
  PROVE  /\ [spelling |-> r.spelling, aliases |-> r.aliases] \in AnyEntry
         /\ TermsOf([spelling |-> r.spelling, aliases |-> r.aliases]) =
              TermsOf(r)
  BY DEF Rows, AnyEntry, TermsOf

LEMMA NewRow ==
  ASSUME NEW id \in Nat, NEW born \in Nat, NEW e \in AnyEntry
  PROVE  /\ Row(id, born, e) \in Rows
         /\ Row(id, born, e).id = id
         /\ Row(id, born, e).born = born
         /\ TermsOf(Row(id, born, e)) = TermsOf(e)
         /\ [spelling |-> Row(id, born, e).spelling,
             aliases |-> Row(id, born, e).aliases] = e
  BY DEF Row, Rows, AnyEntry, TermsOf

LEMMA FitsBeside ==
  ASSUME NEW e, NEW others, Fits(e, others), NEW o \in others
  PROVE  TermsOf(e) \cap TermsOf(o) = {}
  BY DEF Fits, AllTerms

LEMMA FitsIfBeside ==
  ASSUME NEW e, NEW others,
         \A o \in others : TermsOf(e) \cap TermsOf(o) = {}
  PROVE  Fits(e, others)
  BY DEF Fits, AllTerms

\* Rows that have different ids are finitely many.
LEMMA FinitelyManyRows ==
  ASSUME DictionaryTypeOK, RowsNumbered
  PROVE  IsFiniteSet(table)
  <1> DEFINE f == [r \in table |-> r.id]
  <1>1. f \in Injection(table, 1 .. lastId)
    BY DEF RowsNumbered, Injection, IsInjective
  <1>2. IsFiniteSet(1 .. lastId)
    BY FS_Interval DEF DictionaryTypeOK
  <1>. QED
    BY <1>1, <1>2, FS_Injection

-----------------------------------------------------------------------------
(* import_text *)

\* The number of an addition in given order.
Place(given, i) == Cardinality({j \in Additions(given) : j <= i})

LEMMA PlacesAreDistinct ==
  ASSUME NEW given \in Seq(AnyEntry)
  PROVE  /\ IsFiniteSet(Additions(given))
         /\ Cardinality(Additions(given)) \in Nat
         /\ \A i \in Additions(given) :
              Place(given, i) \in 1 .. Cardinality(Additions(given))
         /\ \A i, j \in Additions(given) :
              i # j => Place(given, i) # Place(given, j)
  <1> DEFINE A == Additions(given)
             Upto(i) == {j \in A : j <= i}
  <1>1. /\ DOMAIN given = 1 .. Len(given)
        /\ IsFiniteSet(DOMAIN given)
        /\ A \subseteq DOMAIN given
    <2>1. DOMAIN given = 1 .. Len(given) /\ Len(given) \in Nat
      OBVIOUS
    <2>2. IsFiniteSet(1 .. Len(given))
      BY <2>1, FS_Interval
    <2> QED
      BY <2>1, <2>2 DEF Additions
  <1>2. IsFiniteSet(A) /\ Cardinality(A) \in Nat
    BY <1>1, FS_Subset, FS_CardinalityType
  <1>. HIDE DEF A
  <1>3. ASSUME NEW i \in A
        PROVE  /\ IsFiniteSet(Upto(i)) /\ Cardinality(Upto(i)) \in Nat
               /\ Cardinality(Upto(i)) <= Cardinality(A)
               /\ Cardinality(Upto(i)) # 0
    <2>1. /\ IsFiniteSet(Upto(i)) /\ Cardinality(Upto(i)) \in Nat
          /\ Cardinality(Upto(i)) <= Cardinality(A)
      BY <1>2, FS_Subset, FS_CardinalityType
    <2>2. i \in Upto(i)
      BY <1>1
    <2>. QED
      BY <2>1, <2>2, FS_EmptySet
  <1>4. ASSUME NEW i \in A, NEW j \in A, i < j
        PROVE  Cardinality(Upto(i)) # Cardinality(Upto(j))
    <2>1. /\ Upto(i) \subseteq Upto(j)
          /\ j \in Upto(j)
          /\ j \notin Upto(i)
      BY <1>1, <1>4
    <2>. QED
      BY <1>3, <2>1, FS_Subset
  <1>5. \A i, j \in A : i # j => i < j \/ j < i
    BY <1>1
  <1>6. \A i : Place(given, i) = Cardinality(Upto(i))
    BY DEF A, Place
  <1>. HIDE DEF Upto
  <1>7. \A i \in A : Place(given, i) \in 1 .. Cardinality(A)
    BY <1>2, <1>3, <1>6
  <1>8. \A i, j \in A : i # j => Place(given, i) # Place(given, j)
    BY <1>4, <1>5, <1>6
  <1>. QED
    BY <1>2, <1>7, <1>8 DEF A

LEMMA ImportedRow ==
  ASSUME DictionaryTypeOK, RowsNumbered, NEW given \in Seq(AnyEntry),
         NEW i \in Additions(given)
  PROVE  LET r == Row(lastId + Place(given, i), clock + Place(given, i), given[i])
         IN  /\ r \in Rows
             /\ r.id = lastId + Place(given, i)
             /\ r.born = r.id
             /\ r.id \in lastId + 1 .. lastId + Cardinality(Additions(given))
             /\ TermsOf(r) = TermsOf(given[i])
             /\ [spelling |-> r.spelling, aliases |-> r.aliases] = given[i]
  <1>1. /\ Place(given, i) \in 1 .. Cardinality(Additions(given))
        /\ Cardinality(Additions(given)) \in Nat
    BY PlacesAreDistinct
  <1>2. /\ lastId \in Nat
        /\ clock = lastId
        /\ given[i] \in AnyEntry
    BY DEF DictionaryTypeOK, RowsNumbered, Additions
  <1>3. lastId + Place(given, i) \in Nat
    BY <1>1, <1>2
  <1>. QED
    BY <1>1, <1>2, <1>3, NewRow

LEMMA ImportedRows ==
  ASSUME NEW given, NEW r
  PROVE  r \in NewRows(given) <=>
           \E i \in Additions(given) :
             r = Row(lastId + Place(given, i), clock + Place(given, i), given[i])
  BY DEF NewRows, Place

\* What an import adds fits beside the rows and beside each other.
LEMMA ImportIsUnambiguous ==
  ASSUME DictionaryInv, NEW given \in Seq(AnyEntry), FileFits(given)
  PROVE  \A r, s \in table \cup NewRows(given) :
           r # s => TermsOf(r) \cap TermsOf(s) = {}
  <1> DEFINE New(i) == Row(lastId + Place(given, i), clock + Place(given, i),
                           given[i])
  <1>1. /\ DictionaryTypeOK
        /\ RowsNumbered
        /\ NoAmbiguity
    BY DEF DictionaryInv
  <1>2. \A i \in Additions(given) : TermsOf(New(i)) = TermsOf(given[i])
    BY <1>1, ImportedRow
  <1>. HIDE DEF New
  <1>3. ASSUME NEW i \in Additions(given), NEW r \in table
        PROVE  TermsOf(New(i)) \cap TermsOf(r) = {}
    <2>1. Fits(given[i],
               table \cup {given[j] : j \in Additions(given) \ {i}})
      BY DEF FileFits, Compared
    <2>2. TermsOf(given[i]) \cap TermsOf(r) = {}
      BY <2>1, FitsBeside
    <2>. QED
      BY <1>2, <2>2
  <1>4. ASSUME NEW i \in Additions(given), NEW j \in Additions(given), i # j
        PROVE  TermsOf(New(i)) \cap TermsOf(New(j)) = {}
    <2>1. Fits(given[i],
               table \cup {given[k] : k \in Additions(given) \ {i}})
      BY DEF FileFits, Compared
    <2>2. given[j] \in table \cup {given[k] : k \in Additions(given) \ {i}}
      BY <1>4
    <2>3. TermsOf(given[i]) \cap TermsOf(given[j]) = {}
      BY <2>1, <2>2, FitsBeside
    <2>. QED
      BY <1>2, <2>3
  <1>5. \A r \in NewRows(given) : \E i \in Additions(given) : r = New(i)
    BY ImportedRows DEF New
  <1>6. \A r, s \in table : r # s => TermsOf(r) \cap TermsOf(s) = {}
    BY <1>1 DEF NoAmbiguity
  <1>7. ASSUME NEW r \in NewRows(given), NEW s \in NewRows(given), r # s
        PROVE  TermsOf(r) \cap TermsOf(s) = {}
    <2>1. PICK i \in Additions(given), j \in Additions(given) :
            r = New(i) /\ s = New(j)
      BY <1>5
    <2>. QED
      BY <1>4, <1>7, <2>1
  <1>8. ASSUME NEW r \in NewRows(given), NEW s \in table
        PROVE  /\ TermsOf(r) \cap TermsOf(s) = {}
               /\ TermsOf(s) \cap TermsOf(r) = {}
    BY <1>3, <1>5
  <1>. QED
    BY <1>6, <1>7, <1>8

\* The export fits after deletions, and brings back what they took.
LEMMA ExportRestores ==
  ASSUME DictionaryInv, pristine
  PROVE  /\ FileFits(saved)
         /\ Contents(table \cup NewRows(saved)) = {saved[i] : i \in DOMAIN saved}
  <1>1. /\ DictionaryTypeOK
        /\ RowsNumbered
        /\ saved \in Seq(AnyEntry)
        /\ table \subseteq Rows
    BY DEF DictionaryInv, DictionaryTypeOK
  <1>2. /\ \A r \in table : \E k \in DOMAIN saved :
             [spelling |-> r.spelling, aliases |-> r.aliases] = saved[k]
        /\ \A i, j \in DOMAIN saved :
             i # j => TermsOf(saved[i]) \cap TermsOf(saved[j]) = {}
    BY DEF DictionaryInv, ExportSound, Contents
  <1>3. Additions(saved) \subseteq DOMAIN saved
    BY DEF Additions
  <1>4. ASSUME NEW r \in table
        PROVE  \E k \in DOMAIN saved :
                 /\ [spelling |-> r.spelling, aliases |-> r.aliases] = saved[k]
                 /\ TermsOf(r) = TermsOf(saved[k])
                 /\ r.spelling = saved[k].spelling
    <2>1. PICK k \in DOMAIN saved :
            [spelling |-> r.spelling, aliases |-> r.aliases] = saved[k]
      BY <1>2
    <2>2. TermsOf(r) = TermsOf(saved[k])
      BY <1>1, <2>1, ContentOfRow
    <2>3. r.spelling = saved[k].spelling
      BY <2>1
    <2>. QED
      BY <2>1, <2>2, <2>3
  <1>5. ASSUME NEW i \in Additions(saved),
               NEW o \in table \cup {saved[j] : j \in Additions(saved) \ {i}}
        PROVE  TermsOf(saved[i]) \cap TermsOf(o) = {}
    <2>1. CASE o \in table
      <3>1. PICK k \in DOMAIN saved : /\ TermsOf(o) = TermsOf(saved[k])
                                      /\ o.spelling = saved[k].spelling
        BY <1>4, <2>1
      <3>2. k # i
        BY <2>1, <3>1 DEF Additions
      <3>. QED
        BY <1>2, <1>3, <3>1, <3>2
    <2>2. CASE o \in {saved[j] : j \in Additions(saved) \ {i}}
      BY <1>2, <1>3, <2>2
    <2>. QED
      BY <2>1, <2>2
  <1>6. FileFits(saved)
    BY <1>5, FitsIfBeside DEF FileFits, Compared
  <1>7. \A i \in DOMAIN saved : saved[i].spelling \in TermsOf(saved[i])
    BY DEF TermsOf
  \* What is no addition is still there.
  <1>8. ASSUME NEW i \in DOMAIN saved, i \notin Additions(saved)
        PROVE  \E r \in table :
                 [spelling |-> r.spelling, aliases |-> r.aliases] = saved[i]
    <2>1. \/ \E r \in table : r.spelling = saved[i].spelling
          \/ \E j \in 1 .. (i - 1) : saved[j].spelling = saved[i].spelling
      BY <1>8 DEF Additions
    <2>2. CASE \E r \in table : r.spelling = saved[i].spelling
      <3>1. PICK r \in table : r.spelling = saved[i].spelling
        BY <2>2
      <3>2. PICK k \in DOMAIN saved :
              /\ [spelling |-> r.spelling, aliases |-> r.aliases] = saved[k]
              /\ r.spelling = saved[k].spelling
        BY <1>4
      <3>3. k = i
        BY <1>2, <1>7, <3>1, <3>2
      <3>. QED
        BY <3>2, <3>3
    <2>3. CASE \E j \in 1 .. (i - 1) : saved[j].spelling = saved[i].spelling
      <3>1. PICK j \in 1 .. (i - 1) : saved[j].spelling = saved[i].spelling
        BY <2>3
      <3>2. j \in DOMAIN saved /\ j # i
        BY <1>1, <3>1
      <3>. QED
        BY <1>2, <1>7, <3>1, <3>2
    <2>. QED
      BY <2>1, <2>2, <2>3
  <1>9. /\ \A i \in Additions(saved) : \E r \in NewRows(saved) :
             [spelling |-> r.spelling, aliases |-> r.aliases] = saved[i]
        /\ \A r \in NewRows(saved) : \E i \in Additions(saved) :
             [spelling |-> r.spelling, aliases |-> r.aliases] = saved[i]
    <2> DEFINE New(i) == Row(lastId + Place(saved, i),
                             clock + Place(saved, i), saved[i])
    <2>1. \A i \in Additions(saved) :
            [spelling |-> New(i).spelling, aliases |-> New(i).aliases]
              = saved[i]
      BY <1>1, ImportedRow
    <2>2. \A r : r \in NewRows(saved) <=>
                   \E i \in Additions(saved) : r = New(i)
      BY ImportedRows
    <2>. HIDE DEF New
    <2>. QED
      BY <2>1, <2>2
  <1>10. ASSUME NEW i \in DOMAIN saved
         PROVE  saved[i] \in Contents(table \cup NewRows(saved))
    BY <1>8, <1>9 DEF Contents
  <1>11. ASSUME NEW r \in table \cup NewRows(saved)
         PROVE  \E i \in DOMAIN saved :
                  [spelling |-> r.spelling, aliases |-> r.aliases] = saved[i]
    BY <1>2, <1>3, <1>9
  <1>12. Contents(table \cup NewRows(saved)) = {saved[i] : i \in DOMAIN saved}
    BY <1>10, <1>11 DEF Contents
  <1>. QED
    BY <1>6, <1>12

-----------------------------------------------------------------------------
(* The steps. *)

LEMMA ImportKeeps ==
  ASSUME DictionaryInv, NEW given \in Seq(AnyEntry), Import(given)
  PROVE  DictionaryInv'
  <1>1. /\ DictionaryTypeOK
        /\ RowsNumbered
    BY DEF DictionaryInv
  <1>2. /\ FileFits(given)
        /\ table' = table \cup NewRows(given)
        /\ lastId' = lastId + Cardinality(Additions(given))
        /\ clock' = clock + Cardinality(Additions(given))
        /\ pristine' = (pristine /\ given = saved)
        /\ UNCHANGED <<listed, saved>>
    BY DEF Import
  <1>3. Cardinality(Additions(given)) \in Nat
    BY PlacesAreDistinct
  <1>4. \A r \in NewRows(given) :
          /\ r \in Rows
          /\ r.id = r.born
          /\ r.id \in lastId + 1 .. lastId'
    <2>1. SUFFICES ASSUME NEW r \in NewRows(given)
                   PROVE  /\ r \in Rows
                          /\ r.id = r.born
                          /\ r.id \in lastId + 1 .. lastId'
      OBVIOUS
    <2>2. PICK i \in Additions(given) :
            r = Row(lastId + Place(given, i), clock + Place(given, i), given[i])
      BY ImportedRows
    <2>. QED
      BY <1>1, <1>2, <2>2, ImportedRow
  <1>5. ASSUME NEW r \in NewRows(given), NEW s \in NewRows(given), r.id = s.id
        PROVE  r = s
    <2>1. PICK i \in Additions(given) :
            r = Row(lastId + Place(given, i), clock + Place(given, i), given[i])
      BY ImportedRows
    <2>2. PICK j \in Additions(given) :
            s = Row(lastId + Place(given, j), clock + Place(given, j), given[j])
      BY ImportedRows
    <2>3. r.id = lastId + Place(given, i) /\ s.id = lastId + Place(given, j)
      BY <1>1, <2>1, <2>2, ImportedRow
    <2>4. /\ lastId \in Nat
          /\ Place(given, i) \in Nat
          /\ Place(given, j) \in Nat
      BY <1>1, <1>3, PlacesAreDistinct DEF DictionaryTypeOK
    <2>5. Place(given, i) = Place(given, j)
      <3>1. lastId + Place(given, i) = lastId + Place(given, j)
        BY <1>5, <2>3, Zenon
      <3>. QED
        BY <2>4, <3>1
    <2>6. i = j
      BY <2>5, PlacesAreDistinct
    <2>. QED
      BY <2>1, <2>2, <2>6
  <1>6. DictionaryTypeOK'
    BY <1>1, <1>2, <1>3, <1>4 DEF DictionaryTypeOK
  <1>7. RowsNumbered'
    <2>1. lastId' = clock'
      BY <1>1, <1>2 DEF RowsNumbered
    <2>2. \A r \in table' \cup listed' : r.id = r.born /\ r.id \in 1 .. lastId'
      BY <1>1, <1>2, <1>3, <1>4 DEF RowsNumbered, DictionaryTypeOK
    <2>3. \A r, s \in table' : r.id = s.id => r = s
      BY <1>1, <1>2, <1>4, <1>5 DEF RowsNumbered, DictionaryTypeOK
    <2>. QED
      BY <2>1, <2>2, <2>3 DEF RowsNumbered
  <1>8. NoAmbiguity'
    BY <1>2, ImportIsUnambiguous DEF NoAmbiguity
  <1>9. ExportSound'
    <2>1. SUFFICES ASSUME pristine, given = saved
                   PROVE  ExportSound'
      BY <1>2 DEF ExportSound
    <2>2. Contents(table') = {saved[i] : i \in DOMAIN saved}
      BY <1>2, <2>1, ExportRestores
    <2>3. Contents(table)' = Contents(table')
      BY DEF Contents
    <2>. QED
      BY <1>2, <2>1, <2>2, <2>3 DEF ExportSound, DictionaryInv
  <1>. QED
    BY <1>6, <1>7, <1>8, <1>9 DEF DictionaryInv

LEMMA AddKeeps ==
  ASSUME DictionaryInv, NEW e \in AnyEntry, Add(e)
  PROVE  DictionaryInv'
  <1> DEFINE new == Row(lastId + 1, clock + 1, e)
  <1>1. /\ DictionaryTypeOK
        /\ RowsNumbered
        /\ NoAmbiguity
    BY DEF DictionaryInv
  <1>2. /\ Fits(e, table)
        /\ table' = table \cup {new}
        /\ lastId' = lastId + 1
        /\ clock' = clock + 1
        /\ pristine' = FALSE
        /\ UNCHANGED <<listed, saved>>
    BY DEF Add, NextId
  <1>3. /\ lastId \in Nat
        /\ clock = lastId
        /\ lastId + 1 \in Nat
    BY <1>1 DEF DictionaryTypeOK, RowsNumbered
  <1>4. /\ new \in Rows
        /\ new.id = lastId + 1
        /\ new.born = lastId + 1
        /\ TermsOf(new) = TermsOf(e)
    BY <1>3, NewRow
  <1>. HIDE DEF new
  <1>5. DictionaryTypeOK'
    BY <1>1, <1>2, <1>3, <1>4 DEF DictionaryTypeOK
  <1>6. RowsNumbered'
    BY <1>1, <1>2, <1>3, <1>4 DEF RowsNumbered
  <1>7. NoAmbiguity'
    <2>1. \A r \in table : TermsOf(new) \cap TermsOf(r) = {}
      BY <1>2, <1>4, FitsBeside
    <2>. QED
      BY <1>1, <1>2, <2>1 DEF NoAmbiguity
  <1>. QED
    BY <1>2, <1>5, <1>6, <1>7 DEF DictionaryInv, ExportSound

LEMMA UpdateKeeps ==
  ASSUME DictionaryInv, NEW id, NEW e \in AnyEntry, UpdateRow(id, e)
  PROVE  DictionaryInv'
  <1>1. /\ DictionaryTypeOK
        /\ RowsNumbered
        /\ NoAmbiguity
    BY DEF DictionaryInv
  <1>2. PICK old \in table :
          /\ old.id = id
          /\ Fits(e, OtherRows(old))
          /\ table' = (table \ {old}) \cup {Row(id, old.born, e)}
          /\ pristine' = FALSE
          /\ UNCHANGED <<lastId, clock, listed, saved>>
    BY DEF UpdateRow
  <1> DEFINE new == Row(id, old.born, e)
  <1>3. /\ old \in Rows
        /\ old.id = id
        /\ old.born = id
        /\ id \in Nat
        /\ id \in 1 .. lastId
    BY <1>1, <1>2 DEF DictionaryTypeOK, RowsNumbered, Rows
  <1>4. /\ new \in Rows
        /\ new.id = id
        /\ new.born = id
        /\ TermsOf(new) = TermsOf(e)
    BY <1>3, NewRow
  <1>5. table' = (table \ {old}) \cup {new}
    BY <1>2
  <1>. HIDE DEF new
  <1>6. \A r \in table \ {old} : r \in OtherRows(old)
    BY <1>1, <1>2 DEF OtherRows, RowsNumbered
  <1>7. DictionaryTypeOK'
    BY <1>1, <1>2, <1>4, <1>5 DEF DictionaryTypeOK
  <1>8. RowsNumbered'
    BY <1>1, <1>2, <1>3, <1>4, <1>5 DEF RowsNumbered
  <1>9. NoAmbiguity'
    <2>1. \A r \in table \ {old} : TermsOf(new) \cap TermsOf(r) = {}
      BY <1>2, <1>4, <1>6, FitsBeside
    <2>. QED
      BY <1>1, <1>5, <2>1 DEF NoAmbiguity
  <1>. QED
    BY <1>2, <1>7, <1>8, <1>9 DEF DictionaryInv, ExportSound

LEMMA DeleteKeeps ==
  ASSUME DictionaryInv, NEW id, Delete(id)
  PROVE  DictionaryInv'
  <1>1. /\ table' \subseteq table
        /\ UNCHANGED <<lastId, clock, listed, saved, pristine>>
    BY DEF Delete
  <1>2. DictionaryTypeOK'
    BY <1>1 DEF DictionaryInv, DictionaryTypeOK
  <1>3. RowsNumbered'
    BY <1>1 DEF DictionaryInv, RowsNumbered
  <1>4. NoAmbiguity'
    BY <1>1 DEF DictionaryInv, NoAmbiguity
  <1>5. ExportSound'
    BY <1>1 DEF DictionaryInv, ExportSound, Contents
  <1>. QED
    BY <1>2, <1>3, <1>4, <1>5 DEF DictionaryInv

\* The export lists every row: as many rows in the order of their ids, which
\* differ, are all of them.
LEMMA ExportKeeps ==
  ASSUME DictionaryInv, Export
  PROVE  DictionaryInv'
  <1>1. /\ DictionaryTypeOK
        /\ RowsNumbered
        /\ NoAmbiguity
        /\ UNCHANGED <<table, lastId, clock, listed>>
        /\ pristine' = TRUE
    BY DEF DictionaryInv, Export
  <1>2. PICK text \in [1 .. Cardinality(table) -> table] :
          /\ \A i, j \in DOMAIN text : i < j => text[i].id < text[j].id
          /\ saved' = [i \in DOMAIN text |->
                         [spelling |-> text[i].spelling,
                          aliases |-> text[i].aliases]]
    BY DEF Export
  <1>3. IsFiniteSet(table) /\ Cardinality(table) \in Nat
    BY <1>1, FinitelyManyRows, FS_CardinalityType
  <1> DEFINE n == Cardinality(table)
  <1>. HIDE DEF n
  <1>4. /\ n \in Nat
        /\ text \in [1 .. n -> table]
        /\ DOMAIN text = 1 .. n
    BY <1>3 DEF n
  <1>5. \A i, j \in 1 .. n : i # j => text[i] # text[j]
    <2>1. SUFFICES ASSUME NEW i \in 1 .. n, NEW j \in 1 .. n, i < j
                   PROVE  text[i] # text[j]
      BY <1>4
    <2>2. text[i].id < text[j].id
      BY <1>2, <1>4, <2>1
    <2>3. text[i] \in table
      BY <1>4
    <2>4. text[i].id \in Nat
      BY <1>1, <2>3 DEF DictionaryTypeOK, Rows
    <2>. QED
      BY <2>2, <2>4
  <1>6. text \in Surjection(1 .. n, table)
    <2>1. text \in Injection(1 .. n, table)
      BY <1>4, <1>5 DEF Injection, IsInjective
    <2>2. Cardinality(1 .. n) = n
      BY <1>4, FS_Interval
    <2>. QED
      BY <1>3, <2>1, <2>2, FS_Injection DEF n
  <1>7. \A r \in table : \E i \in 1 .. n : text[i] = r
    BY <1>6 DEF Surjection
  <1>8. /\ DOMAIN saved' = 1 .. n
        /\ \A i \in 1 .. n :
             /\ text[i] \in Rows
             /\ saved'[i] = [spelling |-> text[i].spelling,
                             aliases |-> text[i].aliases]
    BY <1>1, <1>2, <1>4 DEF DictionaryTypeOK
  <1>9. \A i \in 1 .. n :
          saved'[i] \in AnyEntry /\ TermsOf(saved'[i]) = TermsOf(text[i])
    BY <1>8, ContentOfRow
  <1>10. saved' \in Seq(AnyEntry)
    <2>1. saved' \in [1 .. n -> AnyEntry]
      BY <1>2, <1>4, <1>9
    <2>. QED
      BY <1>4, <2>1
  <1>11. ExportSound'
    <2>1. Contents(table) \subseteq {saved'[i] : i \in DOMAIN saved'}
      BY <1>7, <1>8 DEF Contents
    <2>2. \A i, j \in DOMAIN saved' :
            i # j => TermsOf(saved'[i]) \cap TermsOf(saved'[j]) = {}
      BY <1>1, <1>4, <1>5, <1>8, <1>9 DEF NoAmbiguity
    <2>. QED
      BY <1>1, <2>1, <2>2 DEF ExportSound, Contents
  <1>12. DictionaryTypeOK' /\ RowsNumbered' /\ NoAmbiguity'
    BY <1>1, <1>10 DEF DictionaryTypeOK, RowsNumbered, NoAmbiguity
  <1>. QED
    BY <1>11, <1>12 DEF DictionaryInv

LEMMA ListKeeps ==
  ASSUME DictionaryInv, List
  PROVE  DictionaryInv'
  <1>1. listed' = table /\ UNCHANGED <<table, lastId, clock, saved, pristine>>
    BY DEF List
  <1>2. DictionaryTypeOK' /\ RowsNumbered'
    BY <1>1 DEF DictionaryInv, DictionaryTypeOK, RowsNumbered
  <1>3. NoAmbiguity' /\ ExportSound'
    BY <1>1 DEF DictionaryInv, NoAmbiguity, ExportSound, Contents
  <1>. QED
    BY <1>2, <1>3 DEF DictionaryInv

LEMMA DictionarySteps ==
  DictionaryInv /\ [DictionaryNext]_dictionaryVars => DictionaryInv'
  <1> SUFFICES ASSUME DictionaryInv, [DictionaryNext]_dictionaryVars
               PROVE  DictionaryInv'
    OBVIOUS
  <1>1. /\ Entries \subseteq AnyEntry
        /\ OtherFiles \cup {saved} \subseteq Seq(AnyEntry)
    BY DictionaryAssumption
       DEF DictionaryConstantsOK, DictionaryInv, DictionaryTypeOK
  <1>2. CASE DictionaryNext
    BY <1>1, <1>2, AddKeeps, UpdateKeeps, DeleteKeeps, ImportKeeps,
       ExportKeeps, ListKeeps DEF DictionaryNext
  <1>3. CASE UNCHANGED dictionaryVars
    BY <1>3 DEF dictionaryVars, DictionaryInv, DictionaryTypeOK, RowsNumbered,
                NoAmbiguity, ExportSound, Contents
  <1>. QED
    BY <1>2, <1>3

\* Whatever is added, changed, deleted, exported and imported, and in whatever
\* order, no term belongs to two rows, an edit reaches the row the page showed,
\* and the last export brings back what was deleted since: for any terms,
\* entries and files, and any number of rows (DictionaryRepo).
THEOREM EntriesAreAlwaysSound == DictionarySpec => []EntriesAreSound
  <1>1. DictionaryInit => DictionaryInv
    <2> SUFFICES ASSUME DictionaryInit
                 PROVE  DictionaryInv
      OBVIOUS
    <2>1. <<>> \in Seq(AnyEntry)
      OBVIOUS
    <2>2. DictionaryTypeOK
      BY <2>1 DEF DictionaryInit, DictionaryTypeOK
    <2>3. RowsNumbered /\ NoAmbiguity /\ ExportSound
      BY DEF DictionaryInit, RowsNumbered, NoAmbiguity, ExportSound
    <2>. QED
      BY <2>2, <2>3 DEF DictionaryInv
  <1>2. DictionaryInv => EntriesAreSound
    <2> SUFFICES ASSUME DictionaryInv
                 PROVE  EntriesAreSound
      OBVIOUS
    <2>1. NoAmbiguity
      BY DEF DictionaryInv
    <2>2. SameEntry
      BY DEF DictionaryInv, RowsNumbered, SameEntry
    <2>3. RestoresDeleted
      BY ExportRestores DEF RestoresDeleted
    <2>. QED
      BY <2>1, <2>2, <2>3 DEF EntriesAreSound
  <1>. QED
    BY <1>1, <1>2, DictionarySteps, PTL DEF DictionarySpec

=============================================================================
