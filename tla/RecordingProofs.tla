-------------------------- MODULE RecordingProofs --------------------------
(***************************************************************************)
(* What is proved about the recording side: who owns the slot, the         *)
(* microphone and the STT session (RecordingSlot), who holds the device    *)
(* (Microphone, with the AudioCapture of every capture), and what the      *)
(* shortcuts post (Hotkeys); for any numbers of runs, requests, captures,  *)
(* tests and keys and any limits.                                          *)
(*                                                                         *)
(* SlotInv is the inductive invariant.  SlotIsOwned needs all of it: that  *)
(* the slot has one owner rests on a run having no task, capture or retry  *)
(* before its start is through (StartsFirst), on nothing being aborted     *)
(* without deletions (NothingAborted), and on a start or retry that has    *)
(* the slot finding no active run (TakersWait); that the session goes back *)
(* rests on every run that stops having a row (OneRunEach), since _process *)
(* leaves the session of a run without one.                                *)
(*                                                                         *)
(* MicInv adds to the two halves of MicrophoneIsOwned that a stream which  *)
(* was told to stop goes, with the lease, while the loop waits for it.     *)
(* KeysInv adds that a hold is what was posted last, and that a dictation  *)
(* key which is down is known to be until a new service takes over.        *)
(***************************************************************************)
EXTENDS RecordingSlot, Microphone, Hotkeys, SequenceTheorems, TLAPS
-----------------------------------------------------------------------------
(* The slot, the microphone of a run and the STT session. *)

\* Before a run records it has no task, no capture and no retry, and its row is
\* as create_run made it or cancelled or deleted since.
StartsFirst ==
    \A r \in Runs :
      /\ startAt[r] # "running" => proc[r] = "none" /\ mic[r] = "none"
      /\ startAt[r] \notin {"running", "raised"} =>
           retry[r] = "none"
           /\ row[r] \in {"absent", "recording", "cancelled", "deleted"}
      /\ startAt[r] \in {"none", "destination", "creating"} =>
           row[r] = "absent"
      /\ startAt[r] # "none" => request[r] \in Requests

\* Without deletions nothing is aborted.
NothingAborted ==
    used["deletes"] = 0 =>
      /\ deleting = {} /\ doomed = {} /\ aborted = {}
      /\ \A r \in Runs : row[r] # "deleted"

\* A start or a retry that has taken the slot and is not the active run yet.
Taker(r) == InStart(r) \/ retry[r] \in {"reading", "written"}

\* Neither deletions nor early retries so far.
Plain == used["deletes"] = 0 /\ used["early"] = 0

\* A taker has the slot to itself, and an open microphone is the active run's.
TakersWait ==
    \A r \in Runs :
      /\ retry[r] # "sharing"
      /\ Taker(r) => slot /\ active = NoRun
      /\ mic[r] = "open" => /\ active = r /\ proc[r] = "recording"
                           /\ retry[r] = "none"

OneTaker == \A r, s \in Runs : Taker(r) /\ Taker(s) => r = s

\* A taken slot has its taker or its active run, and that one a task.
SlotTaken ==
    /\ slot /\ active = NoRun => \E r \in Runs : Taker(r)
    /\ active # NoRun => slot /\ HasTask(active)

OneOwner == Plain => TakersWait /\ OneTaker /\ SlotTaken

\* Without repeats every request asks for one run.
OneRunEach ==
    used["deletes"] = 0 /\ used["repeats"] = 0 =>
      /\ \A r \in Runs :
           startAt[r] \in {"created", "dictionary", "failing", "running"} =>
             row[r] # "absent"
      /\ \A r, s \in Runs :
           request[r] = request[s] /\ request[r] # NoRun => r = s

\* A run whose recording is cancelled or over has let the session go.
SessionLetGo ==
    used["deletes"] = 0 /\ used["repeats"] = 0 =>
      /\ session # NoRun => HasSession(session)
      /\ \A r \in Runs :
           /\ HasSession(r) /\ r \in cancelled => session # r
           /\ proc[r] \in {"cancelling", "processing", "closing"} =>
                session # r

\* A run that is deleted, or about to be, is not recording, and if it is still
\* starting that is noted; whatever is starting can be told.
OrphansStopped ==
    \A r \in Runs :
      /\ \/ row[r] = "deleted" /\ r \notin doomed
         \/ r \in deleting /\ deleting # Runs
         => mic[r] # "open" /\ (InStart(r) => r \in aborted)
      /\ r \in deleting /\ deleting # Runs => row[r] # "absent"
      /\ InStart(r) /\ r \notin aborted => r \in starting
      /\ mic[r] = "open" => proc[r] = "recording"
      /\ deleting # {} => doomed = {}

\* A request waits for its start, and a running run is its answer unless the
\* answer has been withdrawn.
AnswersKept ==
    /\ \A r \in Runs :
         /\ InStart(r) => pending[request[r]] = r
         /\ startAt[r] = "running" =>
              request[r] \in invalidated \/ dedupe[request[r]] = r
    /\ AnsweredOnce

SlotInv ==
    /\ SlotTypeOK /\ StartsFirst /\ NothingAborted /\ OneOwner
    /\ OneRunEach /\ SessionLetGo /\ OrphansStopped /\ AnswersKept

-----------------------------------------------------------------------------
(* The steps. *)

\* A step of RecordingSlot keeps the types; the answer of a request that
\* starts is one of Requests.
LEMMA SlotTypeStep ==
    ASSUME SlotTypeOK, StartsFirst, SlotNext
    PROVE  SlotTypeOK'
<1> USE SlotAssumption DEF SlotConstantsOK, SlotTypeOK, Finished, SlotBudgets,
       ownerVars, flagVars, atVars, devices, requests, commandVars, procRest,
       retryRest
<1>1. ASSUME NEW q \in Requests, NEW r \in Runs, StartCommand(q, r)
      PROVE  SlotTypeOK'
  BY <1>1 DEF StartCommand, Asked, Use, StartAt
<1>2. ASSUME NEW r \in Runs, StartFault(r)
      PROVE  SlotTypeOK'
  <2>1. (slot \in BOOLEAN)'
    BY <1>2 DEF StartFault, Use, StartRaises, StartAt, Mic, Without,
           FreeAfterFailure, AnswerRequest, FreeSlot
  <2>2. ({active, session} \subseteq Runs \cup {NoRun})'
    BY <1>2 DEF StartFault, Use, StartRaises, StartAt, Mic, Without,
           FreeAfterFailure, AnswerRequest, FreeSlot
  <2>3. /\ starting' \subseteq Runs /\ aborted' \subseteq Runs
        /\ cancelled' \subseteq Runs
    BY <1>2 DEF StartFault, Use, StartRaises, StartAt, Mic, Without,
           FreeAfterFailure, AnswerRequest, FreeSlot
  <2>4. (mic \in [Runs -> {"none", "open", "stopped", "cancelled"}])'
    BY <1>2 DEF StartFault, Use, StartRaises, StartAt, Mic, Without,
           FreeAfterFailure, AnswerRequest, FreeSlot
  <2>5. (dedupe \in [Requests -> Runs \cup {NoRun}])'
    BY <1>2 DEF StartFault, Use, StartRaises, StartAt, Mic, Without,
           FreeAfterFailure, AnswerRequest, FreeSlot
  <2>6. (invalidated \subseteq Requests)'
    BY <1>2 DEF StartFault, Use, StartRaises, StartAt, Mic, Without,
           FreeAfterFailure, AnswerRequest, FreeSlot
  <2>7. (used \in [SlotBudgets -> Nat])'
    BY <1>2 DEF StartFault, Use, StartRaises, StartAt, Mic, Without,
           FreeAfterFailure, AnswerRequest, FreeSlot
  <2> QED
    BY <1>2, <2>1, <2>2, <2>3, <2>4, <2>5, <2>6, <2>7 DEF StartFault, Use,
           StartRaises, StartAt, Mic, Without, FreeAfterFailure, AnswerRequest,
           FreeSlot
<1>3. ASSUME NEW r \in Runs, StartAborted(r)
      PROVE  SlotTypeOK'
  BY <1>3 DEF StartAborted, StartRaises, StartAt, Mic, Without,
         FreeAfterFailure, AnswerRequest, FreeSlot
<1>4. ASSUME NEW r \in Runs, DestinationCaptured(r)
      PROVE  SlotTypeOK'
  BY <1>4 DEF DestinationCaptured, StartGoesOn, StartAt
<1>5. ASSUME NEW r \in Runs, CreateRun(r)
      PROVE  SlotTypeOK'
  BY <1>5 DEF CreateRun, StartAt, Present, Row, NewStatus
<1>6. ASSUME NEW r \in Runs, RunCreated(r)
      PROVE  SlotTypeOK'
  BY <1>6 DEF RunCreated, StartGoesOn, StartAt
<1>7. ASSUME NEW r \in Runs, StartSucceeds(r)
      PROVE  SlotTypeOK'
  <2> request[r] \in Requests
    BY <1>7 DEF StartSucceeds, StartsFirst
  <2>1. (slot \in BOOLEAN)'
    BY <1>7 DEF StartSucceeds, MicFree, StartAt, Proc, Mic, AnswerRequest,
           Remembered
  <2>2. ({active, session} \subseteq Runs \cup {NoRun})'
    BY <1>7 DEF StartSucceeds, MicFree, StartAt, Proc, Mic, AnswerRequest,
           Remembered
  <2>3. /\ starting' \subseteq Runs /\ aborted' \subseteq Runs
        /\ cancelled' \subseteq Runs
    BY <1>7 DEF StartSucceeds, MicFree, StartAt, Proc, Mic, AnswerRequest,
           Remembered
  <2>4. (mic \in [Runs -> {"none", "open", "stopped", "cancelled"}])'
    BY <1>7 DEF StartSucceeds, MicFree, StartAt, Proc, Mic, AnswerRequest,
           Remembered
  <2>5. (dedupe \in [Requests -> Runs \cup {NoRun}])'
    BY <1>7 DEF StartSucceeds, Remembered
  <2>6. (invalidated \subseteq Requests)'
    BY <1>7 DEF StartSucceeds, Remembered
  <2>7. (used \in [SlotBudgets -> Nat])'
    BY <1>7 DEF StartSucceeds, MicFree, StartAt, Proc, Mic, AnswerRequest,
           Remembered
  <2> QED
    BY <1>7, <2>1, <2>2, <2>3, <2>4, <2>5, <2>6, <2>7 DEF StartSucceeds,
           MicFree, StartAt, Proc, Mic, AnswerRequest, Remembered
<1>8. ASSUME NEW r \in Runs, OpenFails(r)
      PROVE  SlotTypeOK'
  BY <1>8 DEF OpenFails, MicFree, Use, StartAt
<1>9. ASSUME NEW r \in Runs, FailWritten(r)
      PROVE  SlotTypeOK'
  BY <1>9 DEF FailWritten, Row, StartRaises, StartAt, Mic, Without,
         FreeAfterFailure, AnswerRequest, FreeSlot
<1>10. ASSUME NEW r \in Runs, RecordingEnds(r)
      PROVE  SlotTypeOK'
  BY <1>10 DEF RecordingEnds, Proc
<1>11. ASSUME NEW r \in Runs, StopWritten(r)
      PROVE  SlotTypeOK'
  BY <1>11 DEF StopWritten, Row, Proc, Present, Without
<1>12. ASSUME NEW r \in Runs, CancelWritten(r)
      PROVE  SlotTypeOK'
  BY <1>12 DEF CancelWritten, Row, Proc
<1>13. ASSUME NEW r \in Runs, NEW fails \in BOOLEAN, Transcribed(r, fails)
      PROVE  SlotTypeOK'
  BY <1>13 DEF Transcribed, SessionAfter, Proc, Row, Without
<1>14. ASSUME NEW r \in Runs, Processed(r)
      PROVE  SlotTypeOK'
  BY <1>14 DEF Processed, Proc, Row
<1>15. ASSUME NEW r \in Runs, ProcessCloses(r)
      PROVE  SlotTypeOK'
  BY <1>15 DEF ProcessCloses, Proc, Present, ReleaseSlot, FreeSlot
<1>16. ASSUME NEW r \in Runs, RetryCommit(r)
      PROVE  SlotTypeOK'
  BY <1>16 DEF RetryCommit, Row, Retry
<1>17. ASSUME NEW r \in Runs, RetryRefused(r)
      PROVE  SlotTypeOK'
  BY <1>17 DEF RetryRefused, Retry
<1>18. ASSUME NEW r \in Runs, RetryLaunched(r)
      PROVE  SlotTypeOK'
  BY <1>18 DEF RetryLaunched, Retry
<1>19. ASSUME NEW r \in Runs, RetryReturns(r)
      PROVE  SlotTypeOK'
  BY <1>19 DEF RetryReturns, ReleaseSlot, Retry, Row, FreeSlot
<1>20. ASSUME NEW r \in Runs, Stop(r)
      PROVE  SlotTypeOK'
  BY <1>20 DEF Stop, HasCapture, Mic, ReleaseSlot, FreeSlot
<1>21. ASSUME NEW r \in Runs, CancelTask(r)
      PROVE  SlotTypeOK'
  <2>1. (slot \in BOOLEAN)'
    BY <1>21 DEF CancelTask, HasTask, Use, Mic, HasCapture, HasSession,
           Without, ReleaseSlot, FreeSlot
  <2>2. ({active, session} \subseteq Runs \cup {NoRun})'
    BY <1>21 DEF CancelTask, HasTask, Use, Mic, HasCapture, HasSession,
           Without, ReleaseSlot, FreeSlot
  <2>3. /\ starting' \subseteq Runs /\ aborted' \subseteq Runs
        /\ cancelled' \subseteq Runs
    BY <1>21 DEF CancelTask, HasTask, Use, Mic, HasCapture, HasSession,
           Without, ReleaseSlot, FreeSlot
  <2>4. (mic \in [Runs -> {"none", "open", "stopped", "cancelled"}])'
    BY <1>21 DEF CancelTask, HasTask, Use, Mic, HasCapture, HasSession,
           Without, ReleaseSlot, FreeSlot
  <2>5. (dedupe \in [Requests -> Runs \cup {NoRun}])'
    BY <1>21 DEF CancelTask, HasTask, Use, Mic, HasCapture, HasSession,
           Without, ReleaseSlot, FreeSlot
  <2>6. (invalidated \subseteq Requests)'
    BY <1>21 DEF CancelTask, HasTask, Use, Mic, HasCapture, HasSession,
           Without, ReleaseSlot, FreeSlot
  <2>7. (used \in [SlotBudgets -> Nat])'
    BY <1>21 DEF CancelTask, HasTask, Use, Mic, HasCapture, HasSession,
           Without, ReleaseSlot, FreeSlot
  <2> QED
    BY <1>21, <2>1, <2>2, <2>3, <2>4, <2>5, <2>6, <2>7 DEF CancelTask, HasTask,
           Use, Mic, HasCapture, HasSession, Without, ReleaseSlot, FreeSlot
<1>22. ASSUME NEW r \in Runs, CancelRow(r)
      PROVE  SlotTypeOK'
  BY <1>22 DEF CancelRow, HasTask, Present, Use, HasSession, HasCapture
<1>23. ASSUME NEW r \in Runs, Delete(r)
      PROVE  SlotTypeOK'
  <2>1. (slot \in BOOLEAN)'
    BY <1>23 DEF Delete, Present, Use, Abort, Invalidate, HasTask, HasCapture,
           FreeSlot, HasSession
  <2>2. ({active, session} \subseteq Runs \cup {NoRun})'
    BY <1>23 DEF Delete, Present, Use, Abort, Invalidate, HasTask, HasCapture,
           FreeSlot, HasSession
  <2>3. /\ starting' \subseteq Runs /\ aborted' \subseteq Runs
        /\ cancelled' \subseteq Runs
    BY <1>23 DEF Delete, Present, Use, Abort, Invalidate, HasTask, HasCapture,
           FreeSlot, HasSession
  <2>4. (mic \in [Runs -> {"none", "open", "stopped", "cancelled"}])'
    BY <1>23 DEF Delete, Present, Use, Abort, Invalidate, HasTask, HasCapture,
           FreeSlot, HasSession
  <2>5. (dedupe \in [Requests -> Runs \cup {NoRun}])'
    BY <1>23 DEF Delete, Present, Use, Abort, Invalidate, HasTask, HasCapture,
           FreeSlot, HasSession
  <2>6. (invalidated \subseteq Requests)'
    BY <1>23 DEF Delete, Present, Use, Abort, Invalidate, HasTask, HasCapture,
           FreeSlot, HasSession
  <2>7. (used \in [SlotBudgets -> Nat])'
    BY <1>23 DEF Delete, Present, Use, Abort, Invalidate, HasTask, HasCapture,
           FreeSlot, HasSession
  <2> QED
    BY <1>23, <2>1, <2>2, <2>3, <2>4, <2>5, <2>6, <2>7 DEF Delete, Present,
           Use, Abort, Invalidate, HasTask, HasCapture, FreeSlot, HasSession
<1>24. ASSUME NEW r \in Runs, RetryBegins(r)
      PROVE  SlotTypeOK'
  BY <1>24 DEF RetryBegins, Use, Retry
<1>25. ASSUME NEW r \in Runs, RecordingFails(r)
      PROVE  SlotTypeOK'
  BY <1>25 DEF RecordingFails, Mic, Without, Row, Proc
<1>26. ASSUME NEW r \in Runs, CancelCommit(r)
      PROVE  SlotTypeOK'
  BY <1>26 DEF CancelCommit, Present, Row
<1>27. CASE DeleteAll
  <2>1. (slot \in BOOLEAN)'
    BY <1>27 DEF DeleteAll, Present, Use, Abort, Invalidate, HasTask,
           HasCapture, FreeSlot, HasSession
  <2>2. ({active, session} \subseteq Runs \cup {NoRun})'
    BY <1>27 DEF DeleteAll, Present, Use, Abort, Invalidate, HasTask,
           HasCapture, FreeSlot, HasSession
  <2>3. /\ starting' \subseteq Runs /\ aborted' \subseteq Runs
        /\ cancelled' \subseteq Runs
    BY <1>27 DEF DeleteAll, Present, Use, Abort, Invalidate, HasTask,
           HasCapture, FreeSlot, HasSession
  <2>4. (mic \in [Runs -> {"none", "open", "stopped", "cancelled"}])'
    BY <1>27 DEF DeleteAll, Present, Use, Abort, Invalidate, HasTask,
           HasCapture, FreeSlot, HasSession
  <2>5. (dedupe \in [Requests -> Runs \cup {NoRun}])'
    BY <1>27 DEF DeleteAll, Present, Use, Abort, Invalidate, HasTask,
           HasCapture, FreeSlot, HasSession
  <2>6. (invalidated \subseteq Requests)'
    BY <1>27 DEF DeleteAll, Present, Use, Abort, Invalidate, HasTask,
           HasCapture, FreeSlot, HasSession
  <2>7. (used \in [SlotBudgets -> Nat])'
    BY <1>27 DEF DeleteAll, Present, Use, Abort, Invalidate, HasTask,
           HasCapture, FreeSlot, HasSession
  <2> QED
    BY <1>27, <2>1, <2>2, <2>3, <2>4, <2>5, <2>6, <2>7 DEF DeleteAll, Present,
           Use, Abort, Invalidate, HasTask, HasCapture, FreeSlot, HasSession
<1>28. CASE DeleteCommit
  BY <1>28 DEF DeleteCommit, Present
<1>29. CASE DeleteAllReturns
  BY <1>29 DEF DeleteAllReturns, Abort, Invalidate, HasTask, HasCapture,
         FreeSlot, HasSession
<1> QED
  BY <1>1, <1>2, <1>3, <1>4, <1>5, <1>6, <1>7, <1>8, <1>9, <1>10, <1>11, <1>12,
         <1>13, <1>14, <1>15, <1>16, <1>17, <1>18, <1>19, <1>20, <1>21, <1>22,
         <1>23, <1>24, <1>25, <1>26, <1>27, <1>28, <1>29
  DEF SlotNext, User, StartStep, ProcessStep, RetryStep

\* Nothing of a run begins before its start is through (start, create_run).
LEMMA StartsFirstStep ==
    ASSUME SlotTypeOK, StartsFirst, SlotNext
    PROVE  StartsFirst'
<1> USE SlotAssumption DEF SlotConstantsOK, SlotTypeOK, StartsFirst, Finished,
       SlotBudgets, ownerVars, flagVars, atVars, devices, requests,
       commandVars, procRest, retryRest
<1>1. ASSUME NEW q \in Requests, NEW r \in Runs, StartCommand(q, r)
      PROVE  StartsFirst'
  BY <1>1 DEF StartCommand, Asked, Use, StartAt
<1>2. ASSUME NEW r \in Runs, StartFault(r)
      PROVE  StartsFirst'
  BY <1>2 DEF StartFault, Use, StartRaises, StartAt, Mic, Without,
         FreeAfterFailure, AnswerRequest, FreeSlot
<1>3. ASSUME NEW r \in Runs, StartAborted(r)
      PROVE  StartsFirst'
  BY <1>3 DEF StartAborted, StartRaises, StartAt, Mic, Without,
         FreeAfterFailure, AnswerRequest, FreeSlot
<1>4. ASSUME NEW r \in Runs, DestinationCaptured(r)
      PROVE  StartsFirst'
  BY <1>4 DEF DestinationCaptured, StartGoesOn, StartAt
<1>5. ASSUME NEW r \in Runs, CreateRun(r)
      PROVE  StartsFirst'
  BY <1>5 DEF CreateRun, StartAt, Present, Row, NewStatus
<1>6. ASSUME NEW r \in Runs, RunCreated(r)
      PROVE  StartsFirst'
  BY <1>6 DEF RunCreated, StartGoesOn, StartAt
<1>7. ASSUME NEW r \in Runs, StartSucceeds(r)
      PROVE  StartsFirst'
  BY <1>7 DEF StartSucceeds, MicFree, StartAt, Proc, Mic, AnswerRequest,
         Remembered
<1>8. ASSUME NEW r \in Runs, OpenFails(r)
      PROVE  StartsFirst'
  BY <1>8 DEF OpenFails, MicFree, Use, StartAt
<1>9. ASSUME NEW r \in Runs, FailWritten(r)
      PROVE  StartsFirst'
  BY <1>9 DEF FailWritten, Row, StartRaises, StartAt, Mic, Without,
         FreeAfterFailure, AnswerRequest, FreeSlot
<1>10. ASSUME NEW r \in Runs, RecordingEnds(r)
      PROVE  StartsFirst'
  BY <1>10 DEF RecordingEnds, Proc
<1>11. ASSUME NEW r \in Runs, StopWritten(r)
      PROVE  StartsFirst'
  BY <1>11 DEF StopWritten, Row, Proc, Present, Without
<1>12. ASSUME NEW r \in Runs, CancelWritten(r)
      PROVE  StartsFirst'
  BY <1>12 DEF CancelWritten, Row, Proc
<1>13. ASSUME NEW r \in Runs, NEW fails \in BOOLEAN, Transcribed(r, fails)
      PROVE  StartsFirst'
  BY <1>13 DEF Transcribed, SessionAfter, Proc, Row, Without
<1>14. ASSUME NEW r \in Runs, Processed(r)
      PROVE  StartsFirst'
  BY <1>14 DEF Processed, Proc, Row
<1>15. ASSUME NEW r \in Runs, ProcessCloses(r)
      PROVE  StartsFirst'
  BY <1>15 DEF ProcessCloses, Proc, Present, ReleaseSlot, FreeSlot
<1>16. ASSUME NEW r \in Runs, RetryCommit(r)
      PROVE  StartsFirst'
  BY <1>16 DEF RetryCommit, Row, Retry
<1>17. ASSUME NEW r \in Runs, RetryRefused(r)
      PROVE  StartsFirst'
  BY <1>17 DEF RetryRefused, Retry
<1>18. ASSUME NEW r \in Runs, RetryLaunched(r)
      PROVE  StartsFirst'
  BY <1>18 DEF RetryLaunched, Retry
<1>19. ASSUME NEW r \in Runs, RetryReturns(r)
      PROVE  StartsFirst'
  BY <1>19 DEF RetryReturns, ReleaseSlot, Retry, Row, FreeSlot
<1>20. ASSUME NEW r \in Runs, Stop(r)
      PROVE  StartsFirst'
  BY <1>20 DEF Stop, HasCapture, Mic, ReleaseSlot, FreeSlot
<1>21. ASSUME NEW r \in Runs, CancelTask(r)
      PROVE  StartsFirst'
  BY <1>21 DEF CancelTask, HasTask, Use, Mic, HasCapture, HasSession, Without,
         ReleaseSlot, FreeSlot
<1>22. ASSUME NEW r \in Runs, CancelRow(r)
      PROVE  StartsFirst'
  BY <1>22 DEF CancelRow, HasTask, Present, Use, HasSession, HasCapture
<1>23. ASSUME NEW r \in Runs, Delete(r)
      PROVE  StartsFirst'
  BY <1>23 DEF Delete, Present, Use, Abort, Invalidate, HasTask, HasCapture,
         FreeSlot, HasSession
<1>24. ASSUME NEW r \in Runs, RetryBegins(r)
      PROVE  StartsFirst'
  BY <1>24 DEF RetryBegins, Use, Retry
<1>25. ASSUME NEW r \in Runs, RecordingFails(r)
      PROVE  StartsFirst'
  BY <1>25 DEF RecordingFails, Mic, Without, Row, Proc
<1>26. ASSUME NEW r \in Runs, CancelCommit(r)
      PROVE  StartsFirst'
  BY <1>26 DEF CancelCommit, Present, Row
<1>27. CASE DeleteAll
  BY <1>27 DEF DeleteAll, Present, Use, Abort, Invalidate, HasTask, HasCapture,
         FreeSlot, HasSession
<1>28. CASE DeleteCommit
  BY <1>28 DEF DeleteCommit, Present
<1>29. CASE DeleteAllReturns
  BY <1>29 DEF DeleteAllReturns, Abort, Invalidate, HasTask, HasCapture,
         FreeSlot, HasSession
<1> QED
  BY <1>1, <1>2, <1>3, <1>4, <1>5, <1>6, <1>7, <1>8, <1>9, <1>10, <1>11, <1>12,
         <1>13, <1>14, <1>15, <1>16, <1>17, <1>18, <1>19, <1>20, <1>21, <1>22,
         <1>23, <1>24, <1>25, <1>26, <1>27, <1>28, <1>29
  DEF SlotNext, User, StartStep, ProcessStep, RetryStep

\* Only history_delete and history_delete_all abort a run.
LEMMA NothingAbortedStep ==
    ASSUME SlotTypeOK, NothingAborted, SlotNext
    PROVE  NothingAborted'
<1> USE SlotAssumption DEF SlotConstantsOK, SlotTypeOK, NothingAborted,
       Finished, SlotBudgets, ownerVars, flagVars, atVars, devices, requests,
       commandVars, procRest, retryRest
<1>1. ASSUME NEW q \in Requests, NEW r \in Runs, StartCommand(q, r)
      PROVE  NothingAborted'
  BY <1>1 DEF StartCommand, Asked, Use, StartAt
<1>2. ASSUME NEW r \in Runs, StartFault(r)
      PROVE  NothingAborted'
  BY <1>2 DEF StartFault, Use, StartRaises, StartAt, Mic, Without,
         FreeAfterFailure, AnswerRequest, FreeSlot
<1>3. ASSUME NEW r \in Runs, StartAborted(r)
      PROVE  NothingAborted'
  BY <1>3 DEF StartAborted, StartRaises, StartAt, Mic, Without,
         FreeAfterFailure, AnswerRequest, FreeSlot
<1>4. ASSUME NEW r \in Runs, DestinationCaptured(r)
      PROVE  NothingAborted'
  BY <1>4 DEF DestinationCaptured, StartGoesOn, StartAt
<1>5. ASSUME NEW r \in Runs, CreateRun(r)
      PROVE  NothingAborted'
  BY <1>5 DEF CreateRun, StartAt, Present, Row, NewStatus
<1>6. ASSUME NEW r \in Runs, RunCreated(r)
      PROVE  NothingAborted'
  BY <1>6 DEF RunCreated, StartGoesOn, StartAt
<1>7. ASSUME NEW r \in Runs, StartSucceeds(r)
      PROVE  NothingAborted'
  BY <1>7 DEF StartSucceeds, MicFree, StartAt, Proc, Mic, AnswerRequest,
         Remembered
<1>8. ASSUME NEW r \in Runs, OpenFails(r)
      PROVE  NothingAborted'
  BY <1>8 DEF OpenFails, MicFree, Use, StartAt
<1>9. ASSUME NEW r \in Runs, FailWritten(r)
      PROVE  NothingAborted'
  BY <1>9 DEF FailWritten, Row, StartRaises, StartAt, Mic, Without,
         FreeAfterFailure, AnswerRequest, FreeSlot
<1>10. ASSUME NEW r \in Runs, RecordingEnds(r)
      PROVE  NothingAborted'
  BY <1>10 DEF RecordingEnds, Proc
<1>11. ASSUME NEW r \in Runs, StopWritten(r)
      PROVE  NothingAborted'
  BY <1>11 DEF StopWritten, Row, Proc, Present, Without
<1>12. ASSUME NEW r \in Runs, CancelWritten(r)
      PROVE  NothingAborted'
  BY <1>12 DEF CancelWritten, Row, Proc
<1>13. ASSUME NEW r \in Runs, NEW fails \in BOOLEAN, Transcribed(r, fails)
      PROVE  NothingAborted'
  BY <1>13 DEF Transcribed, SessionAfter, Proc, Row, Without
<1>14. ASSUME NEW r \in Runs, Processed(r)
      PROVE  NothingAborted'
  BY <1>14 DEF Processed, Proc, Row
<1>15. ASSUME NEW r \in Runs, ProcessCloses(r)
      PROVE  NothingAborted'
  BY <1>15 DEF ProcessCloses, Proc, Present, ReleaseSlot, FreeSlot
<1>16. ASSUME NEW r \in Runs, RetryCommit(r)
      PROVE  NothingAborted'
  BY <1>16 DEF RetryCommit, Row, Retry
<1>17. ASSUME NEW r \in Runs, RetryRefused(r)
      PROVE  NothingAborted'
  BY <1>17 DEF RetryRefused, Retry
<1>18. ASSUME NEW r \in Runs, RetryLaunched(r)
      PROVE  NothingAborted'
  BY <1>18 DEF RetryLaunched, Retry
<1>19. ASSUME NEW r \in Runs, RetryReturns(r)
      PROVE  NothingAborted'
  BY <1>19 DEF RetryReturns, ReleaseSlot, Retry, Row, FreeSlot
<1>20. ASSUME NEW r \in Runs, Stop(r)
      PROVE  NothingAborted'
  BY <1>20 DEF Stop, HasCapture, Mic, ReleaseSlot, FreeSlot
<1>21. ASSUME NEW r \in Runs, CancelTask(r)
      PROVE  NothingAborted'
  BY <1>21 DEF CancelTask, HasTask, Use, Mic, HasCapture, HasSession, Without,
         ReleaseSlot, FreeSlot
<1>22. ASSUME NEW r \in Runs, CancelRow(r)
      PROVE  NothingAborted'
  BY <1>22 DEF CancelRow, HasTask, Present, Use, HasSession, HasCapture
<1>23. ASSUME NEW r \in Runs, Delete(r)
      PROVE  NothingAborted'
  BY <1>23 DEF Delete, Present, Use, Abort, Invalidate, HasTask, HasCapture,
         FreeSlot, HasSession
<1>24. ASSUME NEW r \in Runs, RetryBegins(r)
      PROVE  NothingAborted'
  BY <1>24 DEF RetryBegins, Use, Retry
<1>25. ASSUME NEW r \in Runs, RecordingFails(r)
      PROVE  NothingAborted'
  BY <1>25 DEF RecordingFails, Mic, Without, Row, Proc
<1>26. ASSUME NEW r \in Runs, CancelCommit(r)
      PROVE  NothingAborted'
  BY <1>26 DEF CancelCommit, Present, Row
<1>27. CASE DeleteAll
  BY <1>27 DEF DeleteAll, Present, Use, Abort, Invalidate, HasTask, HasCapture,
         FreeSlot, HasSession
<1>28. CASE DeleteCommit
  BY <1>28 DEF DeleteCommit, Present
<1>29. CASE DeleteAllReturns
  BY <1>29 DEF DeleteAllReturns, Abort, Invalidate, HasTask, HasCapture,
         FreeSlot, HasSession
<1> QED
  BY <1>1, <1>2, <1>3, <1>4, <1>5, <1>6, <1>7, <1>8, <1>9, <1>10, <1>11, <1>12,
         <1>13, <1>14, <1>15, <1>16, <1>17, <1>18, <1>19, <1>20, <1>21, <1>22,
         <1>23, <1>24, <1>25, <1>26, <1>27, <1>28, <1>29
  DEF SlotNext, User, StartStep, ProcessStep, RetryStep

\* A start or a retry takes a free slot and keeps it until it is through or
\* gives it back (start, recover).
LEMMA TakersWaitStep ==
    ASSUME SlotTypeOK, StartsFirst, NothingAborted, Plain, Plain',
           TakersWait, OneTaker, SlotTaken, SlotNext
    PROVE  TakersWait'
<1> USE SlotAssumption DEF SlotConstantsOK, SlotTypeOK, StartsFirst,
       NothingAborted, Plain, TakersWait, OneTaker, SlotTaken, Finished,
       SlotBudgets, Taker, HasTask, InStart, HasSession, HasCapture, ownerVars,
       flagVars, atVars, devices, requests, commandVars, procRest, retryRest
<1>1. ASSUME NEW q \in Requests, NEW r \in Runs, StartCommand(q, r)
      PROVE  TakersWait'
  BY <1>1 DEF StartCommand, Asked, Use, StartAt
<1>2. ASSUME NEW r \in Runs, StartFault(r)
      PROVE  TakersWait'
  BY <1>2 DEF StartFault, Use, StartRaises, StartAt, Mic, Without,
         FreeAfterFailure, AnswerRequest, FreeSlot
<1>3. ASSUME NEW r \in Runs, StartAborted(r)
      PROVE  TakersWait'
  BY <1>3 DEF StartAborted, StartRaises, StartAt, Mic, Without,
         FreeAfterFailure, AnswerRequest, FreeSlot
<1>4. ASSUME NEW r \in Runs, DestinationCaptured(r)
      PROVE  TakersWait'
  BY <1>4 DEF DestinationCaptured, StartGoesOn, StartAt
<1>5. ASSUME NEW r \in Runs, CreateRun(r)
      PROVE  TakersWait'
  BY <1>5 DEF CreateRun, StartAt, Present, Row, NewStatus
<1>6. ASSUME NEW r \in Runs, RunCreated(r)
      PROVE  TakersWait'
  BY <1>6 DEF RunCreated, StartGoesOn, StartAt
<1>7. ASSUME NEW r \in Runs, StartSucceeds(r)
      PROVE  TakersWait'
  BY <1>7 DEF StartSucceeds, MicFree, StartAt, Proc, Mic, AnswerRequest,
         Remembered
<1>8. ASSUME NEW r \in Runs, OpenFails(r)
      PROVE  TakersWait'
  BY <1>8 DEF OpenFails, MicFree, Use, StartAt
<1>9. ASSUME NEW r \in Runs, FailWritten(r)
      PROVE  TakersWait'
  BY <1>9 DEF FailWritten, Row, StartRaises, StartAt, Mic, Without,
         FreeAfterFailure, AnswerRequest, FreeSlot
<1>10. ASSUME NEW r \in Runs, RecordingEnds(r)
      PROVE  TakersWait'
  BY <1>10 DEF RecordingEnds, Proc
<1>11. ASSUME NEW r \in Runs, StopWritten(r)
      PROVE  TakersWait'
  BY <1>11 DEF StopWritten, Row, Proc, Present, Without
<1>12. ASSUME NEW r \in Runs, CancelWritten(r)
      PROVE  TakersWait'
  BY <1>12 DEF CancelWritten, Row, Proc
<1>13. ASSUME NEW r \in Runs, NEW fails \in BOOLEAN, Transcribed(r, fails)
      PROVE  TakersWait'
  BY <1>13 DEF Transcribed, SessionAfter, Proc, Row, Without
<1>14. ASSUME NEW r \in Runs, Processed(r)
      PROVE  TakersWait'
  BY <1>14 DEF Processed, Proc, Row
<1>15. ASSUME NEW r \in Runs, ProcessCloses(r)
      PROVE  TakersWait'
  BY <1>15 DEF ProcessCloses, Proc, Present, ReleaseSlot, FreeSlot
<1>16. ASSUME NEW r \in Runs, RetryCommit(r)
      PROVE  TakersWait'
  BY <1>16 DEF RetryCommit, Row, Retry
<1>17. ASSUME NEW r \in Runs, RetryRefused(r)
      PROVE  TakersWait'
  BY <1>17 DEF RetryRefused, Retry
<1>18. ASSUME NEW r \in Runs, RetryLaunched(r)
      PROVE  TakersWait'
  BY <1>18 DEF RetryLaunched, Retry
<1>19. ASSUME NEW r \in Runs, RetryReturns(r)
      PROVE  TakersWait'
  BY <1>19 DEF RetryReturns, ReleaseSlot, Retry, Row, FreeSlot
<1>20. ASSUME NEW r \in Runs, Stop(r)
      PROVE  TakersWait'
  BY <1>20 DEF Stop, Mic, ReleaseSlot, FreeSlot
<1>21. ASSUME NEW r \in Runs, CancelTask(r)
      PROVE  TakersWait'
  BY <1>21 DEF CancelTask, Use, Mic, Without, ReleaseSlot, FreeSlot
<1>22. ASSUME NEW r \in Runs, CancelRow(r)
      PROVE  TakersWait'
  BY <1>22 DEF CancelRow, Present, Use
<1>23. ASSUME NEW r \in Runs, Delete(r)
      PROVE  TakersWait'
  BY <1>23 DEF Delete, Present, Use, Abort, Invalidate, FreeSlot
<1>24. ASSUME NEW r \in Runs, RetryBegins(r)
      PROVE  TakersWait'
  BY <1>24 DEF RetryBegins, Use, Retry
<1>25. ASSUME NEW r \in Runs, RecordingFails(r)
      PROVE  TakersWait'
  BY <1>25 DEF RecordingFails, Mic, Without, Row, Proc
<1>26. ASSUME NEW r \in Runs, CancelCommit(r)
      PROVE  TakersWait'
  BY <1>26 DEF CancelCommit, Present, Row
<1>27. CASE DeleteAll
  BY <1>27 DEF DeleteAll, Present, Use, Abort, Invalidate, FreeSlot
<1>28. CASE DeleteCommit
  BY <1>28 DEF DeleteCommit, Present
<1>29. CASE DeleteAllReturns
  BY <1>29 DEF DeleteAllReturns, Abort, Invalidate, FreeSlot
<1> QED
  BY <1>1, <1>2, <1>3, <1>4, <1>5, <1>6, <1>7, <1>8, <1>9, <1>10, <1>11, <1>12,
         <1>13, <1>14, <1>15, <1>16, <1>17, <1>18, <1>19, <1>20, <1>21, <1>22,
         <1>23, <1>24, <1>25, <1>26, <1>27, <1>28, <1>29
  DEF SlotNext, User, StartStep, ProcessStep, RetryStep

\* Nobody else takes the slot meanwhile.
LEMMA OneTakerStep ==
    ASSUME SlotTypeOK, StartsFirst, NothingAborted, Plain, Plain',
           TakersWait, OneTaker, SlotTaken, SlotNext
    PROVE  OneTaker'
<1> USE SlotAssumption DEF SlotConstantsOK, SlotTypeOK, StartsFirst,
       NothingAborted, Plain, TakersWait, OneTaker, SlotTaken, Finished,
       SlotBudgets, Taker, HasTask, InStart, HasSession, HasCapture, ownerVars,
       flagVars, atVars, devices, requests, commandVars, procRest, retryRest
<1>1. ASSUME NEW q \in Requests, NEW r \in Runs, StartCommand(q, r)
      PROVE  OneTaker'
  BY <1>1 DEF StartCommand, Asked, Use, StartAt
<1>2. ASSUME NEW r \in Runs, StartFault(r)
      PROVE  OneTaker'
  BY <1>2 DEF StartFault, Use, StartRaises, StartAt, Mic, Without,
         FreeAfterFailure, AnswerRequest, FreeSlot
<1>3. ASSUME NEW r \in Runs, StartAborted(r)
      PROVE  OneTaker'
  BY <1>3 DEF StartAborted, StartRaises, StartAt, Mic, Without,
         FreeAfterFailure, AnswerRequest, FreeSlot
<1>4. ASSUME NEW r \in Runs, DestinationCaptured(r)
      PROVE  OneTaker'
  BY <1>4 DEF DestinationCaptured, StartGoesOn, StartAt
<1>5. ASSUME NEW r \in Runs, CreateRun(r)
      PROVE  OneTaker'
  BY <1>5 DEF CreateRun, StartAt, Present, Row, NewStatus
<1>6. ASSUME NEW r \in Runs, RunCreated(r)
      PROVE  OneTaker'
  BY <1>6 DEF RunCreated, StartGoesOn, StartAt
<1>7. ASSUME NEW r \in Runs, StartSucceeds(r)
      PROVE  OneTaker'
  BY <1>7 DEF StartSucceeds, MicFree, StartAt, Proc, Mic, AnswerRequest,
         Remembered
<1>8. ASSUME NEW r \in Runs, OpenFails(r)
      PROVE  OneTaker'
  BY <1>8 DEF OpenFails, MicFree, Use, StartAt
<1>9. ASSUME NEW r \in Runs, FailWritten(r)
      PROVE  OneTaker'
  BY <1>9 DEF FailWritten, Row, StartRaises, StartAt, Mic, Without,
         FreeAfterFailure, AnswerRequest, FreeSlot
<1>10. ASSUME NEW r \in Runs, RecordingEnds(r)
      PROVE  OneTaker'
  BY <1>10 DEF RecordingEnds, Proc
<1>11. ASSUME NEW r \in Runs, StopWritten(r)
      PROVE  OneTaker'
  BY <1>11 DEF StopWritten, Row, Proc, Present, Without
<1>12. ASSUME NEW r \in Runs, CancelWritten(r)
      PROVE  OneTaker'
  BY <1>12 DEF CancelWritten, Row, Proc
<1>13. ASSUME NEW r \in Runs, NEW fails \in BOOLEAN, Transcribed(r, fails)
      PROVE  OneTaker'
  BY <1>13 DEF Transcribed, SessionAfter, Proc, Row, Without
<1>14. ASSUME NEW r \in Runs, Processed(r)
      PROVE  OneTaker'
  BY <1>14 DEF Processed, Proc, Row
<1>15. ASSUME NEW r \in Runs, ProcessCloses(r)
      PROVE  OneTaker'
  BY <1>15 DEF ProcessCloses, Proc, Present, ReleaseSlot, FreeSlot
<1>16. ASSUME NEW r \in Runs, RetryCommit(r)
      PROVE  OneTaker'
  BY <1>16 DEF RetryCommit, Row, Retry
<1>17. ASSUME NEW r \in Runs, RetryRefused(r)
      PROVE  OneTaker'
  BY <1>17 DEF RetryRefused, Retry
<1>18. ASSUME NEW r \in Runs, RetryLaunched(r)
      PROVE  OneTaker'
  BY <1>18 DEF RetryLaunched, Retry
<1>19. ASSUME NEW r \in Runs, RetryReturns(r)
      PROVE  OneTaker'
  BY <1>19 DEF RetryReturns, ReleaseSlot, Retry, Row, FreeSlot
<1>20. ASSUME NEW r \in Runs, Stop(r)
      PROVE  OneTaker'
  BY <1>20 DEF Stop, Mic, ReleaseSlot, FreeSlot
<1>21. ASSUME NEW r \in Runs, CancelTask(r)
      PROVE  OneTaker'
  BY <1>21 DEF CancelTask, Use, Mic, Without, ReleaseSlot, FreeSlot
<1>22. ASSUME NEW r \in Runs, CancelRow(r)
      PROVE  OneTaker'
  BY <1>22 DEF CancelRow, Present, Use
<1>23. ASSUME NEW r \in Runs, Delete(r)
      PROVE  OneTaker'
  BY <1>23 DEF Delete, Present, Use, Abort, Invalidate, FreeSlot
<1>24. ASSUME NEW r \in Runs, RetryBegins(r)
      PROVE  OneTaker'
  BY <1>24 DEF RetryBegins, Use, Retry
<1>25. ASSUME NEW r \in Runs, RecordingFails(r)
      PROVE  OneTaker'
  BY <1>25 DEF RecordingFails, Mic, Without, Row, Proc
<1>26. ASSUME NEW r \in Runs, CancelCommit(r)
      PROVE  OneTaker'
  BY <1>26 DEF CancelCommit, Present, Row
<1>27. CASE DeleteAll
  BY <1>27 DEF DeleteAll, Present, Use, Abort, Invalidate, FreeSlot
<1>28. CASE DeleteCommit
  BY <1>28 DEF DeleteCommit, Present
<1>29. CASE DeleteAllReturns
  BY <1>29 DEF DeleteAllReturns, Abort, Invalidate, FreeSlot
<1> QED
  BY <1>1, <1>2, <1>3, <1>4, <1>5, <1>6, <1>7, <1>8, <1>9, <1>10, <1>11, <1>12,
         <1>13, <1>14, <1>15, <1>16, <1>17, <1>18, <1>19, <1>20, <1>21, <1>22,
         <1>23, <1>24, <1>25, <1>26, <1>27, <1>28, <1>29
  DEF SlotNext, User, StartStep, ProcessStep, RetryStep

\* Whoever ends gives the slot back, and only then (_release_slot).
LEMMA SlotTakenStep ==
    ASSUME SlotTypeOK, StartsFirst, NothingAborted, Plain, Plain',
           TakersWait, OneTaker, SlotTaken, SlotNext
    PROVE  SlotTaken'
<1> USE SlotAssumption DEF SlotConstantsOK, SlotTypeOK, StartsFirst,
       NothingAborted, Plain, TakersWait, OneTaker, SlotTaken, Finished,
       SlotBudgets, Taker, HasTask, InStart, HasSession, HasCapture, ownerVars,
       flagVars, atVars, devices, requests, commandVars, procRest, retryRest
<1>1. ASSUME NEW q \in Requests, NEW r \in Runs, StartCommand(q, r)
      PROVE  SlotTaken'
  BY <1>1 DEF StartCommand, Asked, Use, StartAt
<1>2. ASSUME NEW r \in Runs, StartFault(r)
      PROVE  SlotTaken'
  BY <1>2 DEF StartFault, Use, StartRaises, StartAt, Mic, Without,
         FreeAfterFailure, AnswerRequest, FreeSlot
<1>3. ASSUME NEW r \in Runs, StartAborted(r)
      PROVE  SlotTaken'
  BY <1>3 DEF StartAborted, StartRaises, StartAt, Mic, Without,
         FreeAfterFailure, AnswerRequest, FreeSlot
<1>4. ASSUME NEW r \in Runs, DestinationCaptured(r)
      PROVE  SlotTaken'
  BY <1>4 DEF DestinationCaptured, StartGoesOn, StartAt
<1>5. ASSUME NEW r \in Runs, CreateRun(r)
      PROVE  SlotTaken'
  BY <1>5 DEF CreateRun, StartAt, Present, Row, NewStatus
<1>6. ASSUME NEW r \in Runs, RunCreated(r)
      PROVE  SlotTaken'
  BY <1>6 DEF RunCreated, StartGoesOn, StartAt
<1>7. ASSUME NEW r \in Runs, StartSucceeds(r)
      PROVE  SlotTaken'
  BY <1>7 DEF StartSucceeds, MicFree, StartAt, Proc, Mic, AnswerRequest,
         Remembered
<1>8. ASSUME NEW r \in Runs, OpenFails(r)
      PROVE  SlotTaken'
  BY <1>8 DEF OpenFails, MicFree, Use, StartAt
<1>9. ASSUME NEW r \in Runs, FailWritten(r)
      PROVE  SlotTaken'
  BY <1>9 DEF FailWritten, Row, StartRaises, StartAt, Mic, Without,
         FreeAfterFailure, AnswerRequest, FreeSlot
<1>10. ASSUME NEW r \in Runs, RecordingEnds(r)
      PROVE  SlotTaken'
  BY <1>10 DEF RecordingEnds, Proc
<1>11. ASSUME NEW r \in Runs, StopWritten(r)
      PROVE  SlotTaken'
  BY <1>11 DEF StopWritten, Row, Proc, Present, Without
<1>12. ASSUME NEW r \in Runs, CancelWritten(r)
      PROVE  SlotTaken'
  BY <1>12 DEF CancelWritten, Row, Proc
<1>13. ASSUME NEW r \in Runs, NEW fails \in BOOLEAN, Transcribed(r, fails)
      PROVE  SlotTaken'
  BY <1>13 DEF Transcribed, SessionAfter, Proc, Row, Without
<1>14. ASSUME NEW r \in Runs, Processed(r)
      PROVE  SlotTaken'
  BY <1>14 DEF Processed, Proc, Row
<1>15. ASSUME NEW r \in Runs, ProcessCloses(r)
      PROVE  SlotTaken'
  BY <1>15 DEF ProcessCloses, Proc, Present, ReleaseSlot, FreeSlot
<1>16. ASSUME NEW r \in Runs, RetryCommit(r)
      PROVE  SlotTaken'
  BY <1>16 DEF RetryCommit, Row, Retry
<1>17. ASSUME NEW r \in Runs, RetryRefused(r)
      PROVE  SlotTaken'
  BY <1>17 DEF RetryRefused, Retry
<1>18. ASSUME NEW r \in Runs, RetryLaunched(r)
      PROVE  SlotTaken'
  BY <1>18 DEF RetryLaunched, Retry
<1>19. ASSUME NEW r \in Runs, RetryReturns(r)
      PROVE  SlotTaken'
  BY <1>19 DEF RetryReturns, ReleaseSlot, Retry, Row, FreeSlot
<1>20. ASSUME NEW r \in Runs, Stop(r)
      PROVE  SlotTaken'
  BY <1>20 DEF Stop, Mic, ReleaseSlot, FreeSlot
<1>21. ASSUME NEW r \in Runs, CancelTask(r)
      PROVE  SlotTaken'
  BY <1>21 DEF CancelTask, Use, Mic, Without, ReleaseSlot, FreeSlot
<1>22. ASSUME NEW r \in Runs, CancelRow(r)
      PROVE  SlotTaken'
  BY <1>22 DEF CancelRow, Present, Use
<1>23. ASSUME NEW r \in Runs, Delete(r)
      PROVE  SlotTaken'
  BY <1>23 DEF Delete, Present, Use, Abort, Invalidate, FreeSlot
<1>24. ASSUME NEW r \in Runs, RetryBegins(r)
      PROVE  SlotTaken'
  BY <1>24 DEF RetryBegins, Use, Retry
<1>25. ASSUME NEW r \in Runs, RecordingFails(r)
      PROVE  SlotTaken'
  BY <1>25 DEF RecordingFails, Mic, Without, Row, Proc
<1>26. ASSUME NEW r \in Runs, CancelCommit(r)
      PROVE  SlotTaken'
  BY <1>26 DEF CancelCommit, Present, Row
<1>27. CASE DeleteAll
  BY <1>27 DEF DeleteAll, Present, Use, Abort, Invalidate, FreeSlot
<1>28. CASE DeleteCommit
  BY <1>28 DEF DeleteCommit, Present
<1>29. CASE DeleteAllReturns
  BY <1>29 DEF DeleteAllReturns, Abort, Invalidate, FreeSlot
<1> QED
  BY <1>1, <1>2, <1>3, <1>4, <1>5, <1>6, <1>7, <1>8, <1>9, <1>10, <1>11, <1>12,
         <1>13, <1>14, <1>15, <1>16, <1>17, <1>18, <1>19, <1>20, <1>21, <1>22,
         <1>23, <1>24, <1>25, <1>26, <1>27, <1>28, <1>29
  DEF SlotNext, User, StartStep, ProcessStep, RetryStep

\* Deletions and early retries are counted and never uncounted.
LEMMA UsesCounted ==
    ASSUME SlotTypeOK, SlotNext
    PROVE  Plain' => Plain
<1> USE SlotAssumption DEF SlotConstantsOK, SlotTypeOK, Plain,
       Finished, SlotBudgets, ownerVars, flagVars, atVars, devices, requests,
       commandVars, procRest, retryRest
<1>1. ASSUME NEW q \in Requests, NEW r \in Runs, StartCommand(q, r)
      PROVE  Plain' => Plain
  BY <1>1 DEF StartCommand, Asked, Use, StartAt
<1>2. ASSUME NEW r \in Runs, StartFault(r)
      PROVE  Plain' => Plain
  BY <1>2 DEF StartFault, Use, StartRaises, StartAt, Mic, Without,
         FreeAfterFailure, AnswerRequest, FreeSlot
<1>3. ASSUME NEW r \in Runs, StartAborted(r)
      PROVE  Plain' => Plain
  BY <1>3 DEF StartAborted, StartRaises, StartAt, Mic, Without,
         FreeAfterFailure, AnswerRequest, FreeSlot
<1>4. ASSUME NEW r \in Runs, DestinationCaptured(r)
      PROVE  Plain' => Plain
  BY <1>4 DEF DestinationCaptured, StartGoesOn, StartAt
<1>5. ASSUME NEW r \in Runs, CreateRun(r)
      PROVE  Plain' => Plain
  BY <1>5 DEF CreateRun, StartAt, Present, Row, NewStatus
<1>6. ASSUME NEW r \in Runs, RunCreated(r)
      PROVE  Plain' => Plain
  BY <1>6 DEF RunCreated, StartGoesOn, StartAt
<1>7. ASSUME NEW r \in Runs, StartSucceeds(r)
      PROVE  Plain' => Plain
  BY <1>7 DEF StartSucceeds, MicFree, StartAt, Proc, Mic, AnswerRequest,
         Remembered
<1>8. ASSUME NEW r \in Runs, OpenFails(r)
      PROVE  Plain' => Plain
  BY <1>8 DEF OpenFails, MicFree, Use, StartAt
<1>9. ASSUME NEW r \in Runs, FailWritten(r)
      PROVE  Plain' => Plain
  BY <1>9 DEF FailWritten, Row, StartRaises, StartAt, Mic, Without,
         FreeAfterFailure, AnswerRequest, FreeSlot
<1>10. ASSUME NEW r \in Runs, RecordingEnds(r)
      PROVE  Plain' => Plain
  BY <1>10 DEF RecordingEnds, Proc
<1>11. ASSUME NEW r \in Runs, StopWritten(r)
      PROVE  Plain' => Plain
  BY <1>11 DEF StopWritten, Row, Proc, Present, Without
<1>12. ASSUME NEW r \in Runs, CancelWritten(r)
      PROVE  Plain' => Plain
  BY <1>12 DEF CancelWritten, Row, Proc
<1>13. ASSUME NEW r \in Runs, NEW fails \in BOOLEAN, Transcribed(r, fails)
      PROVE  Plain' => Plain
  BY <1>13 DEF Transcribed, SessionAfter, Proc, Row, Without
<1>14. ASSUME NEW r \in Runs, Processed(r)
      PROVE  Plain' => Plain
  BY <1>14 DEF Processed, Proc, Row
<1>15. ASSUME NEW r \in Runs, ProcessCloses(r)
      PROVE  Plain' => Plain
  BY <1>15 DEF ProcessCloses, Proc, Present, ReleaseSlot, FreeSlot
<1>16. ASSUME NEW r \in Runs, RetryCommit(r)
      PROVE  Plain' => Plain
  BY <1>16 DEF RetryCommit, Row, Retry
<1>17. ASSUME NEW r \in Runs, RetryRefused(r)
      PROVE  Plain' => Plain
  BY <1>17 DEF RetryRefused, Retry
<1>18. ASSUME NEW r \in Runs, RetryLaunched(r)
      PROVE  Plain' => Plain
  BY <1>18 DEF RetryLaunched, Retry
<1>19. ASSUME NEW r \in Runs, RetryReturns(r)
      PROVE  Plain' => Plain
  BY <1>19 DEF RetryReturns, ReleaseSlot, Retry, Row, FreeSlot
<1>20. ASSUME NEW r \in Runs, Stop(r)
      PROVE  Plain' => Plain
  BY <1>20 DEF Stop, HasCapture, Mic, ReleaseSlot, FreeSlot
<1>21. ASSUME NEW r \in Runs, CancelTask(r)
      PROVE  Plain' => Plain
  BY <1>21 DEF CancelTask, HasTask, Use, Mic, HasCapture, HasSession, Without,
         ReleaseSlot, FreeSlot
<1>22. ASSUME NEW r \in Runs, CancelRow(r)
      PROVE  Plain' => Plain
  BY <1>22 DEF CancelRow, HasTask, Present, Use, HasSession, HasCapture
<1>23. ASSUME NEW r \in Runs, Delete(r)
      PROVE  Plain' => Plain
  BY <1>23 DEF Delete, Present, Use, Abort, Invalidate, HasTask, HasCapture,
         FreeSlot, HasSession
<1>24. ASSUME NEW r \in Runs, RetryBegins(r)
      PROVE  Plain' => Plain
  BY <1>24 DEF RetryBegins, Use, Retry
<1>25. ASSUME NEW r \in Runs, RecordingFails(r)
      PROVE  Plain' => Plain
  BY <1>25 DEF RecordingFails, Mic, Without, Row, Proc
<1>26. ASSUME NEW r \in Runs, CancelCommit(r)
      PROVE  Plain' => Plain
  BY <1>26 DEF CancelCommit, Present, Row
<1>27. CASE DeleteAll
  BY <1>27 DEF DeleteAll, Present, Use, Abort, Invalidate, HasTask, HasCapture,
         FreeSlot, HasSession
<1>28. CASE DeleteCommit
  BY <1>28 DEF DeleteCommit, Present
<1>29. CASE DeleteAllReturns
  BY <1>29 DEF DeleteAllReturns, Abort, Invalidate, HasTask, HasCapture,
         FreeSlot, HasSession
<1> QED
  BY <1>1, <1>2, <1>3, <1>4, <1>5, <1>6, <1>7, <1>8, <1>9, <1>10, <1>11, <1>12,
         <1>13, <1>14, <1>15, <1>16, <1>17, <1>18, <1>19, <1>20, <1>21, <1>22,
         <1>23, <1>24, <1>25, <1>26, <1>27, <1>28, <1>29
  DEF SlotNext, User, StartStep, ProcessStep, RetryStep

\* So the slot has one owner after every step; the steps of deletions and early
\* retries are counted and never uncounted.
LEMMA OneOwnerStep ==
    ASSUME SlotTypeOK, StartsFirst, NothingAborted, OneOwner, SlotNext
    PROVE  OneOwner'
<1> SUFFICES ASSUME Plain'
             PROVE  (TakersWait /\ OneTaker /\ SlotTaken)'
  BY DEF OneOwner
<1>1. Plain
  BY UsesCounted DEF Plain
<1>2. TakersWait /\ OneTaker /\ SlotTaken
  BY <1>1 DEF OneOwner
<1> QED
  BY <1>1, <1>2, TakersWaitStep, OneTakerStep, SlotTakenStep

\* Unless a request is delivered again, create_run makes a row for every run.
LEMMA OneRunEachStep ==
    ASSUME SlotTypeOK, StartsFirst, NothingAborted, OneRunEach, SlotNext
    PROVE  OneRunEach'
<1> USE SlotAssumption DEF SlotConstantsOK, SlotTypeOK, StartsFirst,
       NothingAborted, OneRunEach, Finished, SlotBudgets, ownerVars, flagVars,
       atVars, devices, requests, commandVars, procRest, retryRest
<1>1. ASSUME NEW q \in Requests, NEW r \in Runs, StartCommand(q, r)
      PROVE  OneRunEach'
  BY <1>1 DEF StartCommand, Asked, Use, StartAt
<1>2. ASSUME NEW r \in Runs, StartFault(r)
      PROVE  OneRunEach'
  BY <1>2 DEF StartFault, Use, StartRaises, StartAt, Mic, Without,
         FreeAfterFailure, AnswerRequest, FreeSlot
<1>3. ASSUME NEW r \in Runs, StartAborted(r)
      PROVE  OneRunEach'
  BY <1>3 DEF StartAborted, StartRaises, StartAt, Mic, Without,
         FreeAfterFailure, AnswerRequest, FreeSlot
<1>4. ASSUME NEW r \in Runs, DestinationCaptured(r)
      PROVE  OneRunEach'
  BY <1>4 DEF DestinationCaptured, StartGoesOn, StartAt
<1>5. ASSUME NEW r \in Runs, CreateRun(r)
      PROVE  OneRunEach'
  BY <1>5 DEF CreateRun, StartAt, Present, Row, NewStatus
<1>6. ASSUME NEW r \in Runs, RunCreated(r)
      PROVE  OneRunEach'
  BY <1>6 DEF RunCreated, StartGoesOn, StartAt
<1>7. ASSUME NEW r \in Runs, StartSucceeds(r)
      PROVE  OneRunEach'
  BY <1>7 DEF StartSucceeds, MicFree, StartAt, Proc, Mic, AnswerRequest,
         Remembered
<1>8. ASSUME NEW r \in Runs, OpenFails(r)
      PROVE  OneRunEach'
  BY <1>8 DEF OpenFails, MicFree, Use, StartAt
<1>9. ASSUME NEW r \in Runs, FailWritten(r)
      PROVE  OneRunEach'
  BY <1>9 DEF FailWritten, Row, StartRaises, StartAt, Mic, Without,
         FreeAfterFailure, AnswerRequest, FreeSlot
<1>10. ASSUME NEW r \in Runs, RecordingEnds(r)
      PROVE  OneRunEach'
  BY <1>10 DEF RecordingEnds, Proc
<1>11. ASSUME NEW r \in Runs, StopWritten(r)
      PROVE  OneRunEach'
  BY <1>11 DEF StopWritten, Row, Proc, Present, Without
<1>12. ASSUME NEW r \in Runs, CancelWritten(r)
      PROVE  OneRunEach'
  BY <1>12 DEF CancelWritten, Row, Proc
<1>13. ASSUME NEW r \in Runs, NEW fails \in BOOLEAN, Transcribed(r, fails)
      PROVE  OneRunEach'
  BY <1>13 DEF Transcribed, SessionAfter, Proc, Row, Without
<1>14. ASSUME NEW r \in Runs, Processed(r)
      PROVE  OneRunEach'
  BY <1>14 DEF Processed, Proc, Row
<1>15. ASSUME NEW r \in Runs, ProcessCloses(r)
      PROVE  OneRunEach'
  BY <1>15 DEF ProcessCloses, Proc, Present, ReleaseSlot, FreeSlot
<1>16. ASSUME NEW r \in Runs, RetryCommit(r)
      PROVE  OneRunEach'
  BY <1>16 DEF RetryCommit, Row, Retry
<1>17. ASSUME NEW r \in Runs, RetryRefused(r)
      PROVE  OneRunEach'
  BY <1>17 DEF RetryRefused, Retry
<1>18. ASSUME NEW r \in Runs, RetryLaunched(r)
      PROVE  OneRunEach'
  BY <1>18 DEF RetryLaunched, Retry
<1>19. ASSUME NEW r \in Runs, RetryReturns(r)
      PROVE  OneRunEach'
  BY <1>19 DEF RetryReturns, ReleaseSlot, Retry, Row, FreeSlot
<1>20. ASSUME NEW r \in Runs, Stop(r)
      PROVE  OneRunEach'
  BY <1>20 DEF Stop, HasCapture, Mic, ReleaseSlot, FreeSlot
<1>21. ASSUME NEW r \in Runs, CancelTask(r)
      PROVE  OneRunEach'
  BY <1>21 DEF CancelTask, HasTask, Use, Mic, HasCapture, HasSession, Without,
         ReleaseSlot, FreeSlot
<1>22. ASSUME NEW r \in Runs, CancelRow(r)
      PROVE  OneRunEach'
  BY <1>22 DEF CancelRow, HasTask, Present, Use, HasSession, HasCapture
<1>23. ASSUME NEW r \in Runs, Delete(r)
      PROVE  OneRunEach'
  BY <1>23 DEF Delete, Present, Use, Abort, Invalidate, HasTask, HasCapture,
         FreeSlot, HasSession
<1>24. ASSUME NEW r \in Runs, RetryBegins(r)
      PROVE  OneRunEach'
  BY <1>24 DEF RetryBegins, Use, Retry
<1>25. ASSUME NEW r \in Runs, RecordingFails(r)
      PROVE  OneRunEach'
  BY <1>25 DEF RecordingFails, Mic, Without, Row, Proc
<1>26. ASSUME NEW r \in Runs, CancelCommit(r)
      PROVE  OneRunEach'
  BY <1>26 DEF CancelCommit, Present, Row
<1>27. CASE DeleteAll
  BY <1>27 DEF DeleteAll, Present, Use, Abort, Invalidate, HasTask, HasCapture,
         FreeSlot, HasSession
<1>28. CASE DeleteCommit
  BY <1>28 DEF DeleteCommit, Present
<1>29. CASE DeleteAllReturns
  BY <1>29 DEF DeleteAllReturns, Abort, Invalidate, HasTask, HasCapture,
         FreeSlot, HasSession
<1> QED
  BY <1>1, <1>2, <1>3, <1>4, <1>5, <1>6, <1>7, <1>8, <1>9, <1>10, <1>11, <1>12,
         <1>13, <1>14, <1>15, <1>16, <1>17, <1>18, <1>19, <1>20, <1>21, <1>22,
         <1>23, <1>24, <1>25, <1>26, <1>27, <1>28, <1>29
  DEF SlotNext, User, StartStep, ProcessStep, RetryStep

\* Every path out of a recording gives the session back (cancel, _process,
\* OpenRouterWhisper).
LEMMA SessionLetGoStep ==
    ASSUME SlotTypeOK, StartsFirst, NothingAborted, OneRunEach,
           SessionLetGo, SlotNext
    PROVE  SessionLetGo'
<1> USE SlotAssumption DEF SlotConstantsOK, SlotTypeOK, StartsFirst,
       NothingAborted, OneRunEach, SessionLetGo, Finished, SlotBudgets,
       HasSession, HasCapture, ownerVars, flagVars, atVars, devices, requests,
       commandVars, procRest, retryRest
<1>1. ASSUME NEW q \in Requests, NEW r \in Runs, StartCommand(q, r)
      PROVE  SessionLetGo'
  BY <1>1 DEF StartCommand, Asked, Use, StartAt
<1>2. ASSUME NEW r \in Runs, StartFault(r)
      PROVE  SessionLetGo'
  BY <1>2 DEF StartFault, Use, StartRaises, StartAt, Mic, Without,
         FreeAfterFailure, AnswerRequest, FreeSlot
<1>3. ASSUME NEW r \in Runs, StartAborted(r)
      PROVE  SessionLetGo'
  BY <1>3 DEF StartAborted, StartRaises, StartAt, Mic, Without,
         FreeAfterFailure, AnswerRequest, FreeSlot
<1>4. ASSUME NEW r \in Runs, DestinationCaptured(r)
      PROVE  SessionLetGo'
  BY <1>4 DEF DestinationCaptured, StartGoesOn, StartAt
<1>5. ASSUME NEW r \in Runs, CreateRun(r)
      PROVE  SessionLetGo'
  BY <1>5 DEF CreateRun, StartAt, Present, Row, NewStatus
<1>6. ASSUME NEW r \in Runs, RunCreated(r)
      PROVE  SessionLetGo'
  BY <1>6 DEF RunCreated, StartGoesOn, StartAt
<1>7. ASSUME NEW r \in Runs, StartSucceeds(r)
      PROVE  SessionLetGo'
  BY <1>7 DEF StartSucceeds, MicFree, StartAt, Proc, Mic, AnswerRequest,
         Remembered
<1>8. ASSUME NEW r \in Runs, OpenFails(r)
      PROVE  SessionLetGo'
  BY <1>8 DEF OpenFails, MicFree, Use, StartAt
<1>9. ASSUME NEW r \in Runs, FailWritten(r)
      PROVE  SessionLetGo'
  BY <1>9 DEF FailWritten, Row, StartRaises, StartAt, Mic, Without,
         FreeAfterFailure, AnswerRequest, FreeSlot
<1>10. ASSUME NEW r \in Runs, RecordingEnds(r)
      PROVE  SessionLetGo'
  BY <1>10 DEF RecordingEnds, Proc
<1>11. ASSUME NEW r \in Runs, StopWritten(r)
      PROVE  SessionLetGo'
  BY <1>11 DEF StopWritten, Row, Proc, Present, Without
<1>12. ASSUME NEW r \in Runs, CancelWritten(r)
      PROVE  SessionLetGo'
  BY <1>12 DEF CancelWritten, Row, Proc
<1>13. ASSUME NEW r \in Runs, NEW fails \in BOOLEAN, Transcribed(r, fails)
      PROVE  SessionLetGo'
  BY <1>13 DEF Transcribed, SessionAfter, Proc, Row, Without
<1>14. ASSUME NEW r \in Runs, Processed(r)
      PROVE  SessionLetGo'
  BY <1>14 DEF Processed, Proc, Row
<1>15. ASSUME NEW r \in Runs, ProcessCloses(r)
      PROVE  SessionLetGo'
  BY <1>15 DEF ProcessCloses, Proc, Present, ReleaseSlot, FreeSlot
<1>16. ASSUME NEW r \in Runs, RetryCommit(r)
      PROVE  SessionLetGo'
  BY <1>16 DEF RetryCommit, Row, Retry
<1>17. ASSUME NEW r \in Runs, RetryRefused(r)
      PROVE  SessionLetGo'
  BY <1>17 DEF RetryRefused, Retry
<1>18. ASSUME NEW r \in Runs, RetryLaunched(r)
      PROVE  SessionLetGo'
  BY <1>18 DEF RetryLaunched, Retry
<1>19. ASSUME NEW r \in Runs, RetryReturns(r)
      PROVE  SessionLetGo'
  BY <1>19 DEF RetryReturns, ReleaseSlot, Retry, Row, FreeSlot
<1>20. ASSUME NEW r \in Runs, Stop(r)
      PROVE  SessionLetGo'
  BY <1>20 DEF Stop, Mic, ReleaseSlot, FreeSlot
<1>21. ASSUME NEW r \in Runs, CancelTask(r)
      PROVE  SessionLetGo'
  BY <1>21 DEF CancelTask, HasTask, Use, Mic, Without, ReleaseSlot, FreeSlot
<1>22. ASSUME NEW r \in Runs, CancelRow(r)
      PROVE  SessionLetGo'
  BY <1>22 DEF CancelRow, HasTask, Present, Use
<1>23. ASSUME NEW r \in Runs, Delete(r)
      PROVE  SessionLetGo'
  BY <1>23 DEF Delete, Present, Use, Abort, Invalidate, HasTask, FreeSlot
<1>24. ASSUME NEW r \in Runs, RetryBegins(r)
      PROVE  SessionLetGo'
  BY <1>24 DEF RetryBegins, Use, Retry
<1>25. ASSUME NEW r \in Runs, RecordingFails(r)
      PROVE  SessionLetGo'
  BY <1>25 DEF RecordingFails, Mic, Without, Row, Proc
<1>26. ASSUME NEW r \in Runs, CancelCommit(r)
      PROVE  SessionLetGo'
  BY <1>26 DEF CancelCommit, Present, Row
<1>27. CASE DeleteAll
  BY <1>27 DEF DeleteAll, Present, Use, Abort, Invalidate, HasTask, FreeSlot
<1>28. CASE DeleteCommit
  BY <1>28 DEF DeleteCommit, Present
<1>29. CASE DeleteAllReturns
  BY <1>29 DEF DeleteAllReturns, Abort, Invalidate, HasTask, FreeSlot
<1> QED
  BY <1>1, <1>2, <1>3, <1>4, <1>5, <1>6, <1>7, <1>8, <1>9, <1>10, <1>11, <1>12,
         <1>13, <1>14, <1>15, <1>16, <1>17, <1>18, <1>19, <1>20, <1>21, <1>22,
         <1>23, <1>24, <1>25, <1>26, <1>27, <1>28, <1>29
  DEF SlotNext, User, StartStep, ProcessStep, RetryStep

\* history_delete and history_delete_all stop what they delete (abort,
\* _raise_if_aborted).
LEMMA OrphansStoppedStep ==
    ASSUME SlotTypeOK, StartsFirst, OrphansStopped, SlotNext
    PROVE  OrphansStopped'
<1> USE SlotAssumption DEF SlotConstantsOK, SlotTypeOK, StartsFirst,
       OrphansStopped, Finished, SlotBudgets, InStart, ownerVars, flagVars,
       atVars, devices, requests, commandVars, procRest, retryRest
<1>1. ASSUME NEW q \in Requests, NEW r \in Runs, StartCommand(q, r)
      PROVE  OrphansStopped'
  BY <1>1 DEF StartCommand, Asked, Use, StartAt
<1>2. ASSUME NEW r \in Runs, StartFault(r)
      PROVE  OrphansStopped'
  BY <1>2 DEF StartFault, Use, StartRaises, StartAt, Mic, Without,
         FreeAfterFailure, AnswerRequest, FreeSlot
<1>3. ASSUME NEW r \in Runs, StartAborted(r)
      PROVE  OrphansStopped'
  BY <1>3 DEF StartAborted, StartRaises, StartAt, Mic, Without,
         FreeAfterFailure, AnswerRequest, FreeSlot
<1>4. ASSUME NEW r \in Runs, DestinationCaptured(r)
      PROVE  OrphansStopped'
  BY <1>4 DEF DestinationCaptured, StartGoesOn, StartAt
<1>5. ASSUME NEW r \in Runs, CreateRun(r)
      PROVE  OrphansStopped'
  BY <1>5 DEF CreateRun, StartAt, Present, Row, NewStatus
<1>6. ASSUME NEW r \in Runs, RunCreated(r)
      PROVE  OrphansStopped'
  BY <1>6 DEF RunCreated, StartGoesOn, StartAt
<1>7. ASSUME NEW r \in Runs, StartSucceeds(r)
      PROVE  OrphansStopped'
  BY <1>7 DEF StartSucceeds, MicFree, StartAt, Proc, Mic, AnswerRequest,
         Remembered
<1>8. ASSUME NEW r \in Runs, OpenFails(r)
      PROVE  OrphansStopped'
  BY <1>8 DEF OpenFails, MicFree, Use, StartAt
<1>9. ASSUME NEW r \in Runs, FailWritten(r)
      PROVE  OrphansStopped'
  BY <1>9 DEF FailWritten, Row, StartRaises, StartAt, Mic, Without,
         FreeAfterFailure, AnswerRequest, FreeSlot
<1>10. ASSUME NEW r \in Runs, RecordingEnds(r)
      PROVE  OrphansStopped'
  BY <1>10 DEF RecordingEnds, Proc
<1>11. ASSUME NEW r \in Runs, StopWritten(r)
      PROVE  OrphansStopped'
  BY <1>11 DEF StopWritten, Row, Proc, Present, Without
<1>12. ASSUME NEW r \in Runs, CancelWritten(r)
      PROVE  OrphansStopped'
  BY <1>12 DEF CancelWritten, Row, Proc
<1>13. ASSUME NEW r \in Runs, NEW fails \in BOOLEAN, Transcribed(r, fails)
      PROVE  OrphansStopped'
  BY <1>13 DEF Transcribed, SessionAfter, Proc, Row, Without
<1>14. ASSUME NEW r \in Runs, Processed(r)
      PROVE  OrphansStopped'
  BY <1>14 DEF Processed, Proc, Row
<1>15. ASSUME NEW r \in Runs, ProcessCloses(r)
      PROVE  OrphansStopped'
  BY <1>15 DEF ProcessCloses, Proc, Present, ReleaseSlot, FreeSlot
<1>16. ASSUME NEW r \in Runs, RetryCommit(r)
      PROVE  OrphansStopped'
  BY <1>16 DEF RetryCommit, Row, Retry
<1>17. ASSUME NEW r \in Runs, RetryRefused(r)
      PROVE  OrphansStopped'
  BY <1>17 DEF RetryRefused, Retry
<1>18. ASSUME NEW r \in Runs, RetryLaunched(r)
      PROVE  OrphansStopped'
  BY <1>18 DEF RetryLaunched, Retry
<1>19. ASSUME NEW r \in Runs, RetryReturns(r)
      PROVE  OrphansStopped'
  BY <1>19 DEF RetryReturns, ReleaseSlot, Retry, Row, FreeSlot
<1>20. ASSUME NEW r \in Runs, Stop(r)
      PROVE  OrphansStopped'
  BY <1>20 DEF Stop, HasCapture, Mic, ReleaseSlot, FreeSlot
<1>21. ASSUME NEW r \in Runs, CancelTask(r)
      PROVE  OrphansStopped'
  BY <1>21 DEF CancelTask, HasTask, Use, Mic, HasCapture, HasSession, Without,
         ReleaseSlot, FreeSlot
<1>22. ASSUME NEW r \in Runs, CancelRow(r)
      PROVE  OrphansStopped'
  BY <1>22 DEF CancelRow, HasTask, Present, Use, HasSession, HasCapture
<1>23. ASSUME NEW r \in Runs, Delete(r)
      PROVE  OrphansStopped'
  BY <1>23 DEF Delete, Present, Use, Abort, Invalidate, HasTask, HasCapture,
         FreeSlot, HasSession
<1>24. ASSUME NEW r \in Runs, RetryBegins(r)
      PROVE  OrphansStopped'
  BY <1>24 DEF RetryBegins, Use, Retry
<1>25. ASSUME NEW r \in Runs, RecordingFails(r)
      PROVE  OrphansStopped'
  BY <1>25 DEF RecordingFails, Mic, Without, Row, Proc
<1>26. ASSUME NEW r \in Runs, CancelCommit(r)
      PROVE  OrphansStopped'
  BY <1>26 DEF CancelCommit, Present, Row
<1>27. CASE DeleteAll
  BY <1>27 DEF DeleteAll, Present, Use, Abort, Invalidate, HasTask, HasCapture,
         FreeSlot, HasSession
<1>28. CASE DeleteCommit
  BY <1>28 DEF DeleteCommit, Present
<1>29. CASE DeleteAllReturns
  BY <1>29 DEF DeleteAllReturns, Abort, Invalidate, HasTask, HasCapture,
         FreeSlot, HasSession
<1> QED
  BY <1>1, <1>2, <1>3, <1>4, <1>5, <1>6, <1>7, <1>8, <1>9, <1>10, <1>11, <1>12,
         <1>13, <1>14, <1>15, <1>16, <1>17, <1>18, <1>19, <1>20, <1>21, <1>22,
         <1>23, <1>24, <1>25, <1>26, <1>27, <1>28, <1>29
  DEF SlotNext, User, StartStep, ProcessStep, RetryStep

\* The answer of a request is kept until it is withdrawn (RunCommands).
LEMMA AnswersKeptStep ==
    ASSUME SlotTypeOK, StartsFirst, AnswersKept, SlotNext
    PROVE  AnswersKept'
<1> USE SlotAssumption DEF SlotConstantsOK, SlotTypeOK, StartsFirst,
       AnswersKept, Finished, SlotBudgets, InStart, AnsweredOnce, ownerVars,
       flagVars, atVars, devices, requests, commandVars, procRest, retryRest
<1>1. ASSUME NEW q \in Requests, NEW r \in Runs, StartCommand(q, r)
      PROVE  AnswersKept'
  BY <1>1 DEF StartCommand, Asked, Use, StartAt
<1>2. ASSUME NEW r \in Runs, StartFault(r)
      PROVE  AnswersKept'
  BY <1>2 DEF StartFault, Use, StartRaises, StartAt, Mic, Without,
         FreeAfterFailure, AnswerRequest, FreeSlot
<1>3. ASSUME NEW r \in Runs, StartAborted(r)
      PROVE  AnswersKept'
  BY <1>3 DEF StartAborted, StartRaises, StartAt, Mic, Without,
         FreeAfterFailure, AnswerRequest, FreeSlot
<1>4. ASSUME NEW r \in Runs, DestinationCaptured(r)
      PROVE  AnswersKept'
  BY <1>4 DEF DestinationCaptured, StartGoesOn, StartAt
<1>5. ASSUME NEW r \in Runs, CreateRun(r)
      PROVE  AnswersKept'
  BY <1>5 DEF CreateRun, StartAt, Present, Row, NewStatus
<1>6. ASSUME NEW r \in Runs, RunCreated(r)
      PROVE  AnswersKept'
  BY <1>6 DEF RunCreated, StartGoesOn, StartAt
<1>7. ASSUME NEW r \in Runs, StartSucceeds(r)
      PROVE  AnswersKept'
  BY <1>7 DEF StartSucceeds, MicFree, StartAt, Proc, Mic, AnswerRequest,
         Remembered
<1>8. ASSUME NEW r \in Runs, OpenFails(r)
      PROVE  AnswersKept'
  BY <1>8 DEF OpenFails, MicFree, Use, StartAt
<1>9. ASSUME NEW r \in Runs, FailWritten(r)
      PROVE  AnswersKept'
  BY <1>9 DEF FailWritten, Row, StartRaises, StartAt, Mic, Without,
         FreeAfterFailure, AnswerRequest, FreeSlot
<1>10. ASSUME NEW r \in Runs, RecordingEnds(r)
      PROVE  AnswersKept'
  BY <1>10 DEF RecordingEnds, Proc
<1>11. ASSUME NEW r \in Runs, StopWritten(r)
      PROVE  AnswersKept'
  BY <1>11 DEF StopWritten, Row, Proc, Present, Without
<1>12. ASSUME NEW r \in Runs, CancelWritten(r)
      PROVE  AnswersKept'
  BY <1>12 DEF CancelWritten, Row, Proc
<1>13. ASSUME NEW r \in Runs, NEW fails \in BOOLEAN, Transcribed(r, fails)
      PROVE  AnswersKept'
  BY <1>13 DEF Transcribed, SessionAfter, Proc, Row, Without
<1>14. ASSUME NEW r \in Runs, Processed(r)
      PROVE  AnswersKept'
  BY <1>14 DEF Processed, Proc, Row
<1>15. ASSUME NEW r \in Runs, ProcessCloses(r)
      PROVE  AnswersKept'
  BY <1>15 DEF ProcessCloses, Proc, Present, ReleaseSlot, FreeSlot
<1>16. ASSUME NEW r \in Runs, RetryCommit(r)
      PROVE  AnswersKept'
  BY <1>16 DEF RetryCommit, Row, Retry
<1>17. ASSUME NEW r \in Runs, RetryRefused(r)
      PROVE  AnswersKept'
  BY <1>17 DEF RetryRefused, Retry
<1>18. ASSUME NEW r \in Runs, RetryLaunched(r)
      PROVE  AnswersKept'
  BY <1>18 DEF RetryLaunched, Retry
<1>19. ASSUME NEW r \in Runs, RetryReturns(r)
      PROVE  AnswersKept'
  BY <1>19 DEF RetryReturns, ReleaseSlot, Retry, Row, FreeSlot
<1>20. ASSUME NEW r \in Runs, Stop(r)
      PROVE  AnswersKept'
  BY <1>20 DEF Stop, HasCapture, Mic, ReleaseSlot, FreeSlot
<1>21. ASSUME NEW r \in Runs, CancelTask(r)
      PROVE  AnswersKept'
  BY <1>21 DEF CancelTask, HasTask, Use, Mic, HasCapture, HasSession, Without,
         ReleaseSlot, FreeSlot
<1>22. ASSUME NEW r \in Runs, CancelRow(r)
      PROVE  AnswersKept'
  BY <1>22 DEF CancelRow, HasTask, Present, Use, HasSession, HasCapture
<1>23. ASSUME NEW r \in Runs, Delete(r)
      PROVE  AnswersKept'
  BY <1>23 DEF Delete, Present, Use, Abort, Invalidate, HasTask, HasCapture,
         FreeSlot, HasSession
<1>24. ASSUME NEW r \in Runs, RetryBegins(r)
      PROVE  AnswersKept'
  BY <1>24 DEF RetryBegins, Use, Retry
<1>25. ASSUME NEW r \in Runs, RecordingFails(r)
      PROVE  AnswersKept'
  BY <1>25 DEF RecordingFails, Mic, Without, Row, Proc
<1>26. ASSUME NEW r \in Runs, CancelCommit(r)
      PROVE  AnswersKept'
  BY <1>26 DEF CancelCommit, Present, Row
<1>27. CASE DeleteAll
  BY <1>27 DEF DeleteAll, Present, Use, Abort, Invalidate, HasTask, HasCapture,
         FreeSlot, HasSession
<1>28. CASE DeleteCommit
  BY <1>28 DEF DeleteCommit, Present
<1>29. CASE DeleteAllReturns
  BY <1>29 DEF DeleteAllReturns, Abort, Invalidate, HasTask, HasCapture,
         FreeSlot, HasSession
<1> QED
  BY <1>1, <1>2, <1>3, <1>4, <1>5, <1>6, <1>7, <1>8, <1>9, <1>10, <1>11, <1>12,
         <1>13, <1>14, <1>15, <1>16, <1>17, <1>18, <1>19, <1>20, <1>21, <1>22,
         <1>23, <1>24, <1>25, <1>26, <1>27, <1>28, <1>29
  DEF SlotNext, User, StartStep, ProcessStep, RetryStep

-----------------------------------------------------------------------------
(* The theorems. *)

\* The inductive invariant holds from the start and through every step.
THEOREM SlotInvAlways == SlotSpec => []SlotInv
<1>1. SlotInit => SlotInv
  <2> SUFFICES ASSUME SlotInit
               PROVE  SlotInv
    OBVIOUS
  <2> USE SlotAssumption DEF SlotInit, SlotConstantsOK, SlotBudgets, InStart
  <2>1. SlotTypeOK
    BY DEF SlotTypeOK
  <2>2. StartsFirst /\ NothingAborted
    BY DEF StartsFirst, NothingAborted
  <2>3. OneOwner
    BY DEF OneOwner, TakersWait, OneTaker, SlotTaken, Taker
  <2>4. OneRunEach /\ SessionLetGo
    BY DEF OneRunEach, SessionLetGo, HasSession, HasCapture
  <2>5. OrphansStopped
    BY DEF OrphansStopped
  <2>6. AnswersKept
    BY DEF AnswersKept, AnsweredOnce
  <2> QED
    BY <2>1, <2>2, <2>3, <2>4, <2>5, <2>6 DEF SlotInv
<1>2. SlotInv /\ [SlotNext]_slotVars => SlotInv'
  <2> SUFFICES ASSUME SlotInv, [SlotNext]_slotVars
               PROVE  SlotInv'
    OBVIOUS
  <2>1. CASE SlotNext
    BY <2>1, SlotTypeStep, StartsFirstStep, NothingAbortedStep, OneOwnerStep,
       OneRunEachStep, SessionLetGoStep, OrphansStoppedStep, AnswersKeptStep
       DEF SlotInv
  <2>2. CASE UNCHANGED slotVars
    BY <2>2
       DEF slotVars, ownerVars, flagVars, atVars, devices, requests,
           commandVars, SlotInv, SlotTypeOK, StartsFirst, NothingAborted,
           OneOwner, Plain, TakersWait, OneTaker, SlotTaken, Taker, InStart,
           HasTask, HasSession, HasCapture, OneRunEach, SessionLetGo,
           OrphansStopped, AnswersKept, AnsweredOnce
  <2> QED
    BY <2>1, <2>2
<1> QED
  BY <1>1, <1>2, PTL DEF SlotSpec

\* The slot does not leak, the open microphone belongs to the active run, and
\* the STT session to a run whose task gives it back, for any number of runs
\* (run_controller.py start, stop, cancel, recover, _process).
THEOREM SlotIsAlwaysOwned == SlotSpec => []SlotIsOwned
<1>1. SlotInv => SlotIsOwned
  <2> SUFFICES ASSUME SlotInv, used["deletes"] = 0
               PROVE  /\ used["early"] = 0 => SlotHasOwner /\ OpenMicIsActive
                      /\ used["repeats"] = 0 => SessionHasProcess
    BY DEF SlotIsOwned
  <2>1. used["repeats"] = 0 => SessionHasProcess
    BY DEF SlotInv, SessionLetGo, SessionHasProcess
  <2>2. ASSUME used["early"] = 0
        PROVE  SlotHasOwner /\ OpenMicIsActive
    <3>1. TakersWait /\ SlotTaken
      BY <2>2 DEF SlotInv, OneOwner, Plain
    <3>2. active \in Runs \cup {NoRun}
      BY DEF SlotInv, SlotTypeOK
    <3> QED
      BY <3>1, <3>2
         DEF TakersWait, SlotTaken, SlotHasOwner, OpenMicIsActive, Owns, Taker
  <2> QED
    BY <2>1, <2>2
<1> QED
  BY <1>1, SlotInvAlways, PTL

\* A run that was deleted does not record, wherever its start had come to when
\* it was deleted (WO-M4c).
THEOREM DeletedNeverRecords == SlotSpec => []NeverOrphaned
<1>1. SlotInv => NeverOrphaned
  BY DEF SlotInv, OrphansStopped, NeverOrphaned
<1> QED
  BY <1>1, SlotInvAlways, PTL

\* A request that was answered with a run never starts another one, however
\* often it is delivered and whatever is deleted meanwhile (RunCommands).
THEOREM AnsweredOnlyOnce == SlotSpec => []AnsweredOnce
<1>1. SlotInv => AnsweredOnce
  BY DEF SlotInv, AnswersKept
<1> QED
  BY <1>1, SlotInvAlways, PTL

-----------------------------------------------------------------------------
(* The audio device. *)

\* A capture whose stream has been told to stop lets the stream and the lease
\* go while the loop waits for it, and never has them again; the token and the
\* lease go together; and a block is only copied while there is a stream.
CapturesLetGo ==
    \A c \in Captures :
      /\ consumer[c] \in {"unused", "refused"} =>
           stream[c] = "none" /\ flags[c] = {} /\ busy # c
      /\ Has(c, "token") <=> lease = c
      /\ stream[c] # "none" => lease = c
      /\ callback[c] = "copying" => stream[c] # "none"
      /\ Has(c, "cancelled") \/ busy = c => Has(c, "stopped")
      /\ Has(c, "stopped") => busy = c \/ (stream[c] = "none" /\ lease # c)
      /\ consumer[c] = "ended" => lease # c
      /\ consumer[c] = "raised" => Has(c, "stopped")

\* A test that holds the microphone is the current one, and one that is over
\* does not hold it.
TestsLetGo ==
    /\ \A c \in Tests :
         /\ consumer[c] \in {"unused", "refused"} => pump[c] = "none"
         /\ pump[c] = "failed" => consumer[c] = "raised"
         /\ pump[c] = "done" => lease # c
    /\ TestIsStoppable

MicInv == MicTypeOK /\ CapturesLetGo /\ TestsLetGo

\* A step of one capture.
CaptureStep(c) ==
    \/ Open(c) \/ OpenRefused(c) \/ StopCapture(c) \/ CancelCapture(c)
    \/ Consume(c) \/ Executor(c) \/ PutBlock(c) \/ Audio(c)

\* Every step is a step of one capture, or moves none.
LEMMA StepsOfCaptures ==
    ASSUME MicTypeOK, MicNext
    PROVE  (\E c \in Captures : CaptureStep(c)) \/ UNCHANGED capture
<1> USE MicAssumption DEF MicConstantsOK, CaptureStep
<1>1. CASE TestStop
  BY <1>1 DEF TestStop, TestRunning, MicTypeOK
<1>2. ASSUME NEW c \in Captures, TestTimer(c)
      PROVE  CaptureStep(c) \/ UNCHANGED capture
  BY <1>2 DEF TestTimer
<1>3. ASSUME NEW c \in Captures, TestStart(c) \/ TestStartGoesOn(c)
      PROVE  CaptureStep(c)
  BY <1>3 DEF TestStart, TestStartGoesOn, NewTest
<1>4. ASSUME NEW c \in Captures, Recording(c) \/ Threads(c) \/ Audio(c)
      PROVE  CaptureStep(c)
  BY <1>4 DEF Recording, Threads
<1>5. ASSUME NEW c \in Captures, TestFails(c) \/ TestDone(c)
      PROVE  CaptureStep(c) \/ UNCHANGED capture
  BY <1>5 DEF TestFails, TestDone
<1>6. CASE TestStartWaits \/ TestStartGivesUp
  BY <1>6 DEF TestStartWaits, TestStartGivesUp
<1> QED
  BY <1>1, <1>2, <1>3, <1>4, <1>5, <1>6 DEF MicNext, Pump

\* A step of a capture keeps its types; the queue never outgrows its limit
\* (_enqueue).
LEMMA CaptureTypeStep ==
    ASSUME NEW c \in Captures, CaptureStep(c), CaptureTypeOK
    PROVE  CaptureTypeOK'
<1> USE MicAssumption DEF MicConstantsOK, CaptureConstantsOK, Flags,
       ConsumerStates, LoopFree, Has, Terminal, SetFlags, Consumer, Freed,
       Close, callbackRest, Finish, GoesOn, CaptureTypeOK
<1>1. CASE Open(c)
  BY <1>1 DEF Open
<1>2. CASE OpenRefused(c)
  BY <1>2 DEF OpenRefused
<1>3. CASE StopCapture(c)
  BY <1>3 DEF StopCapture
<1>4. CASE CancelCapture(c)
  BY <1>4 DEF CancelCapture
<1>5. CASE Closed(c)
  BY <1>5 DEF Closed
<1>6. CASE Look(c)
  BY <1>6 DEF Look
<1>7. CASE ResumeEmpty(c)
  BY <1>7 DEF ResumeEmpty
<1>8. CASE ResumeBlock(c)
  BY <1>8 DEF ResumeBlock
<1>9. CASE TakeBlock(c)
  BY <1>9 DEF TakeBlock
<1>10. CASE TakeTimesOut(c)
  BY <1>10 DEF TakeTimesOut
<1>11. CASE PutBlock(c)
  BY <1>11 DEF PutBlock
<1>12. CASE BlockArrives(c)
  BY <1>12 DEF BlockArrives
<1>13. CASE StatusReport(c)
  BY <1>13 DEF StatusReport
<1>14. CASE StreamFinishes(c)
  BY <1>14 DEF StreamFinishes
<1> QED
  BY <1>1, <1>2, <1>3, <1>4, <1>5, <1>6, <1>7, <1>8, <1>9, <1>10, <1>11, <1>12,
         <1>13, <1>14
  DEF CaptureStep, Consume, Executor, Audio

\* Closing a stream gives up the lease, on every path (stop, cancel, chunks).
LEMMA CapturesLetGoStep ==
    ASSUME NEW c \in Captures, CaptureStep(c), CaptureTypeOK, CapturesLetGo
    PROVE  CapturesLetGo'
<1> USE MicAssumption DEF MicConstantsOK, CaptureConstantsOK, Flags,
       ConsumerStates, LoopFree, Has, Terminal, SetFlags, Consumer, Freed,
       Close, callbackRest, Finish, GoesOn, CaptureTypeOK, CapturesLetGo
<1>1. CASE Open(c)
  BY <1>1 DEF Open
<1>2. CASE OpenRefused(c)
  BY <1>2 DEF OpenRefused
<1>3. CASE StopCapture(c)
  BY <1>3 DEF StopCapture
<1>4. CASE CancelCapture(c)
  BY <1>4 DEF CancelCapture
<1>5. CASE Closed(c)
  BY <1>5 DEF Closed
<1>6. CASE Look(c)
  BY <1>6 DEF Look
<1>7. CASE ResumeEmpty(c)
  BY <1>7 DEF ResumeEmpty
<1>8. CASE ResumeBlock(c)
  BY <1>8 DEF ResumeBlock
<1>9. CASE TakeBlock(c)
  BY <1>9 DEF TakeBlock
<1>10. CASE TakeTimesOut(c)
  BY <1>10 DEF TakeTimesOut
<1>11. CASE PutBlock(c)
  BY <1>11 DEF PutBlock
<1>12. CASE BlockArrives(c)
  BY <1>12 DEF BlockArrives
<1>13. CASE StatusReport(c)
  BY <1>13 DEF StatusReport
<1>14. CASE StreamFinishes(c)
  BY <1>14 DEF StreamFinishes
<1> QED
  BY <1>1, <1>2, <1>3, <1>4, <1>5, <1>6, <1>7, <1>8, <1>9, <1>10, <1>11, <1>12,
         <1>13, <1>14
  DEF CaptureStep, Consume, Executor, Audio

\* The fields of the microphone test keep their types.
LEMMA TestTypesStep ==
    ASSUME MicTypeOK, CaptureTypeOK', MicNext
    PROVE  MicTypeOK'
<1> USE MicAssumption DEF MicConstantsOK, CaptureConstantsOK, MicTypeOK,
       micTest, Recordings
<1>1. ASSUME NEW c \in Captures, Recording(c)
      PROVE  MicTypeOK'
  BY <1>1 DEF Recording, Open, OpenRefused, StopCapture, CancelCapture,
         LoopFree, SetFlags, Consumer, Close, Has
<1>2. ASSUME NEW c \in Captures, Threads(c)
      PROVE  MicTypeOK'
  BY <1>2 DEF Threads, Consume, Executor, PutBlock, Look, ResumeEmpty,
         ResumeBlock, Closed, TakeBlock, TakeTimesOut, SetFlags, callbackRest,
         LoopFree, Has, Consumer, Freed, Terminal, Finish, GoesOn
<1>3. ASSUME NEW c \in Captures, Audio(c) /\ UNCHANGED micTest
      PROVE  MicTypeOK'
  BY <1>3 DEF Audio, BlockArrives, StatusReport, StreamFinishes, Has,
         callbackRest, SetFlags
<1>4. ASSUME NEW c \in Captures, TestStart(c)
      PROVE  MicTypeOK'
  BY <1>4 DEF TestStart, TestRunning, NewTest, Open, OpenRefused, Cleared,
         LoopFree, SetFlags, Consumer
<1>5. ASSUME NEW c \in Captures, TestStartGoesOn(c)
      PROVE  MicTypeOK'
  BY <1>5 DEF TestStartGoesOn, NewTest, Open, OpenRefused, Cleared, LoopFree,
         SetFlags, Consumer, TestRunning
<1>6. ASSUME NEW c \in Captures, TestTimer(c)
      PROVE  MicTypeOK'
  BY <1>6 DEF TestTimer, Over, LoopFree, capture, StopCapture, Close, SetFlags
<1>7. ASSUME NEW c \in Captures, TestFails(c)
      PROVE  MicTypeOK'
  BY <1>7 DEF TestFails, CancelCapture, LoopFree, Has, Close, SetFlags
<1>8. ASSUME NEW c \in Captures, TestDone(c)
      PROVE  MicTypeOK'
  BY <1>8 DEF TestDone, LoopFree, ClearedBy, capture
<1>9. CASE TestStop
  BY <1>9 DEF TestStop, TestRunning, StopCapture, LoopFree, Close, SetFlags
<1>10. CASE TestStartWaits
  BY <1>10 DEF TestStartWaits, LoopFree, TestRunning, CaptureStopped, capture
<1>11. CASE TestStartGivesUp
  BY <1>11 DEF TestStartGivesUp, LoopFree, capture
<1> QED
  BY <1>1, <1>2, <1>3, <1>4, <1>5, <1>6, <1>7, <1>8, <1>9, <1>10, <1>11
  DEF MicNext, Pump

\* A test is cleared when it is over and not before (_pump, _clear_finished).
LEMMA TestsLetGoStep ==
    ASSUME MicTypeOK, CapturesLetGo, TestsLetGo, MicNext
    PROVE  TestsLetGo'
<1> USE MicAssumption DEF MicConstantsOK, CaptureConstantsOK, Flags,
       ConsumerStates, LoopFree, Has, Terminal, SetFlags, Consumer, Freed,
       Close, callbackRest, Finish, GoesOn, CaptureTypeOK, MicTypeOK,
       TestsLetGo, TestIsStoppable, TestRunning, Recordings, micTest,
       CapturesLetGo, capture
<1>1. ASSUME NEW c \in Captures, Recording(c)
      PROVE  TestsLetGo'
  BY <1>1 DEF Recording, Open, OpenRefused, StopCapture, CancelCapture
<1>2. ASSUME NEW c \in Captures, Threads(c)
      PROVE  TestsLetGo'
  <2>1. /\ lease' \in {lease, NoCapture}
        /\ \A t \in Captures :
             \/ consumer'[t] = consumer[t]
             \/ /\ consumer[t] \notin {"unused", "refused", "raised"}
                /\ consumer'[t] \notin {"unused", "refused"}
    <3>1. CASE Look(c)
      BY <3>1 DEF Look
    <3>2. CASE ResumeEmpty(c)
      BY <3>2 DEF ResumeEmpty
    <3>3. CASE ResumeBlock(c)
      BY <3>3 DEF ResumeBlock
    <3>4. CASE Closed(c) \/ PutBlock(c)
      BY <3>4 DEF Closed, PutBlock
    <3>5. CASE Executor(c)
      BY <3>5 DEF Executor, TakeBlock, TakeTimesOut
    <3> QED
      BY <1>2, <3>1, <3>2, <3>3, <3>4, <3>5 DEF Threads, Consume
  <2> QED
    BY <1>2, <2>1 DEF Threads
<1>3. ASSUME NEW c \in Captures, Audio(c) /\ UNCHANGED micTest
      PROVE  TestsLetGo'
  BY <1>3 DEF Audio, BlockArrives, StatusReport, StreamFinishes
<1>4. ASSUME NEW c \in Captures, TestStart(c)
      PROVE  TestsLetGo'
  BY <1>4 DEF TestStart, NewTest, Open, OpenRefused, Cleared
<1>5. ASSUME NEW c \in Captures, TestStartGoesOn(c)
      PROVE  TestsLetGo'
  BY <1>5 DEF TestStartGoesOn, NewTest, Open, OpenRefused, Cleared
<1>6. ASSUME NEW c \in Captures, TestTimer(c)
      PROVE  TestsLetGo'
  BY <1>6 DEF TestTimer, Over, StopCapture
<1>7. ASSUME NEW c \in Captures, TestFails(c)
      PROVE  TestsLetGo'
  BY <1>7 DEF TestFails, CancelCapture
<1>8. ASSUME NEW c \in Captures, TestDone(c)
      PROVE  TestsLetGo'
  BY <1>8 DEF TestDone, ClearedBy
<1>9. CASE TestStop
  BY <1>9 DEF TestStop, StopCapture
<1>10. CASE TestStartWaits
  BY <1>10 DEF TestStartWaits, CaptureStopped
<1>11. CASE TestStartGivesUp
  BY <1>11 DEF TestStartGivesUp
<1> QED
  BY <1>1, <1>2, <1>3, <1>4, <1>5, <1>6, <1>7, <1>8, <1>9, <1>10, <1>11
  DEF MicNext, Pump

-----------------------------------------------------------------------------
\* The inductive invariant holds from the start and through every step.
THEOREM MicInvAlways == MicSpec => []MicInv
<1>1. MicInit => MicInv
  BY MicAssumption
     DEF MicInit, CaptureInit, MicInv, MicTypeOK, CaptureTypeOK, CapturesLetGo,
         TestsLetGo, TestIsStoppable, Has, Flags, ConsumerStates,
         MicConstantsOK, CaptureConstantsOK
<1>2. ASSUME MicInv, [MicNext]_micVars
      PROVE  MicInv'
  <2>1. CASE MicNext
    <3>1. ASSUME UNCHANGED capture
          PROVE  CaptureTypeOK' /\ CapturesLetGo'
      BY <1>2, <3>1
         DEF MicInv, MicTypeOK, CaptureTypeOK, CapturesLetGo, Has, capture
    <3>2. CaptureTypeOK' /\ CapturesLetGo'
      BY <1>2, <2>1, <3>1, StepsOfCaptures, CaptureTypeStep, CapturesLetGoStep
         DEF MicInv, MicTypeOK
    <3> QED
      BY <1>2, <2>1, <3>2, TestTypesStep, TestsLetGoStep DEF MicInv
  <2>2. CASE UNCHANGED micVars
    BY <1>2, <2>2
       DEF micVars, capture, micTest, MicInv, MicTypeOK, CaptureTypeOK,
           CapturesLetGo, TestsLetGo, TestIsStoppable, Has
  <2> QED
    BY <1>2, <2>1, <2>2
<1> QED
  BY <1>1, <1>2, PTL DEF MicSpec

\* Two captures never read the microphone at once, mic_test_stop reaches the
\* test that holds it, and a closed capture accepts nothing more, for any
\* number of recordings and tests and any queue (capture.py, AudioCommands).
THEOREM MicrophoneIsAlwaysOwned == MicSpec => MicrophoneIsOwned
<1>1. MicInv => StreamHasLease /\ TestIsStoppable
  BY DEF MicInv, CapturesLetGo, TestsLetGo, StreamHasLease
<1>2. MicInv /\ [MicNext]_micVars => [AcceptsWhileOpen]_micVars
  <2> SUFFICES ASSUME MicInv, MicNext, NEW c \in Captures,
                      queued'[c] > queued[c]
               PROVE  stream[c] # "none"
    BY DEF AcceptsWhileOpen
  <2> USE DEF MicInv, MicTypeOK, CaptureTypeOK
  <2>1. queued' # queued
    BY DEF MicInv
  <2>2. PICK d \in Captures : CaptureStep(d)
    BY <2>1, StepsOfCaptures DEF capture
  <2>3. CASE PutBlock(d)
    BY <2>3 DEF PutBlock, CapturesLetGo
  <2>4. CASE Closed(d) \/ TakeBlock(d)
    BY <2>4 DEF Closed, TakeBlock
  <2>5. CASE Open(d) \/ OpenRefused(d) \/ StopCapture(d) \/ CancelCapture(d)
    BY <2>1, <2>5 DEF Open, OpenRefused, StopCapture, CancelCapture, Close
  <2>6. CASE Look(d) \/ ResumeEmpty(d) \/ ResumeBlock(d)
    BY <2>1, <2>6 DEF Look, ResumeEmpty, ResumeBlock, Finish, GoesOn
  <2>7. CASE TakeTimesOut(d) \/ Audio(d)
    BY <2>1, <2>7 DEF TakeTimesOut, Audio, BlockArrives, StatusReport,
                      StreamFinishes, callbackRest
  <2> QED
    BY <2>2, <2>3, <2>4, <2>5, <2>6, <2>7
       DEF CaptureStep, Consume, Executor
<1> QED
  BY <1>1, <1>2, MicInvAlways, PTL DEF MicSpec, MicrophoneIsOwned

-----------------------------------------------------------------------------
(* The shortcuts. *)

\* A hold is what was posted last; only the hold mode has one.
HoldIsPosted == (holding <=> last = "start") /\ (holding => mode = "hold")

\* Until a new service takes over, the only dictation key that is down is known
\* to be down.
PressIsKnown ==
    keysUsed["rebuilds"] = 0 /\ OneDictationKey =>
      \A k \in held : NameOf[k] = DictateBy.key => DictateBy.key \in pressed

KeysInv ==
    /\ KeysTypeOK /\ ModifiersCounted /\ HoldingKeysDown /\ HoldIsPosted
    /\ PressIsKnown

\* What posting none, one or two callbacks does to the queue and to the last
\* of them.
LEMMA PostedNone ==
    ASSUME KeysTypeOK, Post(<< >>)
    PROVE  posted' = posted /\ last' = last
BY DEF KeysTypeOK, Post

\* One callback.
LEMMA PostedOne ==
    ASSUME KeysTypeOK, NEW c \in {"start", "stop", "toggle", "cancel"},
           Post(<<c>>)
    PROVE  /\ posted' \in Seq({"start", "stop", "toggle", "cancel"})
           /\ last' = c
<1>1. Len(<<c>>) = 1
  OBVIOUS
<1>3. Len(<< >>) = 0
  OBVIOUS
<1>4. <<c>>[1] = c
  OBVIOUS
<1>2. <<c>> \in Seq({"start", "stop", "toggle", "cancel"})
  OBVIOUS
<1> QED
  BY <1>1, <1>2, <1>3, <1>4 DEF KeysTypeOK, Post

\* A shortcut that starts and cancels.
LEMMA PostedTwo ==
    ASSUME KeysTypeOK, NEW c \in {"start", "toggle"},
           Post(<<c>> \o <<"cancel">>)
    PROVE  /\ posted' \in Seq({"start", "stop", "toggle", "cancel"})
           /\ last' = "cancel"
<1> DEFINE S == {"start", "stop", "toggle", "cancel"}
           both == <<c>> \o <<"cancel">>
<1>1. <<c>> \in Seq(S) /\ <<"cancel">> \in Seq(S)
  OBVIOUS
<1>2. Len(<<c>>) = 1 /\ Len(<<"cancel">>) = 1 /\ <<"cancel">>[1] = "cancel"
  OBVIOUS
<1>3. both \in Seq(S) /\ Len(both) = 2 /\ both[2] = "cancel"
  BY <1>1, <1>2, ConcatProperties
<1>4. Len(<< >>) = 0
  OBVIOUS
<1> QED
  BY <1>3, <1>4 DEF KeysTypeOK, Post

\* A key that goes down, as the service handles it.
LEMMA DownHandled ==
    ASSUME KeysTypeOK, HoldingKeysDown, HoldIsPosted,
           NEW k \in Keys, HandleDown(NameOf[k])
    PROVE  /\ UNCHANGED mode
           /\ Tracked(NameOf[k]) => pressed' = pressed \cup {NameOf[k]}
           /\ ~Tracked(NameOf[k]) => pressed' = pressed
           /\ toggled' # toggled =>
                NameOf[k] = DictateBy.key /\ NameOf[k] \notin pressed
           /\ posted' \in Seq({"start", "stop", "toggle", "cancel"})
           /\ holding' \in BOOLEAN /\ toggled' \in BOOLEAN
           /\ armed' \in BOOLEAN
           /\ last' \in {"none", "start", "stop", "toggle", "cancel"}
           /\ HoldingKeysDown' /\ HoldIsPosted'
           /\ last' \in {"start", "stop"} /\ last' # last => last' = "start"
           /\ last' = last /\ last \in {"start", "stop"} => posted' = posted
<1> DEFINE name == NameOf[k]
           names == pressed \cup {name}
           fires == name = DictateBy.key /\ armed /\ Matches(DictateBy, names)
           cancels == /\ name = CancelBy.key
                      /\ CancelBy.modifiers = {} \/ Matches(CancelBy, names)
<1>1. CASE ~Tracked(name) \/ Repeated(name)
  BY <1>1 DEF HandleDown, Repeated, service, keyState, KeysTypeOK,
              HoldingKeysDown, HoldIsPosted
<1>2. CASE Tracked(name) /\ name \notin pressed
  <2>1. /\ pressed' = names /\ mode' = mode
        /\ armed' = (armed /\ ~fires)
        /\ holding' = (mode = "hold" /\ (holding \/ fires) /\ ~cancels)
        /\ toggled' = (toggled # (mode = "toggle" /\ fires))
        /\ Post((IF fires THEN FirePosts ELSE << >>)
                \o (IF cancels THEN <<"cancel">> ELSE << >>))
    BY <1>2 DEF HandleDown, Repeated
  <2>2. fires => ~holding
    BY <1>2 DEF HoldingKeysDown
  <2> HIDE DEF fires, cancels
  <2>3. CASE ~fires /\ ~cancels
    <3>1. << >> \o << >> = << >>
      OBVIOUS
    <3>2. posted' = posted /\ last' = last
      BY <2>1, <2>3, <3>1, PostedNone
    <3> QED
      BY <1>2, <2>1, <2>3, <3>2 DEF KeysTypeOK, HoldingKeysDown, HoldIsPosted
  <2>4. CASE cancels
    <3>1. /\ posted' \in Seq({"start", "stop", "toggle", "cancel"})
          /\ last' = "cancel"
      <4>1. CASE ~fires
        <5>1. << >> \o <<"cancel">> = <<"cancel">>
          OBVIOUS
        <5> QED
          BY <2>1, <2>4, <4>1, <5>1, PostedOne
      <4>2. CASE fires
        <5>1. FirePosts = <<"toggle">> \/ FirePosts = <<"start">>
          BY <2>2, <4>2 DEF FirePosts
        <5> QED
          BY <2>1, <2>4, <4>2, <5>1, PostedTwo
      <4> QED
        BY <4>1, <4>2
    <3> QED
      BY <1>2, <2>1, <2>4, <3>1
         DEF KeysTypeOK, HoldingKeysDown, HoldIsPosted, fires
  <2>5. CASE fires /\ ~cancels
    <3>1. \/ mode = "toggle" /\ FirePosts = <<"toggle">>
          \/ mode = "hold" /\ FirePosts = <<"start">>
      BY <2>2, <2>5 DEF FirePosts, KeysTypeOK, Modes
    <3>2. /\ posted' \in Seq({"start", "stop", "toggle", "cancel"})
          /\ last' = IF mode = "hold" THEN "start" ELSE "toggle"
      <4>1. /\ <<"toggle">> \o << >> = <<"toggle">>
            /\ <<"start">> \o << >> = <<"start">>
        OBVIOUS
      <4> QED
        BY <2>1, <2>5, <3>1, <4>1, PostedOne
    <3>3. names \cap Modifiers = DictateBy.modifiers /\ name = DictateBy.key
      BY <2>5 DEF fires, Matches
    <3> QED
      BY <1>2, <2>1, <2>2, <2>5, <3>1, <3>2, <3>3
         DEF KeysTypeOK, HoldingKeysDown, HoldIsPosted
  <2> QED
    BY <2>3, <2>4, <2>5
<1> QED
  BY <1>1, <1>2 DEF Repeated

\* A key that comes up, as the service handles it.
LEMMA UpHandled ==
    ASSUME KeysTypeOK, HoldingKeysDown, HoldIsPosted,
           NEW k \in Keys, HandleUp(NameOf[k])
    PROVE  /\ UNCHANGED <<mode, toggled>>
           /\ pressed' = pressed \ {NameOf[k]}
           /\ posted' \in Seq({"start", "stop", "toggle", "cancel"})
           /\ holding' \in BOOLEAN /\ armed' \in BOOLEAN
           /\ last' \in {"none", "start", "stop", "toggle", "cancel"}
           /\ HoldingKeysDown' /\ HoldIsPosted'
           /\ last' # last => last' = "stop" /\ last = "start"
           /\ last' = last => posted' = posted
<1> DEFINE name == NameOf[k]
           ends == mode = "hold" /\ holding /\ EndsHold(name)
<1>1. CASE name \notin pressed
  BY <1>1 DEF HandleUp, service, keyState, KeysTypeOK, HoldingKeysDown,
              HoldIsPosted
<1>2. CASE name \in pressed
  <2>1. /\ pressed' = pressed \ {name} /\ UNCHANGED <<mode, toggled>>
        /\ armed' = (armed \/ name = DictateBy.key)
        /\ holding' = (holding /\ ~ends)
        /\ Post(IF ends THEN <<"stop">> ELSE << >>)
    BY <1>2 DEF HandleUp
  <2>2. CASE ends
    <3>1. /\ posted' \in Seq({"start", "stop", "toggle", "cancel"})
          /\ last' = "stop"
      BY <2>1, <2>2, PostedOne
    <3> QED
      BY <2>1, <2>2, <3>1 DEF KeysTypeOK, HoldingKeysDown, HoldIsPosted
  <2>3. CASE ~ends
    <3>1. posted' = posted /\ last' = last
      BY <2>1, <2>3, PostedNone
    <3> QED
      BY <2>1, <2>3, <3>1
         DEF KeysTypeOK, HoldingKeysDown, HoldIsPosted, EndsHold
  <2> QED
    BY <2>2, <2>3
<1> QED
  BY <1>1, <1>2

\* A key the listener reports down: the sides of a modifier are one key, and
\* the dictation key is known to be down.
LEMMA DownReported ==
    ASSUME KeysInv, NEW k \in Keys, ReportDown(k)
    PROVE  /\ UNCHANGED mode
           /\ down' \subseteq {j \in Keys : NameOf[j] \in Modifiers}
           /\ pressed' \subseteq {NameOf[j] : j \in Keys}
           /\ pressed \subseteq pressed'
           /\ NameOf[k] = DictateBy.key => DictateBy.key \in pressed'
           /\ toggled' # toggled =>
                NameOf[k] = DictateBy.key /\ DictateBy.key \notin pressed
           /\ posted' \in Seq({"start", "stop", "toggle", "cancel"})
           /\ holding' \in BOOLEAN /\ toggled' \in BOOLEAN
           /\ armed' \in BOOLEAN
           /\ last' \in {"none", "start", "stop", "toggle", "cancel"}
           /\ ModifiersCounted' /\ HoldingKeysDown' /\ HoldIsPosted'
           /\ last' \in {"start", "stop"} /\ last' # last => last' = "start"
           /\ last' = last /\ last \in {"start", "stop"} => posted' = posted
<1> USE KeysAssumption DEF KeysConstantsOK, KeysInv, Tracked
<1>1. CASE NameOf[k] \notin Modifiers
  <2>1. HandleDown(NameOf[k]) /\ down' = down
    BY <1>1 DEF ReportDown
  <2> QED
    BY <1>1, <2>1, DownHandled DEF KeysTypeOK, ModifiersCounted
<1>2. CASE NameOf[k] \in Modifiers /\ (k \in down \/ OtherSideDown(k))
  <2>1. down' = down \cup {k} /\ Unhandled
    BY <1>2 DEF ReportDown
  <2>2. NameOf[k] # DictateBy.key
    BY <1>2
  <2>3. {NameOf[j] : j \in down'} = {NameOf[j] : j \in down}
    BY <1>2, <2>1 DEF OtherSideDown
  <2> QED
    BY <1>2, <2>1, <2>2, <2>3
       DEF Unhandled, service, keyState, KeysTypeOK, ModifiersCounted,
           HoldingKeysDown, HoldIsPosted
<1>3. CASE NameOf[k] \in Modifiers /\ k \notin down /\ ~OtherSideDown(k)
  <2>1. down' = down \cup {k} /\ HandleDown(NameOf[k])
    BY <1>3 DEF ReportDown
  <2>2. pressed' = pressed \cup {NameOf[k]}
    BY <1>3, <2>1, DownHandled
  <2>3. ModifiersCounted'
    BY <1>3, <2>1, <2>2 DEF ModifiersCounted
  <2> QED
    BY <1>3, <2>1, <2>2, <2>3, DownHandled DEF KeysTypeOK
<1> QED
  BY <1>1, <1>2, <1>3

\* A key the listener reports up.
LEMMA UpReported ==
    ASSUME KeysInv, NEW k \in Keys, ReportUp(k)
    PROVE  /\ UNCHANGED <<mode, toggled>>
           /\ down' \subseteq {j \in Keys : NameOf[j] \in Modifiers}
           /\ pressed \ {NameOf[k]} \subseteq pressed'
           /\ pressed' \subseteq pressed
           /\ posted' \in Seq({"start", "stop", "toggle", "cancel"})
           /\ holding' \in BOOLEAN /\ armed' \in BOOLEAN
           /\ last' \in {"none", "start", "stop", "toggle", "cancel"}
           /\ ModifiersCounted' /\ HoldingKeysDown' /\ HoldIsPosted'
           /\ last' # last => last' = "stop" /\ last = "start"
           /\ last' = last => posted' = posted
<1> USE KeysAssumption DEF KeysConstantsOK, KeysInv
<1>1. CASE NameOf[k] \notin Modifiers
  <2>1. HandleUp(NameOf[k]) /\ down' = down
    BY <1>1 DEF ReportUp
  <2> QED
    BY <1>1, <2>1, UpHandled DEF KeysTypeOK, ModifiersCounted
<1>2. CASE NameOf[k] \in Modifiers /\ (k \notin down \/ OtherSideDown(k))
  <2>1. down' = down \ {k} /\ Unhandled
    BY <1>2 DEF ReportUp
  <2>2. {NameOf[j] : j \in down'} = {NameOf[j] : j \in down}
    BY <1>2, <2>1 DEF OtherSideDown
  <2> QED
    BY <1>2, <2>1, <2>2
       DEF Unhandled, service, keyState, KeysTypeOK, ModifiersCounted,
           HoldingKeysDown, HoldIsPosted
<1>3. CASE NameOf[k] \in Modifiers /\ k \in down /\ ~OtherSideDown(k)
  <2>1. down' = down \ {k} /\ HandleUp(NameOf[k])
    BY <1>3 DEF ReportUp
  <2>2. pressed' = pressed \ {NameOf[k]}
    BY <1>3, <2>1, UpHandled
  <2>3. {NameOf[j] : j \in down'} = {NameOf[j] : j \in down} \ {NameOf[k]}
    BY <1>3, <2>1 DEF OtherSideDown
  <2>4. ModifiersCounted'
    BY <1>3, <2>2, <2>3 DEF ModifiersCounted
  <2> QED
    BY <1>3, <2>1, <2>2, <2>4, UpHandled DEF KeysTypeOK
<1> QED
  BY <1>1, <1>2, <1>3

\* A new service stops the hold of the old one.
LEMMA Rebuilt ==
    ASSUME KeysInv, Rebuild
    PROVE  /\ posted' \in Seq({"start", "stop", "toggle", "cancel"})
           /\ last' # last => last' = "stop" /\ last = "start"
           /\ last' = last => posted' = posted
           /\ last' # "start"
           /\ last' \in {"none", "start", "stop", "toggle", "cancel"}
<1>1. CASE holding
  <2>1. ResetPosts = <<"stop">> /\ last = "start"
    BY <1>1 DEF KeysInv, HoldIsPosted, ResetPosts
  <2> QED
    BY <2>1, PostedOne DEF Rebuild, KeysInv, KeysTypeOK
<1>2. CASE ~holding
  <2>1. ResetPosts = << >> /\ last # "start"
    BY <1>2 DEF KeysInv, HoldIsPosted, ResetPosts
  <2> QED
    BY <2>1, PostedNone DEF Rebuild, KeysInv, KeysTypeOK
<1> QED
  BY <1>1, <1>2

\* A counted step of the environment.
LEMMA UsesTyped ==
    ASSUME KeysTypeOK, NEW u \in KeyBudgets, UseKeys(u)
    PROVE  /\ keysUsed' \in [KeyBudgets -> Nat]
           /\ u # "rebuilds" => keysUsed'["rebuilds"] = keysUsed["rebuilds"]
           /\ u = "rebuilds" => keysUsed'["rebuilds"] # 0
BY DEF KeysTypeOK, UseKeys, KeyBudgets

\* The inductive invariant holds from the start and through every step.
LEMMA KeysInvStep ==
    ASSUME KeysInv, KeysNext
    PROVE  KeysInv'
<1> USE DEF KeysInv, PressIsKnown
<1>1. ASSUME NEW k \in Keys, Press(k) \/ AutoRepeat(k)
      PROVE  KeysInv'
  <2>1. /\ ReportDown(k) /\ held' \in {held, held \cup {k}}
        /\ UNCHANGED <<run, keysUsed>>
    BY <1>1 DEF Press, AutoRepeat
  <2> QED
    BY <2>1, DownReported DEF KeysTypeOK
<1>2. ASSUME NEW k \in Keys, Release(k)
      PROVE  KeysInv'
  <2>1. CASE ReportUp(k) /\ UNCHANGED keysUsed
    <3>1. KeysTypeOK'
      BY <1>2, <2>1, UpReported DEF Release, KeysTypeOK
    <3>2. PressIsKnown'
      <4> SUFFICES ASSUME keysUsed["rebuilds"] = 0, OneDictationKey,
                          NEW j \in held', NameOf[j] = DictateBy.key
                   PROVE  DictateBy.key \in pressed'
        BY <2>1 DEF OneDictationKey
      <4>1. j \in held /\ j # k /\ held \subseteq Keys
        BY <1>2 DEF Release, KeysTypeOK
      <4>2. NameOf[k] # DictateBy.key
        BY <4>1 DEF OneDictationKey
      <4> QED
        BY <2>1, <4>1, <4>2, UpReported
    <3> QED
      BY <2>1, <3>1, <3>2, UpReported
  <2>2. CASE UseKeys("lost") /\ UNCHANGED <<down, service, posted, last>>
    BY <1>2, <2>2, UsesTyped
       DEF Release, KeysTypeOK, service, keyState, KeyBudgets,
           ModifiersCounted, HoldingKeysDown, HoldIsPosted, OneDictationKey
  <2> QED
    BY <1>2, <2>1, <2>2 DEF Release
<1>3. CASE Rebuild
  BY <1>3, Rebuilt, UsesTyped
     DEF Rebuild, KeysTypeOK, KeyBudgets, ModifiersCounted, HoldingKeysDown,
         HoldIsPosted, OneDictationKey
<1>4. CASE Deliver
  <2>1. Tail(posted) \in Seq({"start", "stop", "toggle", "cancel"})
    BY <1>4 DEF Deliver, KeysTypeOK
  <2>2. run' \in {"idle", "starting", "recording"}
    BY <1>4 DEF Deliver, After, Started, Ended, KeysTypeOK
  <2> QED
    BY <1>4, <2>1, <2>2
       DEF Deliver, KeysTypeOK, service, keyState, ModifiersCounted,
           HoldingKeysDown, HoldIsPosted, OneDictationKey
<1>5. CASE StartReturns
  BY <1>5 DEF StartReturns, KeysTypeOK, service, keyState, ModifiersCounted,
              HoldingKeysDown, HoldIsPosted, OneDictationKey
<1>6. CASE EndsOtherwise
  BY <1>6, UsesTyped
     DEF EndsOtherwise, KeysTypeOK, service, keyState, KeyBudgets,
         ModifiersCounted, HoldingKeysDown, HoldIsPosted, OneDictationKey
<1> QED
  BY <1>1, <1>2, <1>3, <1>4, <1>5, <1>6 DEF KeysNext

\* What a step posts and what it toggles.
LEMMA KeysPostInTurn ==
    ASSUME KeysInv, KeysNext
    PROVE  StartOrStopInTurn /\ FiresOnPress
<1> USE DEF StartOrStopInTurn, FiresOnPress
<1>1. ASSUME NEW k \in Keys, Press(k) \/ AutoRepeat(k)
      PROVE  StartOrStopInTurn /\ FiresOnPress
  <2>1. ReportDown(k) /\ UNCHANGED keysUsed
    BY <1>1 DEF Press, AutoRepeat
  <2>2. StartOrStopInTurn
    BY <2>1, DownReported
  <2>3. FiresOnPress
    <3>1. CASE Press(k)
      BY <3>1 DEF Press
    <3>2. CASE AutoRepeat(k)
      BY <2>1, <3>2, DownReported DEF AutoRepeat, KeysInv, PressIsKnown
    <3> QED
      BY <1>1, <3>1, <3>2
  <2> QED
    BY <2>2, <2>3
<1>2. ASSUME NEW k \in Keys, Release(k)
      PROVE  StartOrStopInTurn /\ FiresOnPress
  BY <1>2, UpReported DEF Release, service, keyState
<1>3. CASE Rebuild
  <2>1. StartOrStopInTurn
    BY <1>3, PostedOne, PostedNone
       DEF Rebuild, ResetPosts, KeysInv, HoldIsPosted, KeysTypeOK
  <2>2. FiresOnPress
    BY <1>3, UsesTyped DEF Rebuild, KeysInv, KeyBudgets
  <2> QED
    BY <2>1, <2>2
<1>4. CASE Deliver
  <2>1. Len(Tail(posted)) <= Len(posted) /\ Len(posted) \in Nat
    BY <1>4 DEF Deliver, KeysInv, KeysTypeOK
  <2> QED
    BY <1>4, <2>1 DEF Deliver, service, keyState, KeysInv, KeysTypeOK
<1>5. CASE StartReturns \/ EndsOtherwise
  BY <1>5 DEF StartReturns, EndsOtherwise, service, keyState
<1> QED
  BY <1>1, <1>2, <1>3, <1>4, <1>5 DEF KeysNext

\* The service, its listener and what they posted agree in every reachable
\* state (HotkeyService, PynputListener).
THEOREM KeysInvAlways == KeysSpec => []KeysInv
<1>1. ASSUME KeysInit
      PROVE  KeysInv
  <2>1. << >> \in Seq({"start", "stop", "toggle", "cancel"})
    OBVIOUS
  <2>2. KeysTypeOK
    BY <1>1, <2>1 DEF KeysInit, KeysTypeOK, KeyBudgets, Modes
  <2>3. ModifiersCounted
    BY <1>1 DEF KeysInit, ModifiersCounted
  <2>4. HoldingKeysDown /\ HoldIsPosted /\ PressIsKnown
    BY <1>1 DEF KeysInit, HoldingKeysDown, HoldIsPosted, PressIsKnown
  <2> QED
    BY <2>2, <2>3, <2>4 DEF KeysInv
<1>2. KeysInv /\ UNCHANGED keyVars => KeysInv'
  BY DEF keyVars, service, keyState, KeysInv, KeysTypeOK, ModifiersCounted,
         HoldingKeysDown, HoldIsPosted, PressIsKnown, OneDictationKey
<1> QED
  BY <1>1, <1>2, KeysInvStep, PTL DEF KeysSpec

\* A hold lasts exactly as long as its keys are down, starts and stops are
\* posted in turn, and auto-repeat never toggles, for any keyboard, any two
\* shortcuts and any changes of the mode (HotkeyService, PynputListener).
THEOREM ShortcutsAreAlwaysFollowed == KeysSpec => ShortcutsAreFollowed
<1>1. KeysInv => HoldingKeysDown /\ ModifiersCounted
  BY DEF KeysInv
<1>2. KeysInv /\ [KeysNext]_keyVars
        => [StartOrStopInTurn /\ FiresOnPress]_keyVars
  BY KeysPostInTurn
<1> QED
  BY <1>1, <1>2, KeysInvAlways, PTL DEF KeysSpec, ShortcutsAreFollowed

=============================================================================
