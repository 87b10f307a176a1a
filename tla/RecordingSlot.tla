---------------------------- MODULE RecordingSlot ----------------------------
(***************************************************************************)
(* The single recording slot of RunController: start, stop, cancel, abort, *)
(* the retry of a transcription, and the recording half of _process, with  *)
(* the request bookkeeping of RunCommands in front of start and the one    *)
(* session of OpenRouterWhisper behind it.  Every await of start and of    *)
(* recover is a state of its own: what other commands do in between is     *)
(* what this module is about.                                              *)
(*                                                                         *)
(*   slot, active    _slot_reserved and _active_run_id                     *)
(*   starting, aborted, cancelled   _starting, _aborted, _cancel_flags     *)
(*   startAt, proc, retry   where start, _process and the retry of a run   *)
(*                   are; the entries of _captures, _sessions and _tasks   *)
(*                   are determined by proc and retry                      *)
(*   mic             the capture of a run; session is the run whose STT    *)
(*                   session is the active one                             *)
(*   row             the row's status, "absent" before and "deleted" after *)
(*   request         the request that asked for a run                      *)
(*   pending, dedupe, invalidated, invalidatedRuns   of RunCommands        *)
(*   cancelling, deleting   commands between their first step and their    *)
(*                   write; doomed holds runs deleted by history_delete_all*)
(*                   that it has not aborted yet                           *)
(*   used            steps counted against Limits                          *)
(***************************************************************************)
EXTENDS Naturals, FiniteSets

CONSTANTS Runs, NoRun, Requests, Limits

SlotBudgets == {"repeats", "faults", "cancels", "deletes", "retries", "early"}

\* Runs and requests are numbered in the order in which they come.
SlotConstantsOK ==
    /\ Runs \cup Requests \subseteq Nat /\ NoRun \notin Runs \cup Requests
    /\ Limits \in [SlotBudgets -> Nat]
ASSUME SlotAssumption == SlotConstantsOK

VARIABLES slot, active, starting, aborted, cancelled, startAt, proc, retry,
          mic, session, row, request, pending, dedupe, invalidated,
          invalidatedRuns, cancelling, deleting, doomed, used

ownerVars == <<slot, active>>
flagVars == <<starting, aborted, cancelled>>
atVars == <<startAt, proc, retry>>
devices == <<mic, session>>
requests == <<request, pending, dedupe, invalidated, invalidatedRuns>>
commandVars == <<cancelling, deleting, doomed>>
slotVars == <<ownerVars, flagVars, atVars, devices, row, requests,
              commandVars, used>>

Use(k) == used[k] < Limits[k] /\ used' = [used EXCEPT ![k] = @ + 1]

Present(r) == row[r] \notin {"absent", "deleted"}
Finished == {"done", "error", "cancelled"}
HasCapture(r) ==
    proc[r] \in {"recording", "stopping", "cancelling", "transcribing",
                 "processing"}
HasSession(r) == HasCapture(r) \/ proc[r] = "closing"
HasTask(r) == HasSession(r) \/ retry[r] = "transcribing"
InStart(r) ==
    startAt[r] \in {"destination", "creating", "created", "dictionary",
                    "failing"}

StartAt(r, at) == startAt' = [startAt EXCEPT ![r] = at]
Proc(r, at) == proc' = [proc EXCEPT ![r] = at]
Mic(r, state) == mic' = [mic EXCEPT ![r] = state]
Row(r, status) == row' = [row EXCEPT ![r] = status]

FreeSlot == slot' = FALSE /\ active' = NoRun
\* Mutants: the id is cleared and the slot is not; whoever ends frees the slot.
KeepsReserved(r) ==
    IF active = r THEN active' = NoRun /\ UNCHANGED slot
                  ELSE UNCHANGED ownerVars
FreesAny(r) == FreeSlot
\* _release_slot, and the same two lines in stop, cancel and _process.
ReleaseSlot(r) == IF active = r THEN FreeSlot ELSE UNCHANGED ownerVars
Without(r, owner) == IF owner = r THEN NoRun ELSE owner

-----------------------------------------------------------------------------
(* RunCommands._start and RunController.start. *)

\* A start of this request has failed before, or its run was deleted.
Asked(q) == \E r \in Runs : request[r] = q

\* A request that is new, up to the first await of start.  One that is
\* invalidated, answered or pending changes nothing: it is refused, gets the
\* same answer, or waits for it.
StartCommand(q, r) ==
    /\ q \notin invalidated /\ dedupe[q] = NoRun /\ pending[q] = NoRun
    /\ startAt[r] = "none"
    /\ \A s \in Runs : s < r => startAt[s] # "none"
    /\ \A p \in Requests : p < q => Asked(p)
    /\ ~slot
    /\ IF Asked(q) THEN Use("repeats") ELSE UNCHANGED used
    /\ slot' = TRUE
    /\ starting' = starting \cup {r}
    /\ StartAt(r, "destination")
    /\ request' = [request EXCEPT ![r] = q]
    /\ pending' = [pending EXCEPT ![q] = r]
    /\ UNCHANGED <<active, aborted, cancelled, proc, retry, devices, row,
                   dedupe, invalidated, invalidatedRuns, commandVars>>

\* Mutant: the future of a request stays pending.
StaysPending(q) == UNCHANGED pending
AnswerRequest(q) == pending' = [pending EXCEPT ![q] = NoRun]

\* Mutant: the answer is not remembered.
Forgotten(q, r) == UNCHANGED dedupe
Remembered(q, r) == dedupe' = [dedupe EXCEPT ![q] = r]

\* The end of the except clause: the slot goes back unless another run has it.
FreeAfterFailure(r) ==
    IF active \in {r, NoRun} THEN FreeSlot ELSE UNCHANGED ownerVars

\* The except clause, and the future of the request with it.
StartRaises(r) ==
    /\ StartAt(r, "raised")
    /\ Mic(r, IF mic[r] = "none" THEN "none" ELSE "cancelled")
    /\ session' = Without(r, session)
    /\ starting' = starting \ {r}
    /\ aborted' = aborted \ {r}
    /\ FreeAfterFailure(r)
    /\ AnswerRequest(request[r])
    /\ UNCHANGED <<cancelled, proc, retry, request, dedupe, invalidated,
                   invalidatedRuns, commandVars>>

\* capture_destination, create_run or the dictionary fails.
StartFault(r) ==
    /\ startAt[r] \in {"destination", "creating", "dictionary"}
    /\ Use("faults")
    /\ StartRaises(r)
    /\ UNCHANGED row

\* _raise_if_aborted, after each await.
StartAborted(r) ==
    /\ startAt[r] \in {"destination", "created", "dictionary"}
    /\ r \in aborted
    /\ StartRaises(r)
    /\ UNCHANGED <<row, used>>

StartGoesOn(r, from, to) ==
    /\ startAt[r] = from
    /\ r \notin aborted
    /\ StartAt(r, to)
    /\ UNCHANGED <<ownerVars, flagVars, proc, retry, devices, requests,
                   commandVars, used>>

DestinationCaptured(r) ==
    StartGoesOn(r, "destination", "creating") /\ UNCHANGED row

NewStatus == "recording"

\* The transaction of create_run: a request that has a row gets that row.
CreateRun(r) ==
    /\ startAt[r] = "creating"
    /\ StartAt(r, "created")
    /\ IF \E s \in Runs : Present(s) /\ request[s] = request[r]
       THEN UNCHANGED row
       ELSE Row(r, NewStatus)
    /\ UNCHANGED <<ownerVars, flagVars, proc, retry, devices, requests,
                   commandVars, used>>

RunCreated(r) == StartGoesOn(r, "created", "dictionary") /\ UNCHANGED row

MicFree == \A r \in Runs : mic[r] # "open"

\* Everything after the dictionary up to the return, without an await.
StartSucceeds(r) ==
    /\ startAt[r] = "dictionary" /\ r \notin aborted
    /\ MicFree /\ session = NoRun
    /\ StartAt(r, "running")
    /\ Proc(r, "recording")
    /\ Mic(r, "open")
    /\ session' = r
    /\ active' = r
    /\ cancelled' = cancelled \ {r}
    /\ starting' = starting \ {r}
    /\ AnswerRequest(request[r])
    /\ IF r \in invalidatedRuns
       THEN invalidated' = invalidated \cup {request[r]} /\ UNCHANGED dedupe
       ELSE Remembered(request[r], r) /\ UNCHANGED invalidated
    /\ UNCHANGED <<slot, aborted, retry, row, request, invalidatedRuns,
                   commandVars, used>>

\* The device lease is held, the session of an earlier run is active, or the
\* microphone fails: what was opened is cancelled, and the run is to fail.
OpenFails(r) ==
    /\ startAt[r] = "dictionary" /\ r \notin aborted
    /\ \/ (~MicFree \/ session # NoRun) /\ UNCHANGED used
       \/ MicFree /\ session = NoRun /\ Use("faults")
    /\ StartAt(r, "failing")
    /\ UNCHANGED <<ownerVars, flagVars, proc, retry, devices, row, requests,
                   commandVars>>

\* update_run(FAIL), which needs the row as it was created, and the re-raise.
FailWritten(r) ==
    /\ startAt[r] = "failing"
    /\ IF row[r] = "recording" THEN Row(r, "error") ELSE UNCHANGED row
    /\ StartRaises(r)
    /\ UNCHANGED used

-----------------------------------------------------------------------------
(* stop, cancel, abort and the deletions of HistoryCommands. *)

Stop(r) ==
    /\ HasCapture(r)
    /\ mic[r] = "open" \/ active = r
    /\ Mic(r, IF mic[r] = "open" THEN "stopped" ELSE mic[r])
    /\ ReleaseSlot(r)
    /\ UNCHANGED <<flagVars, atVars, session, row, requests, commandVars, used>>

\* cancel of a run with a live task; a retry keeps the slot until it returns.
CancelTask(r) ==
    /\ HasTask(r)
    /\ r \notin cancelled
    /\ Use("cancels")
    /\ cancelled' = cancelled \cup {r}
    /\ Mic(r, IF HasCapture(r) THEN "cancelled" ELSE mic[r])
    /\ session' = IF HasSession(r) THEN Without(r, session) ELSE session
    /\ IF retry[r] = "transcribing"
       THEN UNCHANGED ownerVars ELSE ReleaseSlot(r)
    /\ UNCHANGED <<starting, aborted, atVars, row, requests, commandVars>>

\* cancel of a run without one: the write waits for the gate and the record.
CancelRow(r) ==
    /\ ~HasTask(r) /\ Present(r)
    /\ Use("cancels")
    /\ cancelled' = cancelled \cup {r}
    /\ cancelling' = cancelling \cup {r}
    /\ UNCHANGED <<ownerVars, starting, aborted, atVars, devices, row,
                   requests, deleting, doomed>>
CancelCommit(r) ==
    /\ r \in cancelling
    /\ IF Present(r) /\ row[r] \notin Finished
       THEN Row(r, "cancelled") ELSE UNCHANGED row
    /\ cancelled' = cancelled \ {r}
    /\ cancelling' = cancelling \ {r}
    /\ UNCHANGED <<ownerVars, starting, aborted, atVars, devices, requests,
                   deleting, doomed, used>>

\* Mutant: abort only notes a run whose start is under way.
AbortOnlyStarting(set) ==
    LET hit == set \cap starting
    IN /\ aborted' = aborted \cup hit
       /\ starting' = starting \ hit
       /\ IF hit # {} /\ active = NoRun THEN FreeSlot ELSE UNCHANGED ownerVars
       /\ UNCHANGED <<mic, session>>
\* abort of each run in set; runs without work are left alone.
Abort(set) ==
    LET hit == {r \in set : HasTask(r) \/ r \in starting}
        owner == active \in hit /\ retry[active] # "transcribing"
    IN /\ aborted' = aborted \cup hit
       /\ starting' = starting \ hit
       /\ mic' = [r \in Runs |-> IF r \in hit /\ HasCapture(r)
                                 THEN "cancelled" ELSE mic[r]]
       /\ session' = IF session \in hit THEN NoRun ELSE session
       /\ IF owner \/ (active = NoRun /\ hit \cap starting # {})
          THEN FreeSlot ELSE UNCHANGED ownerVars

\* RunCommands.invalidate of each run in set.
Invalidate(set) ==
    LET hit == {q \in Requests : dedupe[q] \in set}
    IN /\ invalidatedRuns' = invalidatedRuns \cup set
       /\ invalidated' = invalidated \cup hit
       /\ dedupe' = [q \in Requests |-> IF q \in hit THEN NoRun ELSE dedupe[q]]
       /\ UNCHANGED <<request, pending>>

\* history_delete: abort and invalidate, then the transaction.
Delete(r) ==
    /\ Present(r)
    /\ deleting = {} /\ doomed = {}
    /\ Use("deletes")
    /\ Abort({r}) /\ Invalidate({r})
    /\ deleting' = {r}
    /\ UNCHANGED <<cancelled, atVars, row, cancelling, doomed>>

\* history_delete_all: every run there is, then the transaction, ...
DeleteAll ==
    LET all == {r \in Runs : Present(r)}
    IN /\ deleting = {} /\ doomed = {}
       /\ Use("deletes")
       /\ Abort(all) /\ Invalidate(all)
       /\ deleting' = Runs
       /\ UNCHANGED <<cancelled, atVars, row, cancelling, doomed>>

DeleteCommit ==
    /\ deleting # {}
    /\ row' = [r \in Runs |-> IF r \in deleting /\ Present(r)
                              THEN "deleted" ELSE row[r]]
    /\ doomed' = IF deleting = Runs THEN {r \in Runs : Present(r)} ELSE {}
    /\ deleting' = {}
    /\ UNCHANGED <<ownerVars, flagVars, atVars, devices, requests, cancelling,
                   used>>

\* ... and what it deleted once more.
DeleteAllReturns ==
    /\ doomed # {}
    /\ Abort(doomed) /\ Invalidate(doomed)
    /\ doomed' = {}
    /\ UNCHANGED <<cancelled, atVars, row, cancelling, deleting, used>>

-----------------------------------------------------------------------------
(* _process: the recording, its stop and its transcription. *)

procRest == <<starting, aborted, startAt, retry, requests, commandVars, used>>

\* The capture has ended and its queue has drained.
RecordingEnds(r) ==
    /\ proc[r] = "recording"
    /\ mic[r] \in {"stopped", "cancelled"}
    /\ \/ r \in aborted /\ Proc(r, "closing")
       \/ r \in cancelled /\ Proc(r, "cancelling")
       \/ r \notin cancelled /\ Proc(r, "stopping")
    /\ UNCHANGED <<ownerVars, cancelled, devices, row, procRest>>

\* The device is lost, or a chunk cannot be written: _process fails.
RecordingFails(r) ==
    /\ proc[r] = "recording"
    /\ mic[r] = "open"
    /\ Mic(r, "cancelled")
    /\ session' = Without(r, session)
    /\ IF row[r] = "recording" THEN Row(r, "error") ELSE UNCHANGED row
    /\ Proc(r, "closing")
    /\ UNCHANGED <<ownerVars, cancelled, procRest>>

\* The transition to processing.  A row that is gone ends the task as it is; a
\* row that is over fails it, and then the session is cancelled.
StopWritten(r) ==
    /\ proc[r] = "stopping"
    /\ IF row[r] = "recording"
       THEN /\ Row(r, "processing")
            /\ Proc(r, IF r \in aborted THEN "closing"
                       ELSE IF r \in cancelled THEN "cancelling"
                       ELSE "transcribing")
            /\ UNCHANGED session
       ELSE /\ UNCHANGED row
            /\ Proc(r, "closing")
            /\ session' = IF Present(r) THEN Without(r, session) ELSE session
    /\ UNCHANGED <<ownerVars, cancelled, mic, procRest>>

CancelWritten(r) ==
    /\ proc[r] = "cancelling"
    /\ IF row[r] \in {"recording", "processing"}
       THEN Row(r, "cancelled") ELSE UNCHANGED row
    /\ Proc(r, "closing")
    /\ UNCHANGED <<ownerVars, cancelled, devices, procRest>>

\* Mutant: a session that fails is not released.
KeepsSession(r, fails) == IF fails THEN session ELSE Without(r, session)
\* finish gives the session back, whatever the request returned.
SessionAfter(r, fails) == Without(r, session)

\* session.finish; a cancelled session raises.
Transcribed(r, fails) ==
    /\ proc[r] = "transcribing"
    /\ session' = SessionAfter(r, fails)
    /\ IF fails /\ r \notin aborted \cup cancelled
       THEN /\ Proc(r, "closing")
            /\ IF row[r] = "processing" THEN Row(r, "error") ELSE UNCHANGED row
       ELSE /\ Proc(r, IF r \in aborted THEN "closing"
                       ELSE IF r \in cancelled THEN "cancelling"
                       ELSE "processing")
            /\ UNCHANGED row
    /\ UNCHANGED <<ownerVars, cancelled, mic, procRest>>

\* The rest of the pipeline has no part in the slot (RunTasks models it).
Processed(r) ==
    /\ proc[r] = "processing"
    /\ IF r \in cancelled /\ r \notin aborted
       THEN Proc(r, "cancelling") /\ UNCHANGED row
       ELSE /\ Proc(r, "closing")
            /\ IF row[r] = "processing" THEN Row(r, "done") ELSE UNCHANGED row
    /\ UNCHANGED <<ownerVars, cancelled, devices, procRest>>

\* The finally clause after its await.
ProcessCloses(r) ==
    /\ proc[r] = "closing"
    /\ Proc(r, "over")
    /\ cancelled' = IF Present(r) /\ row[r] \notin Finished
                    THEN cancelled ELSE cancelled \ {r}
    /\ aborted' = aborted \ {r}
    /\ ReleaseSlot(r)
    /\ UNCHANGED <<starting, startAt, retry, devices, row, requests, commandVars,
                   used>>

-----------------------------------------------------------------------------
(* recover with retry_stt. *)

retryRest == <<starting, aborted, startAt, proc, devices, requests, commandVars>>
Retry(r, at) == retry' = [retry EXCEPT ![r] = at]

\* The slot is taken before the record is read, or shared with the run itself.
RetryBegins(r) ==
    /\ row[r] = "error" /\ retry[r] = "none"
    /\ IF slot THEN active = r /\ Use("early") ELSE Use("retries")
    /\ slot' = TRUE
    /\ Retry(r, IF slot THEN "sharing" ELSE "reading")
    /\ UNCHANGED <<active, cancelled, row, retryRest>>

\* update_run, and its return: only then the run is the active one.
RetryCommit(r) ==
    /\ retry[r] \in {"reading", "sharing"}
    /\ row[r] = "error"
    /\ Row(r, "processing")
    /\ Retry(r, "written")
    /\ UNCHANGED <<ownerVars, cancelled, used, retryRest>>

\* A missing record, a stale version, or a run without audio.
RetryRefused(r) ==
    /\ retry[r] \in {"reading", "sharing"}
    /\ slot' = (slot /\ retry[r] = "sharing")
    /\ Retry(r, "none")
    /\ UNCHANGED <<active, cancelled, row, used, retryRest>>

RetryLaunched(r) ==
    /\ retry[r] = "written"
    /\ active' = r
    /\ cancelled' = cancelled \ {r}
    /\ Retry(r, "transcribing")
    /\ UNCHANGED <<slot, row, used, retryRest>>

\* transcribe_file returns or raises, and what follows of the task.
RetryReturns(r) ==
    /\ retry[r] = "transcribing"
    /\ ReleaseSlot(r)
    /\ Retry(r, "none")
    /\ IF row[r] # "processing" THEN UNCHANGED row
       ELSE IF r \in cancelled \cup aborted THEN Row(r, "cancelled")
       ELSE Row(r, "done") \/ Row(r, "error")
    /\ cancelled' = cancelled \ {r}
    /\ UNCHANGED <<used, retryRest>>

-----------------------------------------------------------------------------
SlotInit ==
    /\ slot = FALSE /\ active = NoRun
    /\ starting = {} /\ aborted = {} /\ cancelled = {}
    /\ startAt = [r \in Runs |-> "none"]
    /\ proc = [r \in Runs |-> "none"]
    /\ retry = [r \in Runs |-> "none"]
    /\ mic = [r \in Runs |-> "none"] /\ session = NoRun
    /\ row = [r \in Runs |-> "absent"]
    /\ request = [r \in Runs |-> NoRun]
    /\ pending = [q \in Requests |-> NoRun]
    /\ dedupe = [q \in Requests |-> NoRun]
    /\ invalidated = {} /\ invalidatedRuns = {}
    /\ cancelling = {} /\ deleting = {} /\ doomed = {}
    /\ used = [k \in SlotBudgets |-> 0]

StartStep(r) ==
    \/ StartFault(r) \/ StartAborted(r) \/ DestinationCaptured(r)
    \/ CreateRun(r) \/ RunCreated(r) \/ StartSucceeds(r) \/ OpenFails(r)
    \/ FailWritten(r)
ProcessStep(r) ==
    \/ RecordingEnds(r) \/ StopWritten(r) \/ CancelWritten(r)
    \/ Transcribed(r, TRUE) \/ Transcribed(r, FALSE)
    \/ Processed(r) \/ ProcessCloses(r)
RetryStep(r) ==
    RetryCommit(r) \/ RetryRefused(r) \/ RetryLaunched(r) \/ RetryReturns(r)
User(r) ==
    \/ \E q \in Requests : StartCommand(q, r)
    \/ Stop(r) \/ CancelTask(r) \/ CancelRow(r) \/ Delete(r) \/ RetryBegins(r)

SlotNext ==
    \/ \E r \in Runs : \/ User(r) \/ StartStep(r) \/ ProcessStep(r)
                       \/ RetryStep(r) \/ RecordingFails(r) \/ CancelCommit(r)
    \/ DeleteAll \/ DeleteCommit \/ DeleteAllReturns

SlotSpec == SlotInit /\ [][SlotNext]_slotVars

-----------------------------------------------------------------------------
SlotTypeOK ==
    /\ slot \in BOOLEAN
    /\ active \in Runs \cup {NoRun} /\ session \in Runs \cup {NoRun}
    /\ starting \subseteq Runs /\ aborted \subseteq Runs
    /\ cancelled \subseteq Runs /\ invalidatedRuns \subseteq Runs
    /\ cancelling \subseteq Runs /\ deleting \subseteq Runs
    /\ doomed \subseteq Runs
    /\ startAt \in [Runs -> {"none", "destination", "creating", "created",
                             "dictionary", "failing", "running", "raised"}]
    /\ proc \in [Runs -> {"none", "recording", "stopping", "cancelling",
                          "transcribing", "processing", "closing", "over"}]
    /\ retry \in [Runs -> {"none", "reading", "sharing", "written",
                           "transcribing"}]
    /\ mic \in [Runs -> {"none", "open", "stopped", "cancelled"}]
    /\ row \in [Runs -> {"absent", "recording", "processing", "deleted"}
                           \cup Finished]
    /\ request \in [Runs -> Requests \cup {NoRun}]
    /\ pending \in [Requests -> Runs \cup {NoRun}]
    /\ dedupe \in [Requests -> Runs \cup {NoRun}]
    /\ invalidated \subseteq Requests
    /\ used \in [SlotBudgets -> Nat]

Owns(r) == InStart(r) \/ HasTask(r)
           \/ retry[r] \in {"reading", "sharing", "written"}

\* The slot does not leak: while it is taken something that gives it back is
\* under way, a start, a recording or a retry; otherwise no recording could be
\* started again.
SlotHasOwner ==
    /\ slot => \E r \in Runs : Owns(r)
    /\ active # NoRun => slot /\ Owns(active)

\* The run that records is the active one, the one that stop and the hotkeys
\* reach, however starts, failures and retries overlap.
OpenMicIsActive == \A r \in Runs : mic[r] = "open" => active = r

\* The one STT session belongs to a run whose task will give it back;
\* otherwise every later start fails with "session active".
SessionHasProcess == session # NoRun => HasSession(session)

\* What holds the slot will give it back, and the run that records is the one
\* that stop and the shortcuts reach; a retry that shares the slot with the run
\* it retries may let go early.  The one STT session belongs to a run whose
\* task ends it, early retry or not; a request delivered again after its run
\* failed would start a run without a row of its own.  Deletions have their
\* own properties below.
SlotIsOwned ==
    used["deletes"] = 0 =>
      /\ used["early"] = 0 => SlotHasOwner /\ OpenMicIsActive
      /\ used["repeats"] = 0 => SessionHasProcess

\* A run that was deleted does not record: history_delete_all aborts what it
\* deleted, also runs that started since it read the list (WO-M4c).
NeverOrphaned ==
    \A r \in Runs \ doomed : row[r] = "deleted" => mic[r] # "open"

\* A request that was answered with a run never starts another one: delivered
\* again it gets the same answer, and none once that run is deleted.
AnsweredOnce ==
    \A r, s \in Runs : startAt[r] = "running" /\ request[r] = request[s]
                       /\ (InStart(s) \/ startAt[s] = "running") => r = s

\* Every start request is answered, with a run or with an error (RunCommands
\* _start), however its run is aborted on the way.
StartAnswered == \A q \in Requests : pending[q] # NoRun ~> pending[q] = NoRun

\* A run that was deleted gives up the slot (abort, start, _process).
DeletedLetsGo == \A r \in Runs : row[r] = "deleted" ~> active # r

\* The tasks run and the requests they wait for return; nobody has to stop a
\* recording, start one or cancel it.
SlotFairSpec ==
    /\ SlotSpec
    /\ \A r \in Runs :
         /\ WF_slotVars(StartStep(r)) /\ WF_slotVars(ProcessStep(r))
         /\ WF_slotVars(RetryStep(r)) /\ WF_slotVars(CancelCommit(r))
    /\ WF_slotVars(DeleteCommit) /\ WF_slotVars(DeleteAllReturns)

=============================================================================
