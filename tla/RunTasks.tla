------------------------------ MODULE RunTasks ------------------------------
(***************************************************************************)
(* The state RunController of pipeline/run_controller.py keeps, its        *)
(* insertion gate, and the coroutine that takes each dictation run from    *)
(* its recording to the gate.  All coroutines run on one event loop, so an *)
(* action is the code from one await to the next; where nothing another    *)
(* coroutine does in between can be told apart, consecutive segments are   *)
(* one action.                                                             *)
(*                                                                         *)
(*   op, queue    the insertion gate: its holder's operation and its FIFO  *)
(*   task         per run, the coroutine in _tasks, the phase it is in and *)
(*                the row version it last wrote                            *)
(*   orphan       a finished coroutine whose finally is still to run when  *)
(*                a recovery puts a new one in its place                   *)
(*   pend         a recovery whose update has committed but whose          *)
(*                coroutine is not launched yet                            *)
(*   flagged      runs whose entry of _cancel_flags is True                *)
(*   overdue      waiting runs past their wait limit                       *)
(*   deleting     runs aborted by a delete command, row still to go        *)
(*   slot         the run the recording slot is reserved for               *)
(*   cancelWanted (observed) runs whose user cancelled them before their   *)
(*                dispatch and has asked for nothing since                 *)
(*   spent        (observed) versions whose explicit insert typed          *)
(***************************************************************************)
EXTENDS InsertionProtocol

VARIABLES queue, task, orphan, pend, flagged, aborted, waiting, overdue,
          deleting, slot, up, cancelWanted, spent

control == <<queue, task, orphan, pend, flagged, aborted, waiting, overdue,
             deleting, slot, up, cancelWanted>>
store == <<rows, attempts, aged, deferred>>
protocol == <<op, refused, typed>>
vars == <<store, used, protocol, control, spent>>

Kinds == {"process", "retry_stt", "retry_cleanup", "use_original"}
RecoveryKinds == {"retry_cleanup", "use_original"}

\* Phases in which the coroutine waits for an engine or for the user.
Working == {"recording", "stt", "stored", "start", "cleaning"}
TaskPhases == Working \cup {"none", "gate", "failed", "closing", "done"}

Task == [kind : Kinds, at : TaskPhases, version : Nat]

\* A tick chooses its run only when it holds the gate.
Request ==
    [by : Callers \ {"tick"}, run : Runs, version : Nat, ack : BOOLEAN]
    \cup [by : {"tick"}, run : {NoRun}, version : {0}, ack : {FALSE}]

TaskActive(r) == task[r].at \notin {"none", "done"}
Retrying(r) == task[r].kind = "retry_stt" /\ task[r].at = "stt"
Cancelled(r) == r \in flagged \cup aborted

\* Mutant: the callback does not look at the cancel flag.
OpCancelledUnflagged ==
    op.run \in aborted \/ (op.by = "tick" /\ op.run \notin waiting)

\* The is_cancelled callback of the operation that holds the gate.
OpCancelled ==
    Cancelled(op.run) \/ (op.by = "tick" /\ op.run \notin waiting)

Oldest(r) ==
    r \in waiting /\ \A q \in waiting : rows[r].since <= rows[q].since

-----------------------------------------------------------------------------
(* The insertion gate. *)

Enqueue(by, r, version, ack) ==
    queue' = Append(queue, [by |-> by, run |-> r, version |-> version,
                            ack |-> ack])

\* Mutant: the gate does not exclude.
GrantedAnyway(by) ==
    /\ up = "up"
    /\ queue # << >>
    /\ Head(queue).by = by
    /\ queue' = Tail(queue)

\* The gate passes to the first request; o is the operation it begins.
Granted(by) ==
    /\ up = "up"
    /\ op.at = "idle"
    /\ queue # << >>
    /\ Head(queue).by = by
    /\ queue' = Tail(queue)

Opened(at) ==
    [Idle EXCEPT !.at = at, !.by = Head(queue).by, !.run = Head(queue).run,
                 !.version = Head(queue).version, !.ack = Head(queue).ack]

Release == op' = Idle

\* The slot goes with its run, unless a retry has just reserved it anew.
Freed(r) == IF slot = r /\ pend[r] # "retry_stt" THEN NoRun ELSE slot

Phase(r, at) == task' = [task EXCEPT ![r].at = at]
Reached(r, at) ==
    task' = [task EXCEPT ![r].at = at, ![r].version = rows'[r].version]

-----------------------------------------------------------------------------
(* The coroutine of a run: _process, _retry_stt_task and _recover_task. *)

\* start, up to the launch of _process.
Start(r) ==
    /\ up = "up"
    /\ rows[r].status = "absent"
    /\ slot = NoRun
    /\ CreateRow(r)
    /\ slot' = r
    /\ flagged' = flagged \ {r}
    /\ task' = [task EXCEPT ![r] = [kind |-> "process", at |-> "recording",
                                    version |-> 1]]
    /\ UNCHANGED <<attempts, aged, deferred, used, protocol, queue, orphan,
                   pend, aborted, waiting, overdue, deleting, up,
                   cancelWanted, spent>>

workRest == <<attempts, aged, deferred, used, protocol, orphan, pend, flagged,
              aborted, waiting, overdue, deleting, up, cancelWanted, spent>>

\* The coroutine finds its run aborted or its row gone, and returns.
TaskStops(r) ==
    /\ up = "up"
    /\ task[r].at \in Working
    /\ r \in aborted \/ ~Visible(r)
    /\ Phase(r, "closing")
    /\ slot' = IF task[r].at \in {"recording", "stt"} THEN Freed(r) ELSE slot
    /\ UNCHANGED <<rows, queue, workRest>>

\* The coroutine finds its cancel flag set: _transition(CANCEL).
TaskCancels(r) ==
    /\ up = "up"
    /\ task[r].at \in Working \ {"start"}
    /\ r \in flagged /\ r \notin aborted /\ Visible(r)
    /\ IF Accepts(rows[r].status, "cancel")
       THEN Write(r, Ended(Moved(r, "cancel")))
       ELSE UNCHANGED rows
    /\ Phase(r, "closing")
    /\ slot' = IF task[r].at \in {"recording", "stt"} THEN Freed(r) ELSE slot
    /\ UNCHANGED <<queue, workRest>>

\* It goes on from phase at: the run is there, not aborted, not cancelled.
Proceeds(r, at) ==
    /\ up = "up"
    /\ task[r].at = at
    /\ r \notin aborted /\ Visible(r)
    /\ at # "start" => r \notin flagged
    /\ at \in {"stored", "cleaning"} => rows[r].version = task[r].version

\* stop, and the STOP transition that follows the last chunk.
EndRecording(r) ==
    /\ Proceeds(r, "recording")
    /\ IF Accepts(rows[r].status, "stop")
       THEN Write(r, Moved(r, "stop")) /\ Reached(r, "stt")
       ELSE UNCHANGED rows /\ Phase(r, "failed")
    /\ slot' = Freed(r)
    /\ UNCHANGED <<queue, workRest>>

\* The transcript is blank: the run fails with no speech detected.
NoSpeech(r) ==
    /\ Proceeds(r, "stt")
    /\ IF Accepts(rows[r].status, "fail")
       THEN Write(r, Ended(Moved(r, "fail"))) /\ Phase(r, "closing")
       ELSE UNCHANGED rows /\ Phase(r, "failed")
    /\ slot' = Freed(r)
    /\ UNCHANGED <<queue, workRest>>

\* The transcript is stored; cleanup is pending if the run asked for it.
StoreText(r) ==
    /\ Proceeds(r, "stt")
    /\ \/ /\ Write(r, [rows[r] EXCEPT !.text = "original",
                                      !.cleanup = "pending"])
          /\ Reached(r, "cleaning")
       \/ /\ Write(r, [rows[r] EXCEPT !.text = "original"])
          /\ Reached(r, "stored")
    /\ slot' = Freed(r)
    /\ UNCHANGED <<queue, workRest>>

\* Mutant: the cleanup column is left as it was.
SelectUnsettled(r, cleanup) ==
    /\ Write(r, [rows[r] EXCEPT !.text = "selected"])
    /\ Reached(r, "gate")
    /\ Enqueue("auto", r, rows'[r].version, FALSE)
    /\ UNCHANGED <<slot, workRest>>

\* A text is selected and the coroutine asks for the gate.
Select(r, cleanup) ==
    /\ Write(r, [rows[r] EXCEPT !.text = "selected", !.cleanup = cleanup])
    /\ Reached(r, "gate")
    /\ Enqueue("auto", r, rows'[r].version, FALSE)
    /\ UNCHANGED <<slot, workRest>>

\* Without cleanup the adjusted text is used.
SelectAdjusted(r) == Proceeds(r, "stored") /\ Select(r, "off")

\* _recover_task begins with a fresh read of the row, whatever its status.
UseOriginal(r) ==
    /\ task[r].kind = "use_original"
    /\ Proceeds(r, "start")
    /\ Select(r, rows[r].cleanup)

RetryCleanup(r) ==
    /\ task[r].kind = "retry_cleanup"
    /\ Proceeds(r, "start")
    /\ Write(r, [rows[r] EXCEPT !.text = "original", !.cleanup = "pending"])
    /\ Reached(r, "cleaning")
    /\ UNCHANGED <<queue, slot, workRest>>

\* The engine's text is accepted, or the engine is away and the original is used.
CleanupSettles(r) == Proceeds(r, "cleaning") /\ Select(r, "settled")

\* Any other failure, or a rejection by the guard, is the user's to settle.
CleanupFails(r) ==
    /\ Proceeds(r, "cleaning")
    /\ IF Accepts(rows[r].status, "cleanup_failed")
       THEN /\ Write(r, [Moved(r, "cleanup_failed") EXCEPT
                            !.cleanup = "settled", !.text = "original"])
            /\ Phase(r, "closing")
       ELSE UNCHANGED rows /\ Phase(r, "failed")
    /\ UNCHANGED <<queue, slot, workRest>>

\* update_run refuses a version that another writer has raised meanwhile.
StaleWrite(r) ==
    /\ up = "up"
    /\ task[r].at \in {"stored", "cleaning"}
    /\ ~Cancelled(r) /\ Visible(r) /\ rows[r].version # task[r].version
    /\ Phase(r, "failed")
    /\ UNCHANGED <<rows, queue, slot, workRest>>

\* A capture, an engine or a database call raises.
TaskFault(r) ==
    /\ up = "up"
    /\ task[r].at \in Working
    /\ Use("fault")
    /\ Phase(r, "failed")
    /\ slot' = IF Retrying(r) THEN Freed(r) ELSE slot
    /\ UNCHANGED <<store, protocol, queue, orphan, pend, flagged, aborted,
                   waiting, overdue, deleting, up, cancelWanted, spent>>

\* The except clause: cancelled if the flag is set, else failed, if it may be.
Failed(r) ==
    LET byUser == r \in flagged /\ task[r].kind \notin RecoveryKinds
        event == IF byUser THEN "cancel" ELSE "fail"
        ended == Moved(r, event)
    IN  /\ up = "up"
        /\ task[r].at = "failed"
        /\ IF Visible(r) /\ r \notin aborted /\ Accepts(rows[r].status, event)
           THEN Write(r, IF task[r].kind = "retry_stt" /\ ~byUser
                         THEN ended ELSE Ended(ended))
           ELSE UNCHANGED rows
        /\ Phase(r, "closing")
        /\ UNCHANGED <<queue, slot, workRest>>

\* What the finally clause of a coroutine of the given kind does.
Finally(r, kind) ==
    LET over == ~Visible(r) \/ rows[r].status \in Terminal
        cancels == /\ kind = "retry_stt" /\ r \in flagged
                   /\ ~over /\ r \notin aborted
                   /\ Accepts(rows[r].status, "cancel")
    IN  /\ IF cancels
           THEN Write(r, Ended(Moved(r, "cancel")))
           ELSE UNCHANGED rows
        /\ flagged' = IF kind = "process" /\ ~over THEN flagged
                      ELSE flagged \ {r}
        /\ aborted' = IF kind = "process" THEN aborted \ {r} ELSE aborted
        /\ slot' = IF kind = "process" THEN Freed(r) ELSE slot

closeRest == <<attempts, aged, deferred, protocol, queue, pend, waiting,
               overdue, deleting, up, cancelWanted, spent>>

Close(r) ==
    /\ up = "up"
    /\ task[r].at = "closing"
    /\ Finally(r, task[r].kind)
    /\ Phase(r, "done")
    /\ UNCHANGED <<used, orphan, closeRest>>

\* A raw database error in the final read skips the rest of the clause.
CloseFault(r) ==
    /\ up = "up"
    /\ task[r].at = "closing" /\ task[r].kind = "process"
    /\ Use("fault")
    /\ Phase(r, "done")
    /\ UNCHANGED <<rows, flagged, aborted, slot, orphan, closeRest>>

OrphanClose(r) ==
    /\ up = "up"
    /\ orphan[r] # "none"
    /\ Finally(r, orphan[r])
    /\ orphan' = [orphan EXCEPT ![r] = "none"]
    /\ UNCHANGED <<used, task, closeRest>>

ControlTypeOK ==
    /\ queue \in Seq(Request)
    /\ task \in [Runs -> Task]
    /\ orphan \in [Runs -> Kinds \cup {"none"}]
    /\ pend \in [Runs -> Kinds \cup {"none"}]
    /\ flagged \subseteq Runs /\ aborted \subseteq Runs
    /\ waiting \subseteq Runs /\ overdue \subseteq Runs
    /\ deleting \subseteq Runs
    /\ slot \in Runs \cup {NoRun}
    /\ up \in {"up", "down", "recovering"}
    /\ cancelWanted \subseteq Runs
    /\ spent \subseteq Runs \X Nat

=============================================================================
