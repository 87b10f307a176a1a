---------------------------- MODULE RunController ----------------------------
(***************************************************************************)
(* pipeline/run_controller.py as a whole: the coroutines of RunTasks, the  *)
(* four operations that take the insertion gate (a run's automatic         *)
(* delivery, the delivery tick, an explicit insert, a cancellation), the   *)
(* commands of the user, the deletions of the history, and a crash with    *)
(* the startup that follows it (app.py).                                   *)
(***************************************************************************)
EXTENDS RunTasks

\* What no step of an operation that holds the gate changes.
gateRest == <<aged, deferred, refused, typed, orphan, pend, deleting, slot,
              up, cancelWanted>>

-----------------------------------------------------------------------------
(* Automatic delivery: _insert_selected and _apply_events. *)

\* The status an outcome leads to, or the status itself if none does.
\* Mutant: a result of waiting is taken for a hold.
EventOfHold == [cancelled |-> "cancel", awaiting |-> "hold", held |-> "hold"]
EventOf == [cancelled |-> "cancel", awaiting |-> "destination_away",
            held |-> "hold"]
\* Mutant: the table is not asked whether the status takes the outcome.
AppliesAnyway(status, result) ==
    \/ result \in DispatchResults
    \/ result \in DOMAIN EventOf /\ Accepts(status, EventOf[result])
Applies(status, result) ==
    IF result \in DispatchResults
    THEN Accepts(status, "dispatch_begin_auto")
    ELSE result \in DOMAIN EventOf /\ Accepts(status, EventOf[result])
Applied(r, result) ==
    IF result \in DispatchResults
    THEN [rows[r] EXCEPT !.status = OutcomeMove[result]]
    ELSE IF result = "cancelled" THEN Ended(Moved(r, "cancel"))
    ELSE Moved(r, EventOf[result])

\* The gate is granted to the coroutine of a run.
AutoStart ==
    LET r == Head(queue).run
    IN  /\ Granted("auto")
        /\ IF Cancelled(r)
           THEN /\ IF r \notin aborted /\ Visible(r)
                      /\ Accepts(rows[r].status, "cancel")
                   THEN Write(r, Ended(Moved(r, "cancel")))
                   ELSE UNCHANGED rows
                /\ Release
                /\ Phase(r, "closing")
           ELSE op' = Opened("verify") /\ UNCHANGED <<rows, task>>
        /\ UNCHANGED <<attempts, used, flagged, aborted, waiting, overdue,
                       spent, gateRest>>

\* The result is written to the row.  A result that moves nothing is dropped.
AutoApply ==
    LET r == op.run
    IN  /\ up = "up" /\ op.by = "auto" /\ op.at = "result"
        /\ flagged' = IF op.result = "cancelled" /\ r \notin aborted
                      THEN flagged \cup {r} ELSE flagged
        /\ \/ /\ r \in aborted \/ op.result \in {"abandoned", "duplicate"}
              /\ op' = [op EXCEPT !.at = "applied", !.result = "none"]
              /\ UNCHANGED <<rows, task, used>>
           \/ /\ r \notin aborted
              /\ op.result \notin {"abandoned", "duplicate"}
              /\ Visible(r) /\ rows[r].version = op.version
              /\ Applies(rows[r].status, op.result)
              /\ IF op.result = "awaiting"
                 THEN \E n \in {rows[q].since + 1 : q \in Runs} :
                        /\ NextSince(n)
                        /\ Write(r, [Applied(r, op.result) EXCEPT !.since = n])
                 ELSE Write(r, Applied(r, op.result))
              /\ op' = [op EXCEPT !.at = "applied"]
              /\ UNCHANGED <<task, used>>
           \/ /\ r \notin aborted
              /\ op.result \notin {"abandoned", "duplicate"}
              /\ Visible(r)
              /\ ~(/\ rows[r].version = op.version
                   /\ Applies(rows[r].status, op.result))
              /\ Release /\ Phase(r, "failed")
              /\ UNCHANGED <<rows, used>>
           \/ /\ r \notin aborted
              /\ op.result \notin {"abandoned", "duplicate"}
              /\ ~Visible(r)
              /\ Release /\ Phase(r, "closing")
              /\ UNCHANGED <<rows, used>>
           \/ /\ r \notin aborted
              /\ Use("fault")
              /\ Release /\ Phase(r, "failed")
              /\ UNCHANGED rows
        /\ UNCHANGED <<attempts, queue, aborted, waiting, overdue, spent,
                       gateRest>>

\* Back from that write: the run is made to wait, the gate is released, and
\* a finally clause without an await runs at once.
AutoSettle ==
    LET r == op.run
        ends == \/ task[r].kind \in RecoveryKinds
                \/ task[r].kind = "retry_stt" /\ r \notin flagged
    IN  /\ up = "up" /\ op.by = "auto" /\ op.at = "applied"
        /\ waiting' = IF op.result = "awaiting" /\ r \notin aborted
                      THEN waiting \cup {r} ELSE waiting
        /\ Release
        /\ Phase(r, IF ends THEN "done" ELSE "closing")
        /\ flagged' = IF ends THEN flagged \ {r} ELSE flagged
        /\ UNCHANGED <<rows, attempts, used, queue, aborted, overdue, spent,
                       gateRest>>

-----------------------------------------------------------------------------
(* delivery_tick. *)

TickDue ==
    /\ up = "up"
    /\ waiting # {}
    /\ op.by # "tick"
    /\ \A i \in DOMAIN queue : queue[i].by # "tick"
    /\ Enqueue("tick", NoRun, 0, FALSE)
    /\ UNCHANGED <<store, used, protocol, task, orphan, pend, flagged,
                   aborted, waiting, overdue, deleting, slot, up,
                   cancelWanted, spent>>

\* The results of a tick that settle the run.
Decisive == DispatchResults \cup {"cancelled", "held"}

tickRest == <<aged, deferred, typed, orphan, pend, deleting, slot, up,
              cancelWanted, attempts, task, flagged, aborted, spent>>

TickStart ==
    /\ Granted("tick")
    /\ \/ /\ waiting = {}
          /\ Release
          /\ UNCHANGED <<waiting, refused>>
       \/ \E r \in waiting :
            /\ Oldest(r)
            /\ \/ /\ ~Visible(r) \/ rows[r].status # "awaiting_destination"
                  /\ waiting' = waiting \ {r}
                  /\ Release
                  /\ UNCHANGED refused
               \/ /\ Visible(r) /\ rows[r].status = "awaiting_destination"
                  /\ LET ticking == [Opened("look") EXCEPT !.run = r]
                     IN  op' = IF Cancelled(r)
                               THEN [ticking EXCEPT !.at = "result",
                                                    !.result = "cancelled"]
                               ELSE IF r \in overdue
                               THEN [ticking EXCEPT !.at = "result",
                                                    !.result = "held"]
                               ELSE ticking
                  /\ refused' = refused \cap waiting
                  /\ UNCHANGED waiting
    /\ UNCHANGED <<rows, used, overdue, tickRest>>

\* The result of deliver_next is applied to the row as it is now, and only
\* then does the run stop waiting.  An error leaves it waiting.
TickApply ==
    LET r == op.run
    IN  /\ up = "up" /\ op.by = "tick" /\ op.at = "result"
        /\ Release
        /\ refused' = IF op.result \in {"awaiting", "none"}
                      THEN refused ELSE refused \ {r}
        /\ \/ /\ op.result \in {"awaiting", "none"}
              /\ UNCHANGED <<rows, used, waiting>>
           \/ /\ op.result \in {"abandoned", "duplicate"}
              /\ waiting' = waiting \ {r}
              /\ UNCHANGED <<rows, used>>
           \/ /\ op.result \in Decisive
              /\ ~Visible(r) \/ r \in aborted
              /\ waiting' = waiting \ {r}
              /\ UNCHANGED <<rows, used>>
           \/ /\ op.result \in Decisive
              /\ Visible(r) /\ r \notin aborted
              /\ IF Applies(rows[r].status, op.result)
                 THEN /\ Write(r, Applied(r, op.result))
                      /\ waiting' = waiting \ {r}
                 ELSE UNCHANGED <<rows, waiting>>
              /\ UNCHANGED used
           \/ /\ op.result \in Decisive
              /\ Use("fault")
              /\ UNCHANGED <<rows, waiting>>
        /\ overdue' = overdue \cap waiting'
        /\ UNCHANGED <<queue, tickRest>>

\* Mutant: the limit only runs for a window that refused its activation.
WaitLimitRefused(r) ==
    /\ up = "up"
    /\ r \in (waiting \cap refused) \ overdue
    /\ overdue' = overdue \cup {r}
    /\ UNCHANGED <<store, used, protocol, queue, task, orphan, pend, flagged,
                   aborted, waiting, deleting, slot, up, cancelWanted, spent>>

\* The clock passes a waiting run's limit.
WaitLimit(r) ==
    /\ up = "up"
    /\ r \in waiting \ overdue
    /\ overdue' = overdue \cup {r}
    /\ UNCHANGED <<store, used, protocol, queue, task, orphan, pend, flagged,
                   aborted, waiting, deleting, slot, up, cancelWanted, spent>>

-----------------------------------------------------------------------------
(* Explicit insertion: recover(INSERT) and _recover_insert. *)

RecoverInsert(r, ack) ==
    /\ up = "up"
    /\ Use("recover")
    /\ Visible(r)
    /\ "insert" \in RecoveryActions[rows[r].status]
    /\ ~(op.by = "explicit" /\ op.run = r)
    /\ Enqueue("explicit", r, rows[r].version, ack)
    /\ cancelWanted' = cancelWanted \ {r}
    /\ UNCHANGED <<store, protocol, task, orphan, pend, flagged, aborted,
                   waiting, overdue, deleting, slot, up, spent>>

\* Mutants: the acknowledgment, or a known insertion, is not checked again.
MayInsertUnasked(r, version, ack) ==
    /\ Visible(r)
    /\ ~HasAttempt(r, "inserted") /\ ~HasAttempt(r, "in_flight")
    /\ rows[r].version = version
    /\ "insert" \in RecoveryActions[rows[r].status]
MayInsertAgain(r, version, ack) ==
    /\ Visible(r)
    /\ ~HasAttempt(r, "in_flight")
    /\ HasAttempt(r, "uncertain") => ack
    /\ rows[r].version = version
    /\ "insert" \in RecoveryActions[rows[r].status]

\* The checks repeated under the gate.
MayInsert(r, version, ack) ==
    /\ Visible(r)
    /\ ~HasAttempt(r, "inserted") /\ ~HasAttempt(r, "in_flight")
    /\ HasAttempt(r, "uncertain") => ack
    /\ rows[r].version = version
    /\ "insert" \in RecoveryActions[rows[r].status]

explicitRest == <<attempts, task, aborted, overdue, gateRest>>

ExplicitStart ==
    LET r == Head(queue).run
    IN  /\ Granted("explicit")
        /\ \/ /\ ~MayInsert(r, Head(queue).version, Head(queue).ack)
              /\ Release
              /\ UNCHANGED <<waiting, flagged>>
           \/ /\ MayInsert(r, Head(queue).version, Head(queue).ack)
              /\ waiting' = waiting \ {r}
              /\ flagged' = flagged \ {r}
              /\ IF rows[r].text = "selected"
                 THEN op' = Begin([Opened("verify") EXCEPT
                                     !.entry = r \in waiting], r \in aborted)
                 ELSE Release
        /\ UNCHANGED <<rows, used, spent, explicitRest>>

\* An outcome is written unless it leaves the status as it is.
ExplicitApply ==
    LET r == op.run
    IN  /\ up = "up" /\ op.by = "explicit" /\ op.at = "result"
        /\ op.result \in DispatchResults \/ r \in aborted
        /\ Release
        /\ \/ r \in aborted /\ UNCHANGED <<rows, used, flagged>>
           \/ /\ r \notin aborted
              /\ rows[r].status = OutcomeMove[op.result]
              /\ flagged' = flagged \ {r}
              /\ UNCHANGED <<rows, used>>
           \/ /\ r \notin aborted
              /\ rows[r].status # OutcomeMove[op.result]
              /\ Visible(r) /\ rows[r].version = op.version
              /\ Write(r, Applied(r, op.result))
              /\ flagged' = flagged \ {r}
              /\ UNCHANGED used
           \/ /\ r \notin aborted
              /\ rows[r].status # OutcomeMove[op.result]
              /\ ~(Visible(r) /\ rows[r].version = op.version)
              /\ UNCHANGED <<rows, used, flagged>>
           \/ /\ r \notin aborted
              /\ Use("fault")
              /\ UNCHANGED <<rows, flagged>>
        /\ UNCHANGED <<queue, waiting, spent, explicitRest>>

\* Without a dispatch the waiting entry comes back, but not after a cancel.
ExplicitReturns ==
    LET r == op.run
    IN  /\ up = "up" /\ op.by = "explicit" /\ op.at = "result"
        /\ op.result \notin DispatchResults /\ r \notin aborted
        /\ waiting' = IF op.entry /\ op.result # "cancelled"
                      THEN waiting \cup {r} ELSE waiting
        /\ LET over == ~Visible(r) \/ rows[r].status \in Terminal
           IN  flagged' = IF op.result = "cancelled" /\ over
                          THEN flagged \ {r} ELSE flagged
        /\ Release
        /\ UNCHANGED <<rows, used, queue, spent, explicitRest>>

-----------------------------------------------------------------------------
(* cancel. *)

\* The dispatch of r is under way: too late to cancel it.
Dispatching(r) ==
    op.run = r /\ op.by # "cancel"
    /\ op.at \in {"dispatch", "confirm", "resolve", "restore", "result",
                  "applied"}

Cancel(r) ==
    /\ up = "up"
    /\ Use("cancel")
    /\ rows[r].status # "absent"
    /\ flagged' = flagged \cup {r}
    /\ waiting' = waiting \ {r}
    /\ overdue' = overdue \ {r}
    /\ IF TaskActive(r)
       THEN /\ slot' = IF Retrying(r) THEN slot ELSE Freed(r)
            /\ UNCHANGED queue
       ELSE Enqueue("cancel", r, 0, FALSE) /\ UNCHANGED slot
    /\ cancelWanted' =
          IF Visible(r) /\ rows[r].status \notin Terminal /\ ~Dispatching(r)
          THEN cancelWanted \cup {r} ELSE cancelWanted
    /\ UNCHANGED <<store, protocol, task, orphan, pend, aborted, deleting, up,
                   spent>>

cancelRest == <<attempts, task, aborted, waiting, overdue, spent, gateRest>>

\* The row is read; a status that takes no cancel ends the command.
CancelStart ==
    LET r == Head(queue).run
    IN  /\ Granted("cancel")
        /\ IF Visible(r) /\ Accepts(rows[r].status, "cancel")
           THEN /\ op' = [Opened("cancel_write") EXCEPT
                            !.version = rows[r].version]
                /\ UNCHANGED flagged
           ELSE Release /\ flagged' = flagged \ {r}
        /\ UNCHANGED <<rows, used, cancelRest>>

\* The row read is written; a refused or failed write leaves the flag set.
CancelWrite ==
    LET r == op.run
    IN  /\ up = "up" /\ op.at = "cancel_write"
        /\ Release
        /\ \/ /\ Visible(r) /\ rows[r].version = op.version
              /\ Write(r, Ended(Moved(r, "cancel")))
              /\ flagged' = flagged \ {r}
              /\ UNCHANGED used
           \/ /\ ~(Visible(r) /\ rows[r].version = op.version)
              /\ UNCHANGED <<rows, flagged, used>>
           \/ Use("fault") /\ UNCHANGED <<rows, flagged>>
        /\ UNCHANGED <<queue, cancelRest>>

-----------------------------------------------------------------------------
(* recover, for the actions that launch a coroutine. *)

\* The row is read, the slot reserved for a transcription, the status moved.
RecoverCommit(r, action) ==
    /\ up = "up"
    /\ Use("recover")
    /\ Visible(r) /\ pend[r] = "none" /\ orphan[r] = "none"
    /\ action \in RecoveryActions[rows[r].status] \ {"insert"}
    /\ IF action = "retry_stt"
       THEN rows[r].text = "none" /\ slot \in {NoRun, r} /\ slot' = r
       ELSE UNCHANGED slot
    /\ Write(r, Moved(r, action))
    /\ pend' = [pend EXCEPT ![r] = action]
    /\ cancelWanted' = cancelWanted \ {r}
    /\ UNCHANGED <<attempts, aged, deferred, protocol, queue, task, orphan,
                   flagged, aborted, waiting, overdue, deleting, up, spent>>

\* The update has returned: the flag is cleared and the coroutine replaces
\* the old one, whose finally clause may still be waiting for its last read.
RecoverLaunch(r) ==
    /\ up = "up"
    /\ pend[r] # "none"
    /\ pend' = [pend EXCEPT ![r] = "none"]
    /\ flagged' = flagged \ {r}
    /\ orphan' = [orphan EXCEPT ![r] =
                     IF task[r].at = "closing" THEN task[r].kind ELSE "none"]
    /\ task' = [task EXCEPT ![r] =
                   [kind |-> pend[r],
                    at |-> IF pend[r] = "retry_stt" THEN "stt" ELSE "start",
                    version |-> rows[r].version]]
    /\ UNCHANGED <<store, used, protocol, queue, aborted, waiting, overdue,
                   deleting, slot, up, cancelWanted, spent>>

-----------------------------------------------------------------------------
(* abort, and the deletions that call it. *)

\* Mutant: the live coroutine is not marked.
AbortUnmarked(r) ==
    /\ waiting' = waiting \ {r}
    /\ overdue' = overdue \ {r}
    /\ slot' = IF TaskActive(r) /\ ~Retrying(r) THEN Freed(r) ELSE slot
    /\ UNCHANGED aborted

\* abort forgets the run's waiting entry; it marks only a live coroutine.
Abort(r) ==
    /\ aborted' = IF TaskActive(r) THEN aborted \cup {r} ELSE aborted
    /\ waiting' = waiting \ {r}
    /\ overdue' = overdue \ {r}
    /\ slot' = IF TaskActive(r) /\ ~Retrying(r) THEN Freed(r) ELSE slot

abortRest == <<op, refused, typed, queue, task, orphan, pend, flagged, up,
               cancelWanted, spent>>

\* The delete command aborts the run before it deletes the row.
Delete(r) ==
    /\ up = "up"
    /\ Use("removal")
    /\ Present(r)
    /\ Abort(r)
    /\ deleting' = deleting \cup {r}
    /\ UNCHANGED <<store, abortRest>>

RemoveRow(r) ==
    /\ up = "up"
    /\ r \in deleting
    /\ deleting' = deleting \ {r}
    /\ \/ DeleteRow(r) /\ UNCHANGED used
       \/ Use("fault") /\ UNCHANGED <<rows, attempts, aged>>
    /\ UNCHANGED <<deferred, aborted, waiting, overdue, slot, abortRest>>

\* Retention: a row expires or is evicted unless an attempt is in flight.
Expire(r) ==
    /\ up = "up"
    /\ Use("removal")
    /\ Visible(r) /\ ~HasAttempt(r, "in_flight")
    /\ RetentionDelete(r)
    /\ UNCHANGED <<aborted, waiting, overdue, deleting, slot, abortRest>>

\* The run comes of age under the protection of an attempt.
Age(r) ==
    /\ up = "up"
    /\ Use("removal")
    /\ Present(r) /\ HasAttempt(r, "in_flight")
    /\ aged' = aged \cup {r}
    /\ UNCHANGED <<rows, attempts, deferred, aborted, waiting, overdue,
                   deleting, slot, abortRest>>

\* The next history operation of anyone deletes a row that came of age while
\* protected, once its attempt is resolved.
Retire(r) ==
    /\ up = "up"
    /\ r \in aged /\ ~HasAttempt(r, "in_flight")
    /\ RetentionDelete(r)
    /\ UNCHANGED <<used, aborted, waiting, overdue, deleting, slot, abortRest>>

\* The callback that the history deferred.
Evicted(r) ==
    /\ up = "up"
    /\ r \in deferred
    /\ deferred' = deferred \ {r}
    /\ Abort(r)
    /\ UNCHANGED <<rows, attempts, aged, used, deleting, abortRest>>

-----------------------------------------------------------------------------
(* A crash, and the startup after it. *)

NoTask == [kind |-> "process", at |-> "none", version |-> 0]

\* Everything but the tables is lost.
Crash ==
    /\ up # "down"
    /\ Use("crash")
    /\ up' = "down"
    /\ op' = Idle /\ queue' = << >> /\ refused' = {}
    /\ task' = [r \in Runs |-> NoTask]
    /\ orphan' = [r \in Runs |-> "none"] /\ pend' = [r \in Runs |-> "none"]
    /\ flagged' = {} /\ aborted' = {} /\ waiting' = {} /\ overdue' = {}
    /\ deferred' = {} /\ deleting' = {} /\ slot' = NoRun
    /\ cancelWanted' = {}
    /\ UNCHANGED <<rows, attempts, aged, typed, spent>>

startupRest == <<protocol, queue, task, orphan, pend, flagged, aborted,
                 waiting, overdue, deleting, slot, cancelWanted, spent>>

RecoverOnStartup ==
    /\ up = "down"
    /\ up' = "recovering"
    /\ RecoverStore
    /\ UNCHANGED <<used, startupRest>>

\* One transaction per run that was recording or processing.
FailInterrupted(r) ==
    /\ up = "recovering"
    /\ rows[r].status \in Interrupted
    /\ Write(r, Moved(r, "fail"))
    /\ UNCHANGED <<attempts, aged, deferred, used, up, startupRest>>

Serve ==
    /\ up = "recovering"
    /\ \A r \in Runs : rows[r].status \notin Interrupted
    /\ up' = "up"
    /\ UNCHANGED <<store, used, startupRest>>

-----------------------------------------------------------------------------
Init ==
    /\ StoreInit
    /\ ProtocolInit
    /\ queue = << >>
    /\ task = [r \in Runs |-> NoTask]
    /\ orphan = [r \in Runs |-> "none"]
    /\ pend = [r \in Runs |-> "none"]
    /\ flagged = {} /\ aborted = {} /\ waiting = {} /\ overdue = {}
    /\ deleting = {}
    /\ slot = NoRun
    /\ up = "up"
    /\ cancelWanted = {}
    /\ spent = {}

\* One step of the protocol on behalf of the operation that holds the gate.
Deliver ==
    /\ up = "up"
    /\ ProtocolStep(OpCancelled)
    /\ spent' = IF op.by = "explicit" /\ typed' # typed
                THEN spent \cup {<<op.run, op.version>>} ELSE spent
    /\ UNCHANGED control

Gate ==
    \/ AutoStart \/ AutoApply \/ AutoSettle
    \/ TickStart \/ TickApply
    \/ ExplicitStart \/ ExplicitApply \/ ExplicitReturns
    \/ CancelStart \/ CancelWrite

\* Steps a coroutine takes by itself once its engines have answered.
Work(r) ==
    \/ TaskStops(r) \/ TaskCancels(r)
    \/ NoSpeech(r) \/ StoreText(r) \/ SelectAdjusted(r)
    \/ UseOriginal(r) \/ RetryCleanup(r)
    \/ CleanupSettles(r) \/ CleanupFails(r) \/ StaleWrite(r)
    \/ Failed(r) \/ Close(r) \/ OrphanClose(r) \/ RecoverLaunch(r)

User(r) ==
    \/ Start(r) \/ EndRecording(r) \/ Cancel(r) \/ Delete(r)
    \/ \E ack \in BOOLEAN : RecoverInsert(r, ack)
    \/ \E action \in Kinds \ {"process"} : RecoverCommit(r, action)

Environment(r) == TaskFault(r) \/ CloseFault(r) \/ Expire(r) \/ Age(r)

Background(r) == WaitLimit(r) \/ RemoveRow(r) \/ Retire(r) \/ Evicted(r)

Startup == RecoverOnStartup \/ Serve \/ \E r \in Runs : FailInterrupted(r)

Next ==
    \/ Deliver \/ Gate \/ TickDue \/ Startup \/ Crash
    \/ \E r \in Runs : Work(r) \/ User(r) \/ Environment(r) \/ Background(r)

Spec == Init /\ [][Next]_vars

\* The event loop runs what is ready, engines and windows answer in bounded
\* time, the timers of app.py go on; the user and the faults owe nothing.
Fairness ==
    /\ WF_vars(Deliver) /\ WF_vars(Gate) /\ WF_vars(TickDue)
    /\ WF_vars(Startup)
    /\ \A r \in Runs : WF_vars(Work(r)) /\ WF_vars(Background(r))

FairSpec == Spec /\ Fairness

-----------------------------------------------------------------------------
\* Every variable keeps its type (the columns, phases and results above).
TypeOK ==
    /\ StoreTypeOK
    /\ ProtocolTypeOK
    /\ ControlTypeOK

=============================================================================
