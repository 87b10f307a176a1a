---------------------------- MODULE RunTypeProofs ----------------------------
(***************************************************************************)
(* Type correctness of RunController, for any set of runs and any limits,  *)
(* and the first promises of its insertion attempts: a claim is durable    *)
(* before the text is typed, and a run is done only if it was typed.       *)
(*                                                                         *)
(* The lemmas say what each operator of RunStore, InsertionProtocol and    *)
(* RunTasks does to the types; the steps of the theorem cite them.         *)
(***************************************************************************)
EXTENDS RunInvariants, SequenceTheorems, TLAPS

-----------------------------------------------------------------------------
(* The state machine. *)

\* The table leads from statuses to statuses, but never to done.
LEMMA MovesType ==
    ASSUME NEW s \in Status, NEW e, Accepts(s, e)
    PROVE  Moves[s][e] \in Status \ {"done"}
BY DEF Status, Dispatchable, Terminal, Moves, Accepts

\* So does the outcome of a dispatch.
LEMMA OutcomeType ==
    ASSUME NEW result \in DispatchResults
    PROVE  OutcomeMove[result] \in Status
BY DEF Status, Dispatchable, Terminal, DispatchResults, OutcomeMove

\* A recovery action that launches a coroutine is an event of the status.
LEMMA RecoveryAccepted ==
    ASSUME NEW s \in Status, NEW action \in RecoveryActions[s] \ {"insert"}
    PROVE  Accepts(s, action)
BY DEF Status, Dispatchable, Terminal, Moves, Accepts, RecoveryActions

\* A run that startup finds interrupted can fail.
LEMMA InterruptedAccepted ==
    ASSUME NEW s \in Interrupted
    PROVE  s \in Status /\ Accepts(s, "fail")
BY DEF Interrupted, Status, Dispatchable, Terminal, Moves, Accepts

-----------------------------------------------------------------------------
(* Rows and attempts. *)

\* A move of the table keeps the type of the row.
LEMMA MovedType ==
    ASSUME NEW r, rows[r] \in Row, Present(r), NEW e,
           Accepts(rows[r].status, e)
    PROVE  Moved(r, e) \in Row /\ Moved(r, e).status \in Status \ {"done"}
BY MovesType DEF Moved, Row, Present

\* So does the settling of its cleanup column.
LEMMA EndedType ==
    ASSUME NEW row \in Row
    PROVE  Ended(row) \in Row
BY DEF Ended, Row, Cleanups

\* Raising the version keeps the type of the row.
LEMMA VersionType ==
    ASSUME NEW row \in Row, NEW old \in Row
    PROVE  [row EXCEPT !.version = old.version + 1] \in Row
<1>1. ASSUME NEW n \in Nat
      PROVE  [row EXCEPT !.version = n] \in Row
    BY DEF Row
<1>2. old.version + 1 \in Nat
    BY DEF Row
<1>3. QED
    BY <1>1, <1>2

\* update_run keeps the type of the table.
LEMMA WriteType ==
    ASSUME rows \in [Runs -> Row], NEW r \in Runs, NEW row \in Row,
           Write(r, row)
    PROVE  /\ rows' \in [Runs -> Row]
           /\ rows'[r].status = row.status
           /\ rows'[r].version = rows[r].version + 1
           /\ \A q \in Runs \ {r} : rows'[q] = rows[q]
<1>1. [row EXCEPT !.version = rows[r].version + 1] \in Row
    BY VersionType
<1>2. QED
    BY <1>1 DEF Write, Row

\* A claimed attempt extends the sequence of the run by one.
LEMMA AddAttemptType ==
    ASSUME attempts \in [Runs -> Seq(Attempt)], NEW r \in Runs,
           NEW kind \in {"automatic", "explicit"}, AddAttempt(r, kind)
    PROVE  attempts' \in [Runs -> Seq(Attempt)] /\ NextAttempt(r) \in Nat
BY DEF AddAttempt, Attempt, Outcomes, NextAttempt

\* A function on an initial segment is a sequence.
LEMMA SegmentIsSeq ==
    ASSUME NEW S, NEW s \in Seq(S), NEW T, NEW f \in [DOMAIN s -> T]
    PROVE  f \in Seq(T)
<1>1. Len(s) \in Nat /\ DOMAIN s = 1 .. Len(s)
    OBVIOUS
<1>2. QED
    BY <1>1, SeqDef

\* resolve_attempt changes one attempt of the sequence at most.
LEMMA SetOutcomeType ==
    ASSUME attempts \in [Runs -> Seq(Attempt)], NEW r \in Runs,
           NEW a, NEW outcome \in Outcomes, SetOutcome(r, a, outcome)
    PROVE  attempts' \in [Runs -> Seq(Attempt)]
<1> DEFINE new == [attempts[r] EXCEPT ![a].outcome = outcome]
<1>1. attempts' = [attempts EXCEPT ![r] = new]
    BY DEF SetOutcome
<1>2. attempts[r] \in [DOMAIN attempts[r] -> Attempt]
    OBVIOUS
<1>3. new \in [DOMAIN attempts[r] -> Attempt]
    <2>1. CASE a \in DOMAIN attempts[r]
        <3>1. [attempts[r][a] EXCEPT !.outcome = outcome] \in Attempt
            BY <1>2, <2>1 DEF Attempt
        <3>2. QED
            BY <1>2, <3>1
    <2>2. CASE a \notin DOMAIN attempts[r]
        BY <1>2, <2>2
    <2>3. QED
        BY <2>1, <2>2
<1>4. new \in Seq(Attempt)
    BY <1>3, SegmentIsSeq
<1>5. QED
    BY <1>1, <1>4

\* A deletion leaves a tombstone without attempts.
LEMMA DeleteRowType ==
    ASSUME StoreTypeOK, NEW r \in Runs, DeleteRow(r)
    PROVE  /\ rows' \in [Runs -> Row]
           /\ attempts' \in [Runs -> Seq(Attempt)]
           /\ aged' \subseteq Runs
<1>1. Tombstone(r) \in Row
    BY DEF StoreTypeOK, Tombstone, Row, Texts, Cleanups
<1>2. << >> \in Seq(Attempt)
    OBVIOUS
<1>3. QED
    BY <1>1, <1>2 DEF DeleteRow, StoreTypeOK

\* recover_on_startup keeps the types of both tables.
LEMMA RecoverStoreType ==
    ASSUME StoreTypeOK, RecoverStore
    PROVE  /\ rows' \in [Runs -> Row]
           /\ attempts' \in [Runs -> Seq(Attempt)]
           /\ aged' \subseteq Runs /\ deferred' \subseteq Runs
<1>1. ASSUME NEW r \in Runs
      PROVE  RecoveredRow(r) \in Row
    <2>1. rows[r] \in Row
        BY DEF StoreTypeOK
    <2>2. Tombstone(r) \in Row
        BY <2>1 DEF Tombstone, Row, Texts, Cleanups
    <2>3. [rows[r] EXCEPT !.status = "awaiting_cleanup_choice",
                          !.cleanup = "settled", !.version = @ + 1] \in Row
        <3>1. [rows[r] EXCEPT !.status = "awaiting_cleanup_choice",
                              !.cleanup = "settled"] \in Row
            BY <2>1 DEF Row, Cleanups, Status
        <3>2. QED
            BY <2>1, <3>1, VersionType
    <2>4. QED
        BY <2>1, <2>2, <2>3 DEF RecoveredRow
<1>2. ASSUME NEW r \in Runs
      PROVE  RecoveredAttempts(r) \in Seq(Attempt)
    <2>1. CASE r \in aged
        BY <2>1 DEF RecoveredAttempts
    <2>2. CASE r \notin aged
        <3>1. attempts[r] \in Seq(Attempt)
            BY DEF StoreTypeOK
        <3>2. ASSUME NEW a \in DOMAIN attempts[r]
              PROVE  GivenUp(attempts[r][a]) \in Attempt
            <4>1. attempts[r][a] \in Attempt
                BY <3>1
            <4>2. QED
                BY <4>1 DEF GivenUp, Attempt, Outcomes
        <3>3. RecoveredAttempts(r) \in [DOMAIN attempts[r] -> Attempt]
            BY <2>2, <3>2 DEF RecoveredAttempts
        <3>4. QED
            BY <3>1, <3>3, SegmentIsSeq
    <2>3. QED
        BY <2>1, <2>2
<1>3. QED
    BY <1>1, <1>2 DEF RecoverStore

-----------------------------------------------------------------------------
(* The operation, the gate and the coroutines. *)

\* The operation that is not idle is an operation about a run.
LEMMA BusyType ==
    ASSUME ProtocolTypeOK, op.at # "idle"
    PROVE  op \in Operation /\ op.run \in Runs
BY DEF ProtocolTypeOK, Operation, Idle

\* A return, a resolution and a beginning keep the type of the operation.
LEMMA ReturnType ==
    ASSUME op \in Operation, NEW result \in Results, Return(result)
    PROVE  op' \in Operation
BY DEF Return, Operation, Phases

LEMMA ResolveAsType ==
    ASSUME op \in Operation, NEW outcome \in Outcomes, NEW result \in Results,
           ResolveAs(outcome, result)
    PROVE  op' \in Operation
BY DEF ResolveAs, Operation, Phases, Claimed

LEMMA BeginType ==
    ASSUME NEW o \in Operation, NEW cancelled
    PROVE  Begin(o, cancelled) \in Operation
BY DEF Begin, Operation, Phases, Results

\* The request that is granted the gate, and the operation it opens.
LEMMA GrantedType ==
    ASSUME ControlTypeOK, NEW by \in Callers, Granted(by)
    PROVE  /\ queue' \in Seq(Request)
           /\ Head(queue) \in Request
           /\ by # "tick" => Head(queue).run \in Runs
           /\ by # "tick" => \A at \in Phases : Opened(at) \in Operation
<1>1. Head(queue) \in Request /\ queue' \in Seq(Request)
    BY DEF ControlTypeOK, Granted
<1>2. Head(queue).by = by
    BY DEF Granted
<1>3. CASE by = "tick"
    BY <1>1, <1>3
<1>4. CASE by # "tick"
    <2>1. /\ Head(queue).run \in Runs /\ Head(queue).version \in Nat
          /\ Head(queue).ack \in BOOLEAN /\ Head(queue).by \in Callers
        BY <1>1, <1>2, <1>4 DEF Request
    <2>2. QED
        BY <1>1, <2>1 DEF Opened, Idle, Operation, Outcomes, Results
<1>5. QED
    BY <1>3, <1>4

\* A request joins the end of the queue.
LEMMA EnqueueType ==
    ASSUME ControlTypeOK, NEW by \in Callers \ {"tick"}, NEW r \in Runs,
           NEW version \in Nat, NEW ack \in BOOLEAN,
           Enqueue(by, r, version, ack)
    PROVE  queue' \in Seq(Request)
<1>1. [by |-> by, run |-> r, version |-> version, ack |-> ack] \in Request
    BY DEF Request
<1>2. QED
    BY <1>1 DEF Enqueue, ControlTypeOK

\* A coroutine changes its phase.
LEMMA PhaseType ==
    ASSUME task \in [Runs -> Task], NEW r \in Runs, NEW at \in TaskPhases,
           \/ Phase(r, at)
           \/ Reached(r, at) /\ rows' \in [Runs -> Row]
    PROVE  task' \in [Runs -> Task]
BY DEF Phase, Reached, Task, Row

\* The counted steps stay numbers.
LEMMA UseType ==
    ASSUME StoreTypeOK, NEW k \in Budgets, Use(k)
    PROVE  used' \in [Budgets -> Nat]
BY DEF StoreTypeOK, Use

\* The slot is a run or free.
LEMMA FreedType ==
    ASSUME ControlTypeOK, NEW r
    PROVE  Freed(r) \in Runs \cup {NoRun}
BY DEF ControlTypeOK, Freed

-----------------------------------------------------------------------------
(* The steps of the insertion protocol. *)

\* Each step of the protocol keeps the types of the tables and the operation.
LEMMA ProtocolStepType ==
    ASSUME StoreTypeOK, ProtocolTypeOK, NEW cancelled, ProtocolStep(cancelled)
    PROVE  StoreTypeOK' /\ ProtocolTypeOK'
<1>1. op.at # "idle"
    BY DEF ProtocolStep, Look, VerifyFirst, ClaimAttempt, Recheck, Reverify,
           Dispatch, Confirm, Resolve, Restore
<1>2. op \in Operation /\ op.run \in Runs
    BY <1>1, BusyType
<1>3. {"held", "awaiting", "abandoned", "duplicate", "failed", "cancelled",
       "inserted", "uncertain"} \subseteq Results
      /\ op.result \in Results /\ op.outcome \in Outcomes
      /\ {"failed", "cancelled", "inserted", "uncertain"} \subseteq Outcomes
    BY <1>2 DEF Results, DispatchResults, Operation, Outcomes
<1>4. Kind \in {"automatic", "explicit"}
    BY DEF Kind
<1>5. CASE Look(cancelled)
    <2>1. [op EXCEPT !.jumped = TRUE] \in Operation
        BY <1>2 DEF Operation
    <2>2. op' \in Operation
        <3>1. ASSUME NEW result \in {"held", "awaiting"},
                     op' = [op EXCEPT !.at = "restore", !.jumped = TRUE,
                                      !.result = result]
              PROVE  op' \in Operation
            BY <1>2, <1>3, <3>1 DEF Operation, Phases
        <3>2. QED
            BY <1>2, <1>3, <1>5, <2>1, <3>1, ReturnType, BeginType DEF Look
    <2>3. refused' \subseteq Runs
        BY <1>2, <1>5 DEF Look, ProtocolTypeOK
    <2>4. QED
        BY <1>5, <2>2, <2>3 DEF Look, StoreTypeOK, ProtocolTypeOK
<1>6. CASE VerifyFirst
    <2>1. op' \in Operation
        BY <1>2, <1>3, <1>6, ReturnType DEF VerifyFirst, Operation, Phases
    <2>2. QED
        BY <1>6, <2>1 DEF VerifyFirst, StoreTypeOK, ProtocolTypeOK, protocolRest
<1>7. CASE ClaimAttempt(cancelled)
    <2>1. CASE Return("abandoned") \/ Return("duplicate") \/ Return("held")
        <3>1. op' \in Operation
            BY <1>2, <1>3, <2>1, ReturnType
        <3>2. used' \in [Budgets -> Nat]
            BY <1>7, UseType DEF ClaimAttempt, Budgets, StoreTypeOK
        <3>3. attempts' \in [Runs -> Seq(Attempt)]
            BY <1>2, <1>4, <1>7, AddAttemptType DEF ClaimAttempt, StoreTypeOK
        <3>4. QED
            BY <1>7, <3>1, <3>2, <3>3
            DEF ClaimAttempt, StoreTypeOK, ProtocolTypeOK, storeRest, protocolRest
    <2>2. CASE AddAttempt(op.run, Kind) /\ UNCHANGED used
               /\ op' = LET claimed == [op EXCEPT !.attempt = NextAttempt(op.run)]
                        IN  IF cancelled
                            THEN [claimed EXCEPT !.at = "resolve",
                                                 !.outcome = "cancelled",
                                                 !.result = "cancelled"]
                            ELSE [claimed EXCEPT !.at = "recheck"]
        <3>1. attempts' \in [Runs -> Seq(Attempt)] /\ NextAttempt(op.run) \in Nat
            BY <1>2, <1>4, <2>2, AddAttemptType DEF StoreTypeOK
        <3>2. op' \in Operation
            BY <1>2, <1>3, <2>2, <3>1 DEF Operation, Phases, Claimed
        <3>3. QED
            BY <1>7, <2>2, <3>1, <3>2
            DEF ClaimAttempt, StoreTypeOK, ProtocolTypeOK, storeRest, protocolRest
    <2>3. QED
        BY <1>7, <2>1, <2>2 DEF ClaimAttempt
<1>8. CASE Recheck
    <2>1. op' \in Operation
        BY <1>2, <1>3, <1>8, ReturnType, ResolveAsType
        DEF Recheck, Operation, Phases, Claimed
    <2>2. used' \in [Budgets -> Nat]
        BY <1>8, UseType DEF Recheck, Budgets, StoreTypeOK
    <2>3. /\ rows' \in [Runs -> Row]
          /\ attempts' \in [Runs -> Seq(Attempt)]
          /\ aged' \subseteq Runs /\ deferred' \subseteq Runs
        <3>1. CASE UNCHANGED <<rows, attempts, aged, deferred>>
            BY <3>1 DEF StoreTypeOK
        <3>2. CASE RetentionDelete(op.run)
            BY <1>2, <3>2, DeleteRowType DEF RetentionDelete, StoreTypeOK
        <3>3. CASE /\ SetOutcome(op.run, op.attempt, "cancelled")
                   /\ UNCHANGED <<rows, aged, deferred>>
            BY <1>2, <1>3, <3>3, SetOutcomeType DEF StoreTypeOK
        <3>4. QED
            BY <1>8, <3>1, <3>2, <3>3 DEF Recheck
    <2>4. QED
        BY <1>8, <2>1, <2>2, <2>3
        DEF Recheck, StoreTypeOK, ProtocolTypeOK, protocolRest
<1>9. CASE Reverify(cancelled)
    <2>1. op' \in Operation
        BY <1>2, <1>3, <1>9, ResolveAsType DEF Reverify, Operation, Phases, Claimed
    <2>2. QED
        BY <1>9, <2>1 DEF Reverify, StoreTypeOK, ProtocolTypeOK, protocolRest
<1>10. CASE Dispatch
    <2>1. op' \in Operation
        BY <1>2, <1>3, <1>10, ResolveAsType DEF Dispatch, Operation, Phases, Claimed
    <2>2. [typed EXCEPT ![op.run] = @ + 1] \in [Runs -> Nat]
        BY <1>2 DEF ProtocolTypeOK
    <2>3. QED
        BY <1>10, <2>1, <2>2 DEF Dispatch, StoreTypeOK, ProtocolTypeOK
<1>11. CASE Confirm
    <2>1. op' \in Operation
        BY <1>2, <1>3, <1>11, ResolveAsType DEF Confirm
    <2>2. QED
        BY <1>11, <2>1 DEF Confirm, StoreTypeOK, ProtocolTypeOK, protocolRest
<1>12. CASE Resolve
    <2>1. op' \in Operation
        BY <1>2, <1>3, <1>12, ReturnType DEF Resolve
    <2>2. used' \in [Budgets -> Nat]
        BY <1>12, UseType DEF Resolve, Budgets, StoreTypeOK
    <2>3. attempts' \in [Runs -> Seq(Attempt)]
        BY <1>2, <1>3, <1>12, SetOutcomeType DEF Resolve, StoreTypeOK
    <2>4. QED
        BY <1>12, <2>1, <2>2, <2>3
        DEF Resolve, StoreTypeOK, ProtocolTypeOK, storeRest, protocolRest
<1>13. CASE Restore
    <2>1. op' \in Operation
        BY <1>2, <1>13 DEF Restore, Operation, Phases, Results
    <2>2. used' \in [Budgets -> Nat]
        BY <1>13, UseType DEF Restore, Budgets, StoreTypeOK
    <2>3. QED
        BY <1>13, <2>1, <2>2 DEF Restore, StoreTypeOK, ProtocolTypeOK, protocolRest
<1>14. QED
    BY <1>5, <1>6, <1>7, <1>8, <1>9, <1>10, <1>11, <1>12, <1>13 DEF ProtocolStep

-----------------------------------------------------------------------------
(* The steps of the coroutines. *)

\* A step of a coroutine changes its row, its phase, the queue and the slot.
LEMMA WorkFrame ==
    ASSUME TypeOK, UNCHANGED workRest,
           rows' \in [Runs -> Row], task' \in [Runs -> Task],
           queue' \in Seq(Request), slot' \in Runs \cup {NoRun}
    PROVE  TypeOK'
BY DEF TypeOK, StoreTypeOK, ProtocolTypeOK, ControlTypeOK, workRest, protocol

\* A present row has a status of the state machine.
LEMMA RowType ==
    ASSUME StoreTypeOK, NEW r \in Runs
    PROVE  /\ rows[r] \in Row
           /\ Visible(r) => Present(r) /\ rows[r].status \in Status
BY DEF StoreTypeOK, Visible, Present

\* A transition of the row, with or without its cleanup column.
LEMMA MoveWriteType ==
    ASSUME StoreTypeOK, NEW r \in Runs, Present(r), NEW e,
           Accepts(rows[r].status, e),
           Write(r, Moved(r, e)) \/ Write(r, Ended(Moved(r, e)))
    PROVE  rows' \in [Runs -> Row]
<1>1. Moved(r, e) \in Row /\ Ended(Moved(r, e)) \in Row
    BY RowType, MovedType, EndedType
<1>2. QED
    BY <1>1, WriteType DEF StoreTypeOK

\* A text is selected and the gate is asked for.
LEMMA SelectType ==
    ASSUME TypeOK, NEW r \in Runs, NEW cleanup \in Cleanups, Select(r, cleanup)
    PROVE  TypeOK'
<1>1. [rows[r] EXCEPT !.text = "selected", !.cleanup = cleanup] \in Row
    BY RowType DEF TypeOK, Row, Texts
<1>2. rows' \in [Runs -> Row]
    BY <1>1, WriteType DEF Select, TypeOK, StoreTypeOK
<1>3. task' \in [Runs -> Task]
    BY <1>2, PhaseType DEF Select, TypeOK, ControlTypeOK, TaskPhases
<1>4. queue' \in Seq(Request)
    <2>1. rows'[r].version \in Nat
        BY <1>2 DEF Row
    <2>2. QED
        BY <2>1, EnqueueType DEF Select, TypeOK, Callers
<1>5. QED
    BY <1>2, <1>3, <1>4, WorkFrame DEF Select, TypeOK, ControlTypeOK

\* Each step of a coroutine keeps every type.
LEMMA WorkStepType ==
    ASSUME TypeOK, NEW r \in Runs,
           \/ TaskStops(r) \/ TaskCancels(r) \/ EndRecording(r)
           \/ NoSpeech(r) \/ StoreText(r) \/ SelectAdjusted(r)
           \/ UseOriginal(r) \/ RetryCleanup(r)
           \/ CleanupSettles(r) \/ CleanupFails(r) \/ StaleWrite(r) \/ Failed(r)
    PROVE  TypeOK'
<1> USE DEF TypeOK
<1>1. /\ rows \in [Runs -> Row] /\ task \in [Runs -> Task]
      /\ queue \in Seq(Request) /\ slot \in Runs \cup {NoRun}
      /\ Freed(r) \in Runs \cup {NoRun}
    BY FreedType DEF StoreTypeOK, ControlTypeOK
<1>2. {"closing", "stt", "failed", "cleaning", "stored"} \subseteq TaskPhases
    BY DEF TaskPhases, Working
<1>3. CASE TaskStops(r)
    <2>1. task' \in [Runs -> Task]
        BY <1>1, <1>2, <1>3, PhaseType DEF TaskStops
    <2>2. QED
        BY <1>1, <1>3, <2>1, WorkFrame DEF TaskStops
<1>4. CASE TaskCancels(r)
    <2>1. task' \in [Runs -> Task]
        BY <1>1, <1>2, <1>4, PhaseType DEF TaskCancels
    <2>2. rows' \in [Runs -> Row]
        BY <1>1, <1>4, RowType, MoveWriteType DEF TaskCancels
    <2>3. QED
        BY <1>1, <1>4, <2>1, <2>2, WorkFrame DEF TaskCancels
<1>5. CASE EndRecording(r)
    <2>1. rows' \in [Runs -> Row]
        BY <1>1, <1>5, RowType, MoveWriteType DEF EndRecording, Proceeds
    <2>2. task' \in [Runs -> Task]
        BY <1>1, <1>2, <1>5, <2>1, PhaseType DEF EndRecording
    <2>3. QED
        BY <1>1, <1>5, <2>1, <2>2, WorkFrame DEF EndRecording
<1>6. CASE NoSpeech(r)
    <2>1. rows' \in [Runs -> Row]
        BY <1>1, <1>6, RowType, MoveWriteType DEF NoSpeech, Proceeds
    <2>2. task' \in [Runs -> Task]
        BY <1>1, <1>2, <1>6, PhaseType DEF NoSpeech
    <2>3. QED
        BY <1>1, <1>6, <2>1, <2>2, WorkFrame DEF NoSpeech
<1>7. CASE StoreText(r)
    <2>1. /\ [rows[r] EXCEPT !.text = "original", !.cleanup = "pending"] \in Row
          /\ [rows[r] EXCEPT !.text = "original"] \in Row
        BY RowType DEF Row, Texts, Cleanups
    <2>2. rows' \in [Runs -> Row]
        BY <1>1, <1>7, <2>1, WriteType DEF StoreText
    <2>3. task' \in [Runs -> Task]
        BY <1>1, <1>2, <1>7, <2>2, PhaseType DEF StoreText
    <2>4. QED
        BY <1>1, <1>7, <2>2, <2>3, WorkFrame DEF StoreText
<1>8. CASE SelectAdjusted(r)
    BY <1>8, SelectType DEF SelectAdjusted, Cleanups
<1>9. CASE UseOriginal(r)
    <2>1. rows[r].cleanup \in Cleanups
        BY RowType DEF Row
    <2>2. QED
        BY <1>9, <2>1, SelectType DEF UseOriginal
<1>10. CASE RetryCleanup(r)
    <2>1. [rows[r] EXCEPT !.text = "original", !.cleanup = "pending"] \in Row
        BY RowType DEF Row, Texts, Cleanups
    <2>2. rows' \in [Runs -> Row]
        BY <1>1, <1>10, <2>1, WriteType DEF RetryCleanup
    <2>3. task' \in [Runs -> Task]
        BY <1>1, <1>2, <1>10, <2>2, PhaseType DEF RetryCleanup
    <2>4. QED
        BY <1>1, <1>10, <2>2, <2>3, WorkFrame DEF RetryCleanup
<1>11. CASE CleanupSettles(r)
    BY <1>11, SelectType DEF CleanupSettles, Cleanups
<1>12. CASE CleanupFails(r)
    <2>1. rows' \in [Runs -> Row]
        <3>1. CASE Accepts(rows[r].status, "cleanup_failed")
            <4>1. Moved(r, "cleanup_failed") \in Row
                BY <1>12, <3>1, RowType, MovedType DEF CleanupFails, Proceeds
            <4>2. [Moved(r, "cleanup_failed") EXCEPT
                      !.cleanup = "settled", !.text = "original"] \in Row
                BY <4>1 DEF Row, Texts, Cleanups
            <4>3. QED
                BY <1>1, <1>12, <3>1, <4>2, WriteType DEF CleanupFails
        <3>2. CASE ~Accepts(rows[r].status, "cleanup_failed")
            BY <1>1, <1>12, <3>2 DEF CleanupFails
        <3>3. QED
            BY <3>1, <3>2
    <2>2. task' \in [Runs -> Task]
        BY <1>1, <1>2, <1>12, PhaseType DEF CleanupFails
    <2>3. QED
        BY <1>1, <1>12, <2>1, <2>2, WorkFrame DEF CleanupFails
<1>13. CASE StaleWrite(r)
    <2>1. task' \in [Runs -> Task]
        BY <1>1, <1>2, <1>13, PhaseType DEF StaleWrite
    <2>2. QED
        BY <1>1, <1>13, <2>1, WorkFrame DEF StaleWrite
<1>14. CASE Failed(r)
    <2>1. rows' \in [Runs -> Row]
        BY <1>1, <1>14, RowType, MoveWriteType DEF Failed
    <2>2. task' \in [Runs -> Task]
        BY <1>1, <1>2, <1>14, PhaseType DEF Failed
    <2>3. QED
        BY <1>1, <1>14, <2>1, <2>2, WorkFrame DEF Failed
<1>15. QED
    BY <1>3, <1>4, <1>5, <1>6, <1>7, <1>8, <1>9, <1>10, <1>11, <1>12, <1>13,
       <1>14

\* The beginning and the end of a coroutine.
LEMMA TaskEndsType ==
    ASSUME TypeOK, NEW r \in Runs,
           \/ Start(r) \/ TaskFault(r) \/ Close(r) \/ CloseFault(r)
           \/ OrphanClose(r)
    PROVE  TypeOK'
<1> USE DEF TypeOK
<1>1. /\ rows \in [Runs -> Row] /\ task \in [Runs -> Task]
      /\ Freed(r) \in Runs \cup {NoRun} /\ slot \in Runs \cup {NoRun}
      /\ flagged \subseteq Runs /\ aborted \subseteq Runs
      /\ orphan \in [Runs -> Kinds \cup {"none"}]
    BY FreedType DEF StoreTypeOK, ControlTypeOK
<1>2. ASSUME NEW kind, Finally(r, kind)
      PROVE  /\ rows' \in [Runs -> Row]
             /\ flagged' \subseteq Runs /\ aborted' \subseteq Runs
             /\ slot' \in Runs \cup {NoRun}
    <2>1. rows' \in [Runs -> Row]
        BY <1>1, <1>2, RowType, MoveWriteType DEF Finally
    <2>2. QED
        BY <1>1, <1>2, <2>1 DEF Finally
<1>3. CASE Start(r)
    <2>1. rows' \in [Runs -> Row]
        BY <1>1, <1>3 DEF Start, CreateRow, Row, Texts, Cleanups, Status
    <2>2. task' \in [Runs -> Task]
        BY <1>1, <1>3 DEF Start, Task, Kinds, TaskPhases, Working
    <2>3. QED
        BY <1>3, <2>1, <2>2
        DEF Start, StoreTypeOK, ProtocolTypeOK, ControlTypeOK, protocol
<1>4. CASE TaskFault(r)
    <2>1. used' \in [Budgets -> Nat]
        BY <1>4, UseType DEF TaskFault, Budgets
    <2>2. task' \in [Runs -> Task]
        BY <1>1, <1>4, PhaseType DEF TaskFault, TaskPhases
    <2>3. QED
        BY <1>1, <1>4, <2>1, <2>2
        DEF TaskFault, StoreTypeOK, ProtocolTypeOK, ControlTypeOK, store, protocol
<1>5. CASE Close(r)
    <2>1. task' \in [Runs -> Task]
        BY <1>1, <1>5, PhaseType DEF Close, TaskPhases
    <2>2. QED
        BY <1>1, <1>2, <1>5, <2>1
        DEF Close, StoreTypeOK, ProtocolTypeOK, ControlTypeOK, closeRest, protocol
<1>6. CASE CloseFault(r)
    <2>1. used' \in [Budgets -> Nat]
        BY <1>6, UseType DEF CloseFault, Budgets
    <2>2. task' \in [Runs -> Task]
        BY <1>1, <1>6, PhaseType DEF CloseFault, TaskPhases
    <2>3. QED
        BY <1>1, <1>6, <2>1, <2>2
        DEF CloseFault, StoreTypeOK, ProtocolTypeOK, ControlTypeOK, closeRest,
            protocol
<1>7. CASE OrphanClose(r)
    BY <1>1, <1>2, <1>7
    DEF OrphanClose, StoreTypeOK, ProtocolTypeOK, ControlTypeOK, closeRest,
        protocol
<1>8. QED
    BY <1>3, <1>4, <1>5, <1>6, <1>7

-----------------------------------------------------------------------------
(* The operations that hold the gate. *)

\* An operation of the gate changes the rows, the queue, the phases and the
\* sets of runs, and leaves the rest.
LEMMA GateFrame ==
    ASSUME TypeOK, UNCHANGED <<aged, deferred, typed, orphan, pend, deleting,
                               slot, up, cancelWanted, attempts, aborted, spent>>,
           rows' \in [Runs -> Row], used' \in [Budgets -> Nat],
           op' \in Operation \cup {Idle}, refused' \subseteq Runs,
           queue' \in Seq(Request), task' \in [Runs -> Task],
           flagged' \subseteq Runs, waiting' \subseteq Runs,
           overdue' \subseteq Runs
    PROVE  TypeOK'
BY DEF TypeOK, StoreTypeOK, ProtocolTypeOK, ControlTypeOK

\* The row an outcome is applied to keeps its type.
LEMMA AppliedType ==
    ASSUME StoreTypeOK, NEW r \in Runs, Present(r), NEW result \in Results,
           result \in DispatchResults \/ Applies(rows[r].status, result)
    PROVE  Applied(r, result) \in Row
<1>1. rows[r] \in Row
    BY RowType
<1>2. CASE result \in DispatchResults
    <2>1. OutcomeMove[result] \in Status
        BY <1>2, OutcomeType
    <2>2. QED
        BY <1>1, <1>2, <2>1 DEF Applied, Row
<1>3. CASE result \notin DispatchResults
    <2>1. Accepts(rows[r].status, EventOf[result])
        BY <1>3 DEF Applies
    <2>2. result = "cancelled" => EventOf[result] = "cancel"
        BY DEF EventOf
    <2>3. QED
        BY <1>1, <1>3, <2>1, <2>2, MovedType, EndedType DEF Applied
<1>4. QED
    BY <1>2, <1>3

\* What holds of the variables before a step of the gate.
LEMMA GateTypes ==
    ASSUME TypeOK
    PROVE  /\ rows \in [Runs -> Row] /\ used \in [Budgets -> Nat]
           /\ Idle \in Operation \cup {Idle} /\ refused \subseteq Runs
           /\ queue \in Seq(Request) /\ task \in [Runs -> Task]
           /\ flagged \subseteq Runs /\ waiting \subseteq Runs
           /\ overdue \subseteq Runs
           /\ op.at # "idle" => op \in Operation /\ op.run \in Runs
           /\ {"closing", "failed", "done"} \subseteq TaskPhases
BY BusyType DEF TypeOK, StoreTypeOK, ProtocolTypeOK, ControlTypeOK, TaskPhases

\* Automatic delivery keeps every type.
LEMMA AutoStepType ==
    ASSUME TypeOK, AutoStart \/ AutoApply \/ AutoSettle
    PROVE  TypeOK'
<1>1. CASE AutoStart
    <2> DEFINE r == Head(queue).run
    <2>1. /\ r \in Runs /\ queue' \in Seq(Request)
          /\ Opened("verify") \in Operation
        BY <1>1, GrantedType DEF AutoStart, TypeOK, Callers, Phases
    <2>2. CASE Cancelled(r)
        <3>1. rows' \in [Runs -> Row]
            BY <1>1, <2>1, <2>2, GateTypes, RowType, MoveWriteType
            DEF AutoStart, TypeOK
        <3>2. task' \in [Runs -> Task]
            BY <1>1, <2>1, <2>2, GateTypes, PhaseType DEF AutoStart
        <3>3. QED
            BY <1>1, <2>1, <2>2, <3>1, <3>2, GateTypes, GateFrame
            DEF AutoStart, gateRest, Release
    <2>3. CASE ~Cancelled(r)
        BY <1>1, <2>1, <2>3, GateTypes, GateFrame DEF AutoStart, gateRest
    <2>4. QED
        BY <2>2, <2>3
<1>2. CASE AutoApply
    <2> DEFINE r == op.run
    <2>1. r \in Runs /\ op \in Operation /\ op.result \in Results
        BY <1>2, GateTypes DEF AutoApply, Operation
    <2>2. op' \in Operation \cup {Idle}
        <3>1. /\ [op EXCEPT !.at = "applied"] \in Operation
              /\ [op EXCEPT !.at = "applied", !.result = "none"] \in Operation
            BY <2>1 DEF Operation, Phases, Results
        <3>2. QED
            BY <1>2, <3>1 DEF AutoApply, Release
    <2>3. task' \in [Runs -> Task]
        BY <1>2, <2>1, GateTypes, PhaseType DEF AutoApply
    <2>4. used' \in [Budgets -> Nat]
        BY <1>2, GateTypes, UseType DEF AutoApply, TypeOK, Budgets
    <2>5. rows' \in [Runs -> Row]
        <3>1. CASE Visible(r) /\ Applies(rows[r].status, op.result)
            <4>1. Applied(r, op.result) \in Row
                BY <2>1, <3>1, RowType, AppliedType DEF TypeOK
            <4>2. ASSUME NEW n \in {rows[q].since + 1 : q \in Runs}
                  PROVE  [Applied(r, op.result) EXCEPT !.since = n] \in Row
                <5>1. n \in Nat
                    BY GateTypes DEF Row
                <5>2. QED
                    BY <4>1, <5>1 DEF Row
            <4>3. QED
                BY <1>2, <2>1, <4>1, <4>2, GateTypes, WriteType DEF AutoApply
        <3>2. CASE UNCHANGED rows
            BY <3>2, GateTypes
        <3>3. QED
            BY <1>2, <3>1, <3>2 DEF AutoApply
    <2>6. flagged' \subseteq Runs
        BY <1>2, <2>1, GateTypes DEF AutoApply
    <2>7. QED
        BY <1>2, <2>2, <2>3, <2>4, <2>5, <2>6, GateTypes, GateFrame
        DEF AutoApply, gateRest
<1>3. CASE AutoSettle
    <2>1. op.run \in Runs
        BY <1>3, GateTypes DEF AutoSettle
    <2>2. task' \in [Runs -> Task]
        BY <1>3, <2>1, GateTypes, PhaseType DEF AutoSettle
    <2>3. waiting' \subseteq Runs /\ flagged' \subseteq Runs
        BY <1>3, <2>1, GateTypes DEF AutoSettle
    <2>4. QED
        BY <1>3, <2>2, <2>3, GateTypes, GateFrame DEF AutoSettle, gateRest, Release
<1>4. QED
    BY <1>1, <1>2, <1>3

\* The delivery tick keeps every type.
LEMMA TickStepType ==
    ASSUME TypeOK, TickDue \/ TickStart \/ TickApply
    PROVE  TypeOK'
<1>1. CASE TickDue
    <2>1. [by |-> "tick", run |-> NoRun, version |-> 0, ack |-> FALSE] \in Request
        BY DEF Request
    <2>2. queue' \in Seq(Request)
        BY <1>1, <2>1, GateTypes DEF TickDue, Enqueue
    <2>3. QED
        BY <1>1, <2>2
        DEF TickDue, TypeOK, StoreTypeOK, ProtocolTypeOK, ControlTypeOK, store,
            protocol
<1>2. CASE TickStart
    <2>1. queue' \in Seq(Request) /\ Head(queue) \in Request
        BY <1>2, GrantedType DEF TickStart, TypeOK, Callers
    <2>2. /\ Head(queue).run = NoRun /\ Head(queue).version \in Nat
          /\ Head(queue).ack \in BOOLEAN /\ Head(queue).by \in Callers
        <3>1. Head(queue).by = "tick"
            BY <1>2 DEF TickStart, Granted
        <3>2. Head(queue) \in [by : {"tick"}, run : {NoRun}, version : {0},
                                ack : {FALSE}]
            BY <2>1, <3>1 DEF Request
        <3>3. Head(queue).run = NoRun /\ Head(queue).version \in Nat
            BY <3>2
        <3>4. Head(queue).ack \in BOOLEAN
            BY <3>2
        <3>5. QED
            BY <3>1, <3>3, <3>4 DEF Callers
    <2>3. ASSUME NEW r \in Runs
          PROVE  [Opened("look") EXCEPT !.run = r] \in Operation
        <3> DEFINE Unplaced == [at : Phases, by : Callers, run : {NoRun},
                                version : Nat, ack : BOOLEAN, entry : BOOLEAN,
                                attempt : Nat, jumped : BOOLEAN,
                                outcome : Outcomes, result : Results]
        <3>1. Opened("look") \in Unplaced
            BY <2>2 DEF Opened, Idle, Phases, Outcomes, Results
        <3>2. ASSUME NEW o \in Unplaced
              PROVE  [o EXCEPT !.run = r] \in Operation
            BY DEF Operation
        <3>3. QED
            BY <3>1, <3>2
    <2>4. ASSUME NEW r \in Runs, NEW result \in {"cancelled", "held"}
          PROVE  [[Opened("look") EXCEPT !.run = r] EXCEPT
                     !.at = "result", !.result = result] \in Operation
        BY <2>3 DEF Operation, Phases, Results
    <2>5. op' \in Operation \cup {Idle}
        BY <1>2, <2>3, <2>4, GateTypes DEF TickStart, Release
    <2>6. waiting' \subseteq Runs /\ refused' \subseteq Runs
        BY <1>2, GateTypes DEF TickStart
    <2>7. QED
        BY <1>2, <2>1, <2>5, <2>6, GateTypes, GateFrame DEF TickStart, tickRest
<1>3. CASE TickApply
    <2> DEFINE r == op.run
    <2>1. r \in Runs /\ op.result \in Results
        BY <1>3, GateTypes DEF TickApply, Operation
    <2>2. rows' \in [Runs -> Row]
        <3>1. CASE Visible(r) /\ Applies(rows[r].status, op.result)
            <4>1. Applied(r, op.result) \in Row
                BY <2>1, <3>1, RowType, AppliedType DEF TypeOK
            <4>2. QED
                BY <1>3, <2>1, <4>1, GateTypes, WriteType DEF TickApply
        <3>2. CASE UNCHANGED rows
            BY <3>2, GateTypes
        <3>3. QED
            BY <1>3, <3>1, <3>2 DEF TickApply
    <2>3. used' \in [Budgets -> Nat]
        BY <1>3, GateTypes, UseType DEF TickApply, TypeOK, Budgets
    <2>4. /\ waiting' \subseteq Runs /\ refused' \subseteq Runs
          /\ overdue' \subseteq Runs
        BY <1>3, GateTypes DEF TickApply
    <2>5. QED
        BY <1>3, <2>2, <2>3, <2>4, GateTypes, GateFrame
        DEF TickApply, tickRest, Release
<1>4. QED
    BY <1>1, <1>2, <1>3

\* Explicit insertion keeps every type.
LEMMA ExplicitStepType ==
    ASSUME TypeOK, ExplicitStart \/ ExplicitApply \/ ExplicitReturns
    PROVE  TypeOK'
<1>1. CASE ExplicitStart
    <2> DEFINE r == Head(queue).run
    <2>1. r \in Runs /\ queue' \in Seq(Request) /\ Opened("verify") \in Operation
        BY <1>1, GrantedType DEF ExplicitStart, TypeOK, Callers, Phases
    <2>2. [Opened("verify") EXCEPT !.entry = r \in waiting] \in Operation
        <3>1. ASSUME NEW entry \in BOOLEAN
              PROVE  [Opened("verify") EXCEPT !.entry = entry] \in Operation
            BY <2>1 DEF Operation
        <3>2. (r \in waiting) \in BOOLEAN
            OBVIOUS
        <3>3. QED
            BY <3>1, <3>2
    <2>3. op' \in Operation \cup {Idle}
        BY <1>1, <2>2, BeginType, GateTypes DEF ExplicitStart, Release
    <2>4. waiting' \subseteq Runs /\ flagged' \subseteq Runs
        BY <1>1, GateTypes DEF ExplicitStart
    <2>5. QED
        BY <1>1, <2>1, <2>3, <2>4, GateTypes, GateFrame
        DEF ExplicitStart, explicitRest, gateRest
<1>2. CASE ExplicitApply
    <2> DEFINE r == op.run
    <2>1. r \in Runs /\ op.result \in Results
        BY <1>2, GateTypes DEF ExplicitApply, Operation
    <2>2. rows' \in [Runs -> Row]
        <3>1. CASE Visible(r) /\ op.result \in DispatchResults
            <4>1. Applied(r, op.result) \in Row
                BY <2>1, <3>1, RowType, AppliedType DEF TypeOK
            <4>2. QED
                BY <1>2, <2>1, <4>1, GateTypes, WriteType DEF ExplicitApply
        <3>2. CASE UNCHANGED rows
            BY <3>2, GateTypes
        <3>3. QED
            BY <1>2, <3>1, <3>2 DEF ExplicitApply
    <2>3. used' \in [Budgets -> Nat]
        BY <1>2, GateTypes, UseType DEF ExplicitApply, TypeOK, Budgets
    <2>4. flagged' \subseteq Runs
        BY <1>2, GateTypes DEF ExplicitApply
    <2>5. QED
        BY <1>2, <2>2, <2>3, <2>4, GateTypes, GateFrame
        DEF ExplicitApply, explicitRest, gateRest, Release
<1>3. CASE ExplicitReturns
    <2>1. op.run \in Runs
        BY <1>3, GateTypes DEF ExplicitReturns
    <2>2. waiting' \subseteq Runs /\ flagged' \subseteq Runs
        BY <1>3, <2>1, GateTypes DEF ExplicitReturns
    <2>3. QED
        BY <1>3, <2>2, GateTypes, GateFrame
        DEF ExplicitReturns, explicitRest, gateRest, Release
<1>4. QED
    BY <1>1, <1>2, <1>3

\* A queued cancel keeps every type; its write needs the row it read.
LEMMA CancelStepType ==
    ASSUME TypeOK, CancelRead, CancelStart \/ CancelWrite
    PROVE  TypeOK'
<1>1. CASE CancelStart
    <2> DEFINE r == Head(queue).run
    <2>1. r \in Runs /\ queue' \in Seq(Request) /\ Opened("cancel_write") \in Operation
        BY <1>1, GrantedType DEF CancelStart, TypeOK, Callers, Phases
    <2>2. rows[r].version \in Nat
        BY <2>1, GateTypes DEF Row
    <2>3. [Opened("cancel_write") EXCEPT !.version = rows[r].version] \in Operation
        BY <2>1, <2>2 DEF Operation
    <2>4. op' \in Operation \cup {Idle} /\ flagged' \subseteq Runs
        BY <1>1, <2>3, GateTypes DEF CancelStart, Release
    <2>5. QED
        BY <1>1, <2>1, <2>4, GateTypes, GateFrame
        DEF CancelStart, cancelRest, gateRest
<1>2. CASE CancelWrite
    <2>1. op.run \in Runs
        BY <1>2, GateTypes DEF CancelWrite
    <2>2. rows' \in [Runs -> Row]
        BY <1>2, <2>1, GateTypes, RowType, MoveWriteType
        DEF CancelWrite, CancelRead, TypeOK
    <2>3. used' \in [Budgets -> Nat]
        BY <1>2, GateTypes, UseType DEF CancelWrite, TypeOK, Budgets
    <2>4. QED
        BY <1>2, <2>2, <2>3, GateTypes, GateFrame
        DEF CancelWrite, cancelRest, gateRest, Release
<1>3. QED
    BY <1>1, <1>2

-----------------------------------------------------------------------------
(* The commands of the user, the deletions, the crash and the startup. *)

\* Each command of the user keeps every type.
LEMMA UserStepType ==
    ASSUME TypeOK, NEW r \in Runs,
           \/ Cancel(r) \/ Delete(r)
           \/ \E ack \in BOOLEAN : RecoverInsert(r, ack)
           \/ \E action \in Kinds \ {"process"} : RecoverCommit(r, action)
           \/ RecoverLaunch(r)
    PROVE  TypeOK'
<1> USE DEF TypeOK
<1>1. Freed(r) \in Runs \cup {NoRun} /\ rows[r].version \in Nat
    BY FreedType, RowType DEF Row
<1>2. CASE Cancel(r)
    <2>1. used' \in [Budgets -> Nat]
        BY <1>2, UseType DEF Cancel, Budgets
    <2>2. queue' \in Seq(Request)
        BY <1>2, EnqueueType DEF Cancel, ControlTypeOK, Callers
    <2>3. slot' \in Runs \cup {NoRun}
        BY <1>1, <1>2 DEF Cancel, ControlTypeOK
    <2>4. QED
        BY <1>2, <2>1, <2>2, <2>3
        DEF Cancel, StoreTypeOK, ProtocolTypeOK, ControlTypeOK, store, protocol
<1>3. CASE Delete(r)
    <2>1. used' \in [Budgets -> Nat]
        BY <1>3, UseType DEF Delete, Budgets
    <2>2. QED
        BY <1>1, <1>3, <2>1
        DEF Delete, Abort, StoreTypeOK, ProtocolTypeOK, ControlTypeOK, store,
            abortRest
<1>4. CASE \E ack \in BOOLEAN : RecoverInsert(r, ack)
    <2>1. used' \in [Budgets -> Nat]
        BY <1>4, UseType DEF RecoverInsert, Budgets
    <2>2. queue' \in Seq(Request)
        BY <1>1, <1>4, EnqueueType DEF RecoverInsert, Callers
    <2>3. QED
        BY <1>4, <2>1, <2>2
        DEF RecoverInsert, StoreTypeOK, ProtocolTypeOK, ControlTypeOK, store,
            protocol
<1>5. ASSUME NEW action \in Kinds \ {"process"}, RecoverCommit(r, action)
      PROVE  TypeOK'
    <2>1. used' \in [Budgets -> Nat]
        BY <1>5, UseType DEF RecoverCommit, Budgets
    <2>2. Accepts(rows[r].status, action)
        BY <1>5, RowType, RecoveryAccepted DEF RecoverCommit
    <2>3. rows' \in [Runs -> Row]
        BY <1>5, <2>2, RowType, MoveWriteType DEF RecoverCommit
    <2>4. QED
        BY <1>5, <2>1, <2>3
        DEF RecoverCommit, StoreTypeOK, ProtocolTypeOK, ControlTypeOK, protocol
<1>6. CASE RecoverLaunch(r)
    <2>1. pend[r] \in Kinds /\ task[r].kind \in Kinds
        BY <1>6 DEF RecoverLaunch, ControlTypeOK, Task
    <2>2. task' \in [Runs -> Task]
        BY <1>1, <1>6, <2>1
        DEF RecoverLaunch, ControlTypeOK, Task, TaskPhases, Working
    <2>3. QED
        BY <1>6, <2>1, <2>2
        DEF RecoverLaunch, StoreTypeOK, ProtocolTypeOK, ControlTypeOK, store,
            protocol
<1>7. QED
    BY <1>2, <1>3, <1>4, <1>5, <1>6

\* The deletions, the ageing of a row and the clock keep every type.
LEMMA RemovalStepType ==
    ASSUME TypeOK, NEW r \in Runs,
           \/ RemoveRow(r) \/ Expire(r) \/ Age(r) \/ Retire(r) \/ Evicted(r)
           \/ WaitLimit(r)
    PROVE  TypeOK'
<1> USE DEF TypeOK
<1>1. Freed(r) \in Runs \cup {NoRun}
    BY FreedType
<1>2. ASSUME DeleteRow(r)
      PROVE  /\ rows' \in [Runs -> Row] /\ attempts' \in [Runs -> Seq(Attempt)]
             /\ aged' \subseteq Runs
    BY <1>2, DeleteRowType
<1>3. ASSUME NEW k \in Budgets, Use(k)
      PROVE  used' \in [Budgets -> Nat]
    BY <1>3, UseType
<1>4. CASE RemoveRow(r)
    BY <1>2, <1>3, <1>4
    DEF RemoveRow, Budgets, StoreTypeOK, ProtocolTypeOK, ControlTypeOK, abortRest
<1>5. CASE Expire(r)
    BY <1>2, <1>3, <1>5
    DEF Expire, RetentionDelete, Budgets, StoreTypeOK, ProtocolTypeOK,
        ControlTypeOK, abortRest
<1>6. CASE Age(r)
    BY <1>3, <1>6
    DEF Age, Budgets, StoreTypeOK, ProtocolTypeOK, ControlTypeOK, abortRest
<1>7. CASE Retire(r)
    BY <1>2, <1>7
    DEF Retire, RetentionDelete, StoreTypeOK, ProtocolTypeOK, ControlTypeOK,
        abortRest
<1>8. CASE Evicted(r)
    BY <1>1, <1>8
    DEF Evicted, Abort, StoreTypeOK, ProtocolTypeOK, ControlTypeOK, abortRest
<1>9. CASE WaitLimit(r)
    BY <1>9
    DEF WaitLimit, StoreTypeOK, ProtocolTypeOK, ControlTypeOK, store, protocol
<1>10. QED
    BY <1>4, <1>5, <1>6, <1>7, <1>8, <1>9

\* A crash and the startup after it keep every type.
LEMMA RestartStepType ==
    ASSUME TypeOK, Crash \/ Startup
    PROVE  TypeOK'
<1> USE DEF TypeOK
<1>1. CASE Crash
    <2>1. used' \in [Budgets -> Nat]
        BY <1>1, UseType DEF Crash, Budgets
    <2>2. NoTask \in Task
        BY DEF NoTask, Task, Kinds, TaskPhases
    <2>3. << >> \in Seq(Request)
        OBVIOUS
    <2>4. QED
        BY <1>1, <2>1, <2>2, <2>3
        DEF Crash, StoreTypeOK, ProtocolTypeOK, ControlTypeOK
<1>2. CASE RecoverOnStartup
    BY <1>2, RecoverStoreType
    DEF RecoverOnStartup, StoreTypeOK, ProtocolTypeOK, ControlTypeOK,
        startupRest, protocol
<1>3. CASE Serve
    BY <1>3
    DEF Serve, StoreTypeOK, ProtocolTypeOK, ControlTypeOK, startupRest, store,
        protocol
<1>4. ASSUME NEW r \in Runs, FailInterrupted(r)
      PROVE  TypeOK'
    <2>1. rows' \in [Runs -> Row]
        BY <1>4, InterruptedAccepted, MoveWriteType DEF FailInterrupted, Present
    <2>2. QED
        BY <1>4, <2>1
        DEF FailInterrupted, StoreTypeOK, ProtocolTypeOK, ControlTypeOK,
            startupRest, protocol
<1>5. QED
    BY <1>1, <1>2, <1>3, <1>4 DEF Startup

\* A delivery step keeps every type.
LEMMA DeliverStepType ==
    ASSUME TypeOK, Deliver
    PROVE  TypeOK'
<1>1. StoreTypeOK' /\ ProtocolTypeOK'
    BY ProtocolStepType DEF TypeOK, Deliver
<1>2. spent' \subseteq Runs \X Nat
    <2>1. CASE spent' = spent
        BY <2>1 DEF TypeOK, ControlTypeOK
    <2>2. CASE spent' = spent \cup {<<op.run, op.version>>}
        <3>1. op.at # "idle"
            BY DEF Deliver, ProtocolStep, Look, VerifyFirst, ClaimAttempt,
                   Recheck, Reverify, Dispatch, Confirm, Resolve, Restore
        <3>2. op.run \in Runs /\ op.version \in Nat
            BY <3>1, BusyType DEF TypeOK, Operation
        <3>3. QED
            BY <2>2, <3>2 DEF TypeOK, ControlTypeOK
    <2>3. QED
        BY <2>1, <2>2 DEF Deliver
<1>3. ControlTypeOK'
    BY <1>2 DEF TypeOK, Deliver, ControlTypeOK, control
<1>4. QED
    BY <1>1, <1>3 DEF TypeOK

\* Every step keeps every type.
LEMMA StepType ==
    ASSUME TypeOK, CancelRead, Next
    PROVE  TypeOK'
<1>1. CASE Gate
    BY <1>1, AutoStepType, TickStepType, ExplicitStepType, CancelStepType
    DEF Gate
<1>2. ASSUME NEW r \in Runs,
             Work(r) \/ User(r) \/ Environment(r) \/ Background(r)
      PROVE  TypeOK'
    BY <1>2, WorkStepType, TaskEndsType, UserStepType, RemovalStepType
    DEF Work, User, Environment, Background
<1>3. QED
    BY <1>1, <1>2, DeliverStepType, TickStepType, RestartStepType DEF Next

\* The initial state has the types.
LEMMA InitType == Init => TypeOK
<1> SUFFICES ASSUME Init PROVE TypeOK
    OBVIOUS
<1>1. StoreTypeOK
    BY DEF Init, StoreInit, StoreTypeOK, Row, Texts, Cleanups
<1>2. ProtocolTypeOK
    BY DEF Init, ProtocolInit, ProtocolTypeOK
<1>3. NoTask \in Task
    BY DEF NoTask, Task, Kinds, TaskPhases
<1>4. ControlTypeOK
    BY <1>3 DEF Init, ControlTypeOK
<1>5. QED
    BY <1>1, <1>2, <1>4 DEF TypeOK

-----------------------------------------------------------------------------
(* How a step changes a row and the operation of the gate. *)

\* A run becomes done by an operation that reports its text inserted.
Earned(r, status) ==
    status = "done" =>
        rows[r].status = "done" \/ (op.run = r /\ op.result = "inserted")

\* Only an explicit insert asked for with that version moves a run that ended.
Reopened(r, status) ==
    rows[r].status \in Terminal =>
        \/ status = rows[r].status
        \/ /\ op.by = "explicit" /\ op.run = r
           /\ op.version = rows[r].version

RowEvolves(r) ==
    \/ rows'[r] = rows[r]
    \/ rows'[r].status = "deleted"
    \/ /\ Present(r) /\ rows'[r].status \in Status
       /\ Earned(r, rows'[r].status) /\ Reopened(r, rows'[r].status)
       /\ rows'[r].version = rows[r].version + 1
    \/ rows[r].status = "absent" /\ rows'[r].status = "recording"

\* A write raises the version of its row and leaves the others.
LEMMA WriteEvolves ==
    ASSUME StoreTypeOK, NEW r \in Runs, Present(r), NEW row \in Row,
           row.status \in Status, Earned(r, row.status),
           Reopened(r, row.status), Write(r, row)
    PROVE  \A q \in Runs : RowEvolves(q)
BY WriteType DEF StoreTypeOK, RowEvolves

\* So does a transition.
LEMMA MoveEvolves ==
    ASSUME StoreTypeOK, NEW r \in Runs, Present(r), NEW e,
           Accepts(rows[r].status, e),
           Write(r, Moved(r, e)) \/ Write(r, Ended(Moved(r, e)))
    PROVE  \A q \in Runs : RowEvolves(q)
<1>1. /\ Moved(r, e) \in Row /\ Ended(Moved(r, e)) \in Row
      /\ Moved(r, e).status \in Status \ {"done"}
    BY RowType, MovedType, EndedType
<1>2. Ended(Moved(r, e)).status = Moved(r, e).status
    BY <1>1 DEF Ended, Row
<1>3. rows[r].status \notin Terminal
    BY DEF Terminal, Accepts, Moves
<1>4. QED
    BY <1>1, <1>2, <1>3, WriteEvolves DEF Earned, Reopened

\* And the outcome of an operation.
LEMMA AppliedEvolves ==
    ASSUME StoreTypeOK, NEW r \in Runs, Present(r), NEW result \in Results,
           op.run = r, op.result = result,
           result \in DispatchResults \/ Applies(rows[r].status, result),
           \/ Applies(rows[r].status, result)
           \/ op.by = "explicit" /\ op.version = rows[r].version,
           NEW n \in Nat,
           \/ Write(r, Applied(r, result))
           \/ Write(r, [Applied(r, result) EXCEPT !.since = n])
    PROVE  \A q \in Runs : RowEvolves(q)
<1>1. Applied(r, result) \in Row
    BY AppliedType
<1>2. /\ Applied(r, result).status \in Status
      /\ Applied(r, result).status = "done" => result = "inserted"
    <2>1. CASE result \in DispatchResults
        <3>1. OutcomeMove[result] = "done" => result = "inserted"
            BY <2>1 DEF DispatchResults, OutcomeMove
        <3>2. QED
            BY <2>1, <3>1, OutcomeType, RowType DEF Applied, Row
    <2>2. CASE result \notin DispatchResults
        <3>1. Accepts(rows[r].status, EventOf[result])
            BY <2>2 DEF Applies
        <3>2. result = "cancelled" => EventOf[result] = "cancel"
            BY DEF EventOf
        <3>3. Moved(r, EventOf[result]) \in Row
              /\ Moved(r, EventOf[result]).status \in Status \ {"done"}
            BY <3>1, RowType, MovedType
        <3>4. Ended(Moved(r, EventOf[result])).status
                = Moved(r, EventOf[result]).status
            BY <3>3 DEF Ended, Row
        <3>5. QED
            BY <2>2, <3>2, <3>3, <3>4 DEF Applied
    <2>3. QED
        BY <2>1, <2>2
<1>3. /\ [Applied(r, result) EXCEPT !.since = n] \in Row
      /\ [Applied(r, result) EXCEPT !.since = n].status = Applied(r, result).status
    BY <1>1 DEF Row
<1>4. Applies(rows[r].status, result) => rows[r].status \notin Terminal
    BY DEF Applies, Terminal, Accepts, Moves
<1>5. QED
    BY <1>1, <1>2, <1>3, <1>4, WriteEvolves DEF Earned, Reopened

\* A deletion buries its row and leaves the others.
LEMMA DeleteEvolves ==
    ASSUME StoreTypeOK, NEW r \in Runs, DeleteRow(r)
    PROVE  \A q \in Runs : RowEvolves(q)
BY DEF StoreTypeOK, DeleteRow, Tombstone, RowEvolves

\* Every step changes a row in one of these ways.
LEMMA RowsEvolve ==
    ASSUME TypeOK, CancelRead, Next
    PROVE  \A q \in Runs : RowEvolves(q)
<1> USE DEF TypeOK
<1>1. CASE UNCHANGED rows
    BY <1>1 DEF RowEvolves
<1>2. CASE Deliver
    <2>1. CASE Recheck
        <3>1. op.run \in Runs
            BY <2>1, GateTypes DEF Recheck
        <3>2. rows' = rows \/ DeleteRow(op.run)
            BY <2>1 DEF Recheck, RetentionDelete
        <3>3. QED
            BY <1>1, <3>1, <3>2, DeleteEvolves
    <2>2. CASE ~Recheck
        BY <1>1, <1>2, <2>2
        DEF Deliver, ProtocolStep, Look, VerifyFirst, ClaimAttempt, Reverify,
            Dispatch, Confirm, Resolve, Restore, storeRest
    <2>3. QED
        BY <2>1, <2>2
<1>3. CASE Gate
    <2>1. CASE AutoStart
        <3>1. Head(queue).run \in Runs
            BY <2>1, GrantedType DEF AutoStart, Callers
        <3>2. QED
            BY <1>1, <2>1, <3>1, RowType, MoveEvolves DEF AutoStart
    <2>2. CASE AutoApply
        <3>1. op.run \in Runs /\ op.result \in Results
            BY <2>2, GateTypes DEF AutoApply, Operation
        <3>2. CASE Visible(op.run) /\ Applies(rows[op.run].status, op.result)
            <4>1. Present(op.run) /\ 0 \in Nat
                BY <3>2 DEF Visible
            <4>2. \A n \in {rows[q].since + 1 : q \in Runs} : n \in Nat
                BY GateTypes DEF Row
            <4>3. QED
                BY <1>1, <2>2, <3>1, <3>2, <4>1, <4>2, AppliedEvolves
                DEF AutoApply
        <3>3. CASE ~(Visible(op.run) /\ Applies(rows[op.run].status, op.result))
            BY <1>1, <2>2, <3>3 DEF AutoApply
        <3>4. QED
            BY <3>2, <3>3
    <2>3. CASE TickApply
        <3>1. op.run \in Runs /\ op.result \in Results
            BY <2>3, GateTypes DEF TickApply, Operation
        <3>2. CASE Visible(op.run) /\ Applies(rows[op.run].status, op.result)
            <4>1. Present(op.run) /\ 0 \in Nat
                BY <3>2 DEF Visible
            <4>2. QED
                BY <1>1, <2>3, <3>1, <3>2, <4>1, AppliedEvolves DEF TickApply
        <3>3. CASE ~(Visible(op.run) /\ Applies(rows[op.run].status, op.result))
            BY <1>1, <2>3, <3>3 DEF TickApply
        <3>4. QED
            BY <3>2, <3>3
    <2>4. CASE ExplicitApply
        <3>1. op.run \in Runs /\ op.result \in Results
            BY <2>4, GateTypes DEF ExplicitApply, Operation
        <3>2. CASE /\ Visible(op.run) /\ op.result \in DispatchResults
                   /\ rows[op.run].version = op.version
            <4>1. Present(op.run) /\ 0 \in Nat
                BY <3>2 DEF Visible
            <4>2. QED
                BY <1>1, <2>4, <3>1, <3>2, <4>1, AppliedEvolves DEF ExplicitApply
        <3>3. CASE ~(/\ Visible(op.run) /\ op.result \in DispatchResults
                     /\ rows[op.run].version = op.version)
            BY <1>1, <2>4, <3>3 DEF ExplicitApply
        <3>4. QED
            BY <3>2, <3>3
    <2>5. CASE CancelWrite
        <3>1. op.run \in Runs
            BY <2>5, GateTypes DEF CancelWrite
        <3>2. QED
            BY <1>1, <2>5, <3>1, RowType, MoveEvolves DEF CancelWrite, CancelRead
    <2>6. QED
        BY <1>1, <1>3, <2>1, <2>2, <2>3, <2>4, <2>5
        DEF Gate, AutoSettle, TickStart, ExplicitStart, ExplicitReturns,
            CancelStart
<1>4. ASSUME NEW r \in Runs, Work(r) \/ User(r) \/ Environment(r) \/ Background(r)
      PROVE  \A q \in Runs : RowEvolves(q)
    <2>1. /\ rows[r] \in Row
          /\ Visible(r) => Present(r)
          /\ Present(r) => rows[r].status \in Status
        BY RowType DEF Present
    <2>2. ASSUME NEW kind, Finally(r, kind)
          PROVE  \A q \in Runs : RowEvolves(q)
        BY <1>1, <2>1, <2>2, MoveEvolves DEF Finally
    <2>3. CASE TaskCancels(r) \/ EndRecording(r) \/ NoSpeech(r) \/ Failed(r)
        BY <1>1, <2>1, <2>3, MoveEvolves
        DEF TaskCancels, EndRecording, NoSpeech, Failed, Proceeds
    <2>4. CASE \/ StoreText(r) \/ SelectAdjusted(r) \/ UseOriginal(r)
               \/ RetryCleanup(r) \/ CleanupSettles(r)
        <3>1. Present(r)
            BY <2>1, <2>4 DEF StoreText, SelectAdjusted, UseOriginal,
                              RetryCleanup, CleanupSettles, Proceeds
        <3>2. ASSUME NEW cleanup \in Cleanups, Select(r, cleanup)
              PROVE  \A q \in Runs : RowEvolves(q)
            <4> DEFINE row == [rows[r] EXCEPT !.text = "selected",
                                              !.cleanup = cleanup]
            <4>1. row \in Row /\ row.status = rows[r].status
                BY <2>1 DEF Row, Texts
            <4>2. Write(r, row)
                BY <3>2 DEF Select
            <4>3. QED
                BY <2>1, <3>1, <4>1, <4>2, WriteEvolves DEF Earned, Reopened
        <3>3. CASE StoreText(r)
            <4>1. /\ [rows[r] EXCEPT !.text = "original", !.cleanup = "pending"] \in Row
                  /\ [rows[r] EXCEPT !.text = "original", !.cleanup = "pending"].status = rows[r].status
                  /\ [rows[r] EXCEPT !.text = "original"] \in Row
                  /\ [rows[r] EXCEPT !.text = "original"].status = rows[r].status
                BY <2>1 DEF Row, Texts, Cleanups
            <4>2. QED
                BY <2>1, <3>1, <3>3, <4>1, WriteEvolves
                DEF StoreText, Earned, Reopened
        <3>4. CASE RetryCleanup(r)
            <4>1. /\ [rows[r] EXCEPT !.text = "original", !.cleanup = "pending"] \in Row
                  /\ [rows[r] EXCEPT !.text = "original", !.cleanup = "pending"].status = rows[r].status
                BY <2>1 DEF Row, Texts, Cleanups
            <4>2. QED
                BY <2>1, <3>1, <3>4, <4>1, WriteEvolves
                DEF RetryCleanup, Earned, Reopened
        <3>5. CASE SelectAdjusted(r) \/ UseOriginal(r) \/ CleanupSettles(r)
            <4>1. {"off", "settled", rows[r].cleanup} \subseteq Cleanups
                BY <2>1 DEF Row, Cleanups
            <4>2. QED
                BY <3>2, <3>5, <4>1 DEF SelectAdjusted, UseOriginal, CleanupSettles
        <3>6. QED
            BY <2>4, <3>3, <3>4, <3>5
    <2>5. CASE CleanupFails(r)
        <3>1. CASE Accepts(rows[r].status, "cleanup_failed")
            <4> DEFINE row == [Moved(r, "cleanup_failed") EXCEPT
                                  !.cleanup = "settled", !.text = "original"]
            <4>1. Present(r)
                BY <2>1, <2>5 DEF CleanupFails, Proceeds
            <4>2. /\ Moved(r, "cleanup_failed") \in Row
                  /\ Moved(r, "cleanup_failed").status \in Status \ {"done"}
                BY <2>1, <3>1, <4>1, MovedType
            <4>3. row \in Row /\ row.status \in Status \ {"done"}
                BY <4>2 DEF Row, Texts, Cleanups
            <4>4. Write(r, row)
                BY <2>5, <3>1 DEF CleanupFails
            <4>5. rows[r].status \notin Terminal
                BY <3>1 DEF Terminal, Accepts, Moves
            <4>6. QED
                BY <4>1, <4>3, <4>4, <4>5, WriteEvolves DEF Earned, Reopened
        <3>2. CASE ~Accepts(rows[r].status, "cleanup_failed")
            BY <1>1, <2>5, <3>2 DEF CleanupFails
        <3>3. QED
            BY <3>1, <3>2
    <2>6. CASE Start(r)
        BY <2>6 DEF Start, CreateRow, RowEvolves, StoreTypeOK
    <2>7. CASE Close(r) \/ OrphanClose(r)
        BY <2>2, <2>7 DEF Close, OrphanClose
    <2>8. CASE \E action \in Kinds \ {"process"} : RecoverCommit(r, action)
        <3>1. PICK action \in Kinds \ {"process"} : RecoverCommit(r, action)
            BY <2>8
        <3>2. Accepts(rows[r].status, action)
            BY <2>1, <3>1, RecoveryAccepted DEF RecoverCommit
        <3>3. QED
            BY <2>1, <3>1, <3>2, MoveEvolves DEF RecoverCommit
    <2>9. CASE RemoveRow(r) \/ Expire(r) \/ Retire(r)
        BY <1>1, <2>9, DeleteEvolves DEF RemoveRow, Expire, Retire, RetentionDelete
    <2>10. CASE \/ TaskStops(r) \/ StaleWrite(r) \/ RecoverLaunch(r)
                \/ Cancel(r) \/ Delete(r) \/ (\E ack \in BOOLEAN : RecoverInsert(r, ack))
                \/ TaskFault(r) \/ CloseFault(r) \/ Age(r) \/ WaitLimit(r) \/ Evicted(r)
        BY <1>1, <2>10
        DEF TaskStops, StaleWrite, RecoverLaunch, Cancel, Delete, RecoverInsert,
            TaskFault, CloseFault, Age, WaitLimit, Evicted, store
    <2>11. QED
        BY <1>4, <2>3, <2>4, <2>5, <2>6, <2>7, <2>8, <2>9, <2>10
        DEF Work, User, Environment, Background
<1>5. CASE Crash \/ TickDue
    BY <1>1, <1>5 DEF Crash, TickDue, store
<1>6. CASE Startup
    <2>1. CASE RecoverOnStartup
        <3>1. ASSUME NEW q \in Runs
              PROVE  RecoveredRow(q) = rows[q] \/ RecoveredRow(q).status = "deleted"
                     \/ /\ Present(q) /\ RecoveredRow(q).status \in Status
                        /\ RecoveredRow(q).status # "done"
                        /\ rows[q].status \notin Terminal
                        /\ RecoveredRow(q).version = rows[q].version + 1
            BY RowType DEF RecoveredRow, Tombstone, Present, Row, Status, Dispatchable,
                            Terminal
        <3>2. QED
            BY <2>1, <3>1 DEF RecoverOnStartup, RecoverStore, RowEvolves, Earned,
                               Reopened
    <2>2. ASSUME NEW r \in Runs, FailInterrupted(r)
          PROVE  \A q \in Runs : RowEvolves(q)
        BY <2>2, InterruptedAccepted, MoveEvolves DEF FailInterrupted, Present
    <2>3. QED
        BY <1>1, <1>6, <2>1, <2>2 DEF Startup, Serve, store
<1>7. QED
    BY <1>2, <1>3, <1>4, <1>5, <1>6 DEF Next

\* How a step changes the operation of the gate, as far as it concerns a claim
\* or a cancel that has read its row.
OpEvolves ==
    \/ op' = op
    \/ op'.at \notin Claimed \cup {"cancel_write"}
    \/ /\ op.at \in Claimed \cup {"claim"}
       /\ op'.at \in Claimed /\ op'.run = op.run
       /\ op.at = "claim" => Visible(op.run)
    \/ /\ op'.at = "cancel_write" /\ op'.run \in Runs
       /\ UNCHANGED rows
       /\ Visible(op'.run) /\ op'.version = rows[op'.run].version
       /\ Accepts(rows[op'.run].status, "cancel")

LEMMA OpEvolution ==
    ASSUME TypeOK, Next
    PROVE  OpEvolves
<1> USE DEF TypeOK
<1>1. CASE op' = op
    BY <1>1 DEF OpEvolves
<1>2. CASE op' = Idle
    BY <1>2 DEF OpEvolves, Idle, Claimed
<1>3. CASE Deliver
    <2>1. op.at # "idle"
        BY <1>3 DEF Deliver, ProtocolStep, Look, VerifyFirst, ClaimAttempt,
                    Recheck, Reverify, Dispatch, Confirm, Resolve, Restore
    <2>2. op \in Operation
        BY <2>1, GateTypes
    <2>3. ASSUME NEW result, Return(result)
          PROVE  op'.at \notin Claimed \cup {"cancel_write"}
        BY <2>2, <2>3 DEF Return, Operation, Claimed
    <2>4. ASSUME NEW outcome, NEW result, ResolveAs(outcome, result)
          PROVE  op'.at = "resolve" /\ op'.run = op.run
        BY <2>2, <2>4 DEF ResolveAs, Operation
    <2>5. CASE Look(OpCancelled)
        <3>1. ASSUME NEW o \in Operation
              PROVE  Begin(o, OpCancelled).at \notin Claimed \cup {"cancel_write"}
            BY DEF Begin, Operation, Claimed
        <3>2. [op EXCEPT !.jumped = TRUE] \in Operation
            BY <2>2 DEF Operation
        <3>3. ASSUME NEW result \in {"held", "awaiting"},
                     op' = [op EXCEPT !.at = "restore", !.jumped = TRUE,
                                      !.result = result]
              PROVE  op'.at \notin Claimed \cup {"cancel_write"}
            BY <2>2, <3>3 DEF Operation, Claimed
        <3>4. QED
            BY <2>2, <2>3, <2>5, <3>1, <3>2, <3>3 DEF Look, OpEvolves
    <2>6. CASE VerifyFirst
        BY <2>2, <2>3, <2>6 DEF VerifyFirst, OpEvolves, Operation, Claimed
    <2>7. CASE ClaimAttempt(OpCancelled)
        BY <2>2, <2>3, <2>7 DEF ClaimAttempt, OpEvolves, Operation, Claimed
    <2>8. CASE Recheck
        BY <2>2, <2>3, <2>4, <2>8 DEF Recheck, OpEvolves, Operation, Claimed
    <2>9. CASE Reverify(OpCancelled)
        BY <2>2, <2>4, <2>9 DEF Reverify, OpEvolves, Operation, Claimed
    <2>10. CASE Dispatch
        BY <2>2, <2>4, <2>10 DEF Dispatch, OpEvolves, Operation, Claimed
    <2>11. CASE Confirm
        BY <2>2, <2>4, <2>11 DEF Confirm, OpEvolves, Operation, Claimed
    <2>12. CASE Resolve
        BY <2>3, <2>12 DEF Resolve, OpEvolves
    <2>13. CASE Restore
        BY <2>2, <2>13 DEF Restore, OpEvolves, Operation, Claimed
    <2>14. QED
        BY <1>3, <2>5, <2>6, <2>7, <2>8, <2>9, <2>10, <2>11, <2>12, <2>13
        DEF Deliver, ProtocolStep
<1>4. CASE Gate
    <2>1. CASE AutoStart
        <3>1. Opened("verify").at = "verify"
            BY DEF Opened, Idle
        <3>2. QED
            BY <1>2, <2>1, <3>1 DEF AutoStart, Release, OpEvolves, Claimed
    <2>2. CASE AutoApply
        <3>1. op \in Operation
            BY <2>2, GateTypes DEF AutoApply
        <3>2. QED
            BY <1>2, <2>2, <3>1
            DEF AutoApply, Release, OpEvolves, Operation, Claimed
    <2>3. CASE TickStart
        <3>1. ASSUME NEW r \in Runs, NEW result \in {"cancelled", "held"}
              PROVE  /\ [Opened("look") EXCEPT !.run = r].at = "look"
                     /\ [[Opened("look") EXCEPT !.run = r] EXCEPT
                            !.at = "result", !.result = result].at = "result"
            BY DEF Opened, Idle
        <3>2. waiting \subseteq Runs
            BY GateTypes
        <3>3. QED
            BY <1>2, <2>3, <3>1, <3>2 DEF TickStart, Release, OpEvolves, Claimed
    <2>4. CASE ExplicitStart
        <3>1. Opened("verify").at = "verify" /\ Opened("verify") \in Operation
            BY <2>4, GrantedType DEF ExplicitStart, Callers, Phases, Opened, Idle
        <3>2. ASSUME NEW entry, NEW cancelled
              PROVE  Begin([Opened("verify") EXCEPT !.entry = entry], cancelled).at
                        \in {"restore", "result", "verify"}
            BY <3>1 DEF Begin, Operation
        <3>3. op' = Idle \/ op'.at \in {"restore", "result", "verify"}
            BY <2>4, <3>2 DEF ExplicitStart, Release
        <3>4. QED
            BY <1>2, <3>3 DEF OpEvolves, Claimed
    <2>5. CASE CancelStart
        <3>1. /\ Opened("cancel_write") \in Operation /\ Head(queue).run \in Runs
              /\ Opened("cancel_write").at = "cancel_write"
              /\ Opened("cancel_write").run = Head(queue).run
            BY <2>5, GrantedType DEF CancelStart, Callers, Phases, Opened, Idle
        <3>2. ASSUME NEW version
              PROVE  LET o == [Opened("cancel_write") EXCEPT !.version = version]
                     IN  /\ o.at = "cancel_write" /\ o.run = Head(queue).run
                         /\ o.version = version
            BY <3>1 DEF Operation
        <3>3. \/ op' = Idle
              \/ /\ op'.at = "cancel_write" /\ op'.run = Head(queue).run
                 /\ op'.version = rows[Head(queue).run].version
                 /\ Visible(Head(queue).run)
                 /\ Accepts(rows[Head(queue).run].status, "cancel")
            BY <2>5, <3>2 DEF CancelStart, Release
        <3>4. UNCHANGED rows
            BY <2>5 DEF CancelStart
        <3>5. QED
            BY <1>2, <3>1, <3>3, <3>4 DEF OpEvolves
    <2>6. QED
        BY <1>2, <1>4, <2>1, <2>2, <2>3, <2>4, <2>5
        DEF Gate, AutoSettle, TickApply, ExplicitApply, ExplicitReturns,
            CancelWrite, Release
<1>5. ASSUME NEW r \in Runs, Work(r) \/ User(r) \/ Environment(r) \/ Background(r)
      PROVE  op' = op
    <2>1. CASE Work(r)
        BY <2>1 DEF Work, TaskStops, TaskCancels, NoSpeech, StoreText,
            SelectAdjusted, UseOriginal, RetryCleanup, CleanupSettles, Select,
            CleanupFails, StaleWrite, Failed, Close, OrphanClose, RecoverLaunch,
            workRest, closeRest, protocol
    <2>2. CASE User(r)
        BY <2>2 DEF User, Start, EndRecording, Cancel, Delete, RecoverInsert,
            RecoverCommit, workRest, protocol, abortRest
    <2>3. CASE Environment(r) \/ Background(r)
        BY <2>3 DEF Environment, Background, TaskFault, CloseFault, Expire, Age,
            WaitLimit, RemoveRow, Retire, Evicted, closeRest, protocol, abortRest
    <2>4. QED
        BY <1>5, <2>1, <2>2, <2>3
<1>6. CASE TickDue \/ Startup \/ Crash
    BY <1>1, <1>2, <1>6
    DEF TickDue, Startup, RecoverOnStartup, FailInterrupted, Serve, Crash,
        startupRest, protocol
<1>7. QED
    BY <1>1, <1>3, <1>4, <1>5, <1>6 DEF Next

\* Only a dispatch types.
LEMMA OnlyDispatchTypes ==
    ASSUME TypeOK, Next
    PROVE  \/ typed' = typed
           \/ /\ op.at = "dispatch" /\ op.run \in Runs
              /\ typed' = [typed EXCEPT ![op.run] = @ + 1]
<1>1. CASE Deliver
    BY <1>1, GateTypes
    DEF Deliver, ProtocolStep, Look, VerifyFirst, ClaimAttempt, Recheck,
        Reverify, Dispatch, Confirm, Resolve, Restore, protocolRest
<1>2. CASE Gate
    BY <1>2
    DEF Gate, AutoStart, AutoApply, AutoSettle, TickStart, TickApply,
        ExplicitStart, ExplicitApply, ExplicitReturns, CancelStart, CancelWrite,
        gateRest, tickRest, explicitRest, cancelRest
<1>3. ASSUME NEW r \in Runs, Work(r) \/ User(r) \/ Environment(r) \/ Background(r)
      PROVE  typed' = typed
    <2>1. CASE Work(r)
        BY <2>1 DEF Work, TaskStops, TaskCancels, NoSpeech, StoreText,
            SelectAdjusted, UseOriginal, RetryCleanup, CleanupSettles, Select,
            CleanupFails, StaleWrite, Failed, Close, OrphanClose, RecoverLaunch,
            workRest, closeRest, protocol
    <2>2. CASE User(r)
        BY <2>2 DEF User, Start, EndRecording, Cancel, Delete, RecoverInsert,
            RecoverCommit, workRest, protocol, abortRest
    <2>3. CASE Environment(r) \/ Background(r)
        BY <2>3 DEF Environment, Background, TaskFault, CloseFault, Expire, Age,
            WaitLimit, RemoveRow, Retire, Evicted, closeRest, protocol, abortRest
    <2>4. QED
        BY <1>3, <2>1, <2>2, <2>3
<1>4. CASE TickDue \/ Startup \/ Crash
    BY <1>4
    DEF TickDue, Startup, RecoverOnStartup, FailInterrupted, Serve, Crash,
        startupRest, protocol
<1>5. QED
    BY <1>1, <1>2, <1>3, <1>4 DEF Next

-----------------------------------------------------------------------------
(* The inductive invariant of the types. *)

\* Only a crash and the startup happen while the application is not up.
LEMMA UpSteps ==
    ASSUME TypeOK, Next, ~Crash, ~Startup
    PROVE  up = "up" /\ up' = up
<1>1. CASE Deliver
    BY <1>1 DEF Deliver, control
<1>2. CASE Gate
    BY <1>2 DEF Gate, AutoStart, AutoApply, AutoSettle, TickStart,
        TickApply, ExplicitStart, ExplicitApply, ExplicitReturns,
        CancelStart, CancelWrite, Granted, gateRest, tickRest,
        explicitRest, cancelRest
<1>3. CASE TickDue
    BY <1>3 DEF TickDue
<1>4. ASSUME NEW r \in Runs, Work(r)
      PROVE  up = "up" /\ up' = up
    BY <1>4 DEF Work, TaskStops, TaskCancels, NoSpeech, StoreText,
        SelectAdjusted, UseOriginal, RetryCleanup, CleanupSettles,
        Select, CleanupFails, StaleWrite, Failed, Close, OrphanClose,
        RecoverLaunch, Proceeds, workRest, closeRest
<1>5. ASSUME NEW r \in Runs, User(r)
      PROVE  up = "up" /\ up' = up
    BY <1>5 DEF User, Start, EndRecording, Cancel, Delete,
        RecoverInsert, RecoverCommit, Proceeds, workRest, abortRest
<1>6. ASSUME NEW r \in Runs, Environment(r) \/ Background(r)
      PROVE  up = "up" /\ up' = up
    BY <1>6 DEF Environment, Background, TaskFault, CloseFault, Expire,
        Age, WaitLimit, RemoveRow, Retire, Evicted, closeRest, abortRest
<1>7. QED
    BY <1>1, <1>2, <1>3, <1>4, <1>5, <1>6 DEF Next

\* The gate is idle while the application is not up.
LEMMA StepDown ==
    ASSUME TypeOK, DownIsIdle, Next
    PROVE  DownIsIdle'
<1>1. CASE Crash
    BY <1>1 DEF Crash, DownIsIdle
<1>2. CASE Startup
    BY <1>2 DEF Startup, RecoverOnStartup, FailInterrupted, Serve, DownIsIdle,
                startupRest, protocol
<1>3. CASE ~Crash /\ ~Startup
    BY <1>3, UpSteps DEF DownIsIdle
<1>4. QED
    BY <1>1, <1>2, <1>3

\* A row with the version cancel read is the row it read.
LEMMA StepCancelRead ==
    ASSUME TypeOK, CancelRead, NothingBeforeStart, Next
    PROVE  CancelRead'
<1> SUFFICES ASSUME (op.at = "cancel_write")', Present(op.run)'
             PROVE  /\ op'.version <= rows'[op'.run].version
                    /\ op'.version = rows'[op'.run].version =>
                          Accepts(rows'[op'.run].status, "cancel")
    BY DEF CancelRead, Present, Accepts
<1>1. TypeOK'
    BY StepType
<1>2. OpEvolves /\ \A q \in Runs : RowEvolves(q)
    BY OpEvolution, RowsEvolve
<1>3. op' \in Operation
    BY <1>1, BusyType DEF TypeOK, ProtocolTypeOK, Operation, Idle
<1>4. op'.run \in Runs /\ op'.version \in Nat
    BY <1>3 DEF Operation
<1>5. rows'[op'.run] \in Row /\ rows[op'.run] \in Row
    BY <1>1, <1>4 DEF TypeOK, StoreTypeOK
<1>6. /\ rows'[op'.run].version \in Nat
      /\ rows[op'.run].version \in Nat
    BY <1>5 DEF Row
<1>7. CASE op' = op
    <2>1. rows[op.run].status # "absent"
        BY <1>4, <1>7 DEF NothingBeforeStart
    <2>2. rows'[op.run].status # "deleted"
        BY <1>7 DEF Present, Status, Dispatchable, Terminal
    <2>3. RowEvolves(op.run)
        BY <1>2, <1>4, <1>7
    <2>4. CASE rows'[op.run] = rows[op.run]
        BY <1>7, <2>4 DEF CancelRead, Present
    <2>5. CASE /\ Present(op.run)
               /\ rows'[op.run].version = rows[op.run].version + 1
        BY <1>4, <1>6, <1>7, <2>5 DEF CancelRead
    <2>6. QED
        BY <2>1, <2>2, <2>3, <2>4, <2>5 DEF RowEvolves
<1>8. CASE /\ UNCHANGED rows
           /\ op'.version = rows[op'.run].version
           /\ Accepts(rows[op'.run].status, "cancel")
    BY <1>6, <1>8
<1>9. QED
    BY <1>2, <1>7, <1>8 DEF OpEvolves, Claimed

\* Nothing is claimed, read or typed for a run that has not started.
LEMMA StepNothingBeforeStart ==
    ASSUME TypeOK, CancelRead, NothingBeforeStart, Next
    PROVE  NothingBeforeStart'
<1> SUFFICES ASSUME NEW r \in Runs, rows'[r].status = "absent"
             PROVE  /\ typed'[r] = 0
                    /\ op'.at \in Claimed \cup {"cancel_write"} => op'.run # r
    BY DEF NothingBeforeStart
<1>1. rows[r].status = "absent"
    BY RowsEvolve DEF RowEvolves, Status, Dispatchable, Terminal
<1>2. /\ typed[r] = 0
      /\ op.at \in Claimed \cup {"cancel_write"} => op.run # r
    BY <1>1 DEF NothingBeforeStart
<1>3. typed'[r] = 0
    BY <1>2, OnlyDispatchTypes DEF Claimed, TypeOK, ProtocolTypeOK
<1>4. ~Visible(r)
    BY <1>1 DEF Visible, Present, Status, Dispatchable, Terminal
<1>5. QED
    BY <1>2, <1>3, <1>4, OpEvolution DEF OpEvolves, Claimed

\* The invariant holds initially and is kept by every step.
LEMMA TypeInvariantInit == Init => TypeInvariant
<1> SUFFICES ASSUME Init PROVE TypeInvariant
    OBVIOUS
<1>1. TypeOK
    BY InitType
<1>2. op = Idle /\ Idle.at = "idle"
    BY DEF Init, ProtocolInit, Idle
<1>3. DownIsIdle /\ CancelRead /\ NothingBeforeStart
    BY <1>2
    DEF DownIsIdle, CancelRead, NothingBeforeStart, Init, ProtocolInit, Claimed
<1>4. QED
    BY <1>1, <1>3 DEF TypeInvariant

LEMMA TypeInvariantStep == TypeInvariant /\ [Next]_vars => TypeInvariant'
<1> SUFFICES ASSUME TypeInvariant, [Next]_vars
             PROVE  TypeInvariant'
    OBVIOUS
<1>1. CASE Next
    BY <1>1, StepType, StepDown, StepCancelRead, StepNothingBeforeStart
    DEF TypeInvariant
<1>2. CASE UNCHANGED vars
    BY <1>2
    DEF vars, store, protocol, control, TypeInvariant, TypeOK, StoreTypeOK,
        ProtocolTypeOK, ControlTypeOK, DownIsIdle, CancelRead,
        NothingBeforeStart, Present
<1>3. QED
    BY <1>1, <1>2

\* The inductive invariant holds of every behaviour.
THEOREM TypesInvariant == Spec => []TypeInvariant
BY TypeInvariantInit, TypeInvariantStep, PTL DEF Spec

\* Every variable keeps its type: rows are moved along the table only, also by
\* a cancel that writes what it read before an await.
THEOREM TypeCorrect == Spec => []TypeOK
<1>1. TypeInvariant => TypeOK
    BY DEF TypeInvariant
<1>2. QED
    BY <1>1, TypesInvariant, PTL

-----------------------------------------------------------------------------
(* The promises of the insertion attempts.  Most steps are quiet: they     *)
(* leave the attempts of the runs that stay, what was typed, and the claim *)
(* of the operation as they are.  What is left is the protocol itself,     *)
(* whose attempt differs from the attempts that tell what was typed        *)
(* before, and the startup, which has no claim.                            *)

\* A quiet step; the operation goes on, or ends its claim, or begins without.
Quiet ==
    /\ typed' = typed
    /\ \A r \in Runs :
          \/ attempts'[r] = attempts[r]
          \/ rows'[r].status = "deleted" /\ attempts'[r] = << >>
    /\ \/ op' = op
       \/ /\ op'.at \notin Claimed
          /\ op'.result = "inserted" => op.result = "inserted" /\ op'.run = op.run

\* A deletion is quiet about the attempts.
LEMMA DeletionIsQuiet ==
    ASSUME StoreTypeOK, NEW q \in Runs, DeleteRow(q)
    PROVE  \A r \in Runs :
              \/ attempts'[r] = attempts[r]
              \/ rows'[r].status = "deleted" /\ attempts'[r] = << >>
BY DEF StoreTypeOK, DeleteRow, Tombstone

\* Every step but those of the protocol and the startup is quiet.
LEMMA QuietSteps ==
    ASSUME TypeOK, Next, ~Deliver, ~RecoverOnStartup
    PROVE  Quiet
<1> USE DEF TypeOK
<1>1. CASE Gate
    <2>1. typed' = typed /\ attempts' = attempts
        BY <1>1
        DEF Gate, AutoStart, AutoApply, AutoSettle, TickStart, TickApply,
            ExplicitStart, ExplicitApply, ExplicitReturns, CancelStart,
            CancelWrite, gateRest, tickRest, explicitRest, cancelRest
    <2>2. CASE op' = Idle
        BY <2>1, <2>2 DEF Quiet, Idle, Claimed
    <2>3. CASE AutoStart
        <3>1. Opened("verify").at = "verify" /\ Opened("verify").result = "none"
            BY DEF Opened, Idle
        <3>2. QED
            BY <2>1, <2>2, <2>3, <3>1 DEF AutoStart, Release, Quiet, Claimed
    <2>4. CASE AutoApply
        <3>1. op \in Operation
            BY <2>4, GateTypes DEF AutoApply
        <3>2. QED
            BY <2>1, <2>2, <2>4, <3>1
            DEF AutoApply, Release, Quiet, Operation, Claimed
    <2>5. CASE TickStart
        <3>1. ASSUME NEW r \in Runs
              PROVE  LET o == [Opened("look") EXCEPT !.run = r]
                         p == [o EXCEPT !.at = "result", !.result = "cancelled"]
                         q == [o EXCEPT !.at = "result", !.result = "held"]
                     IN  /\ o.at = "look" /\ o.result = "none"
                         /\ p.at = "result" /\ p.result = "cancelled"
                         /\ q.at = "result" /\ q.result = "held"
            BY DEF Opened, Idle
        <3>2. CASE op' # Idle
            <4>1. PICK r \in waiting :
                    \/ op' = [Opened("look") EXCEPT !.run = r]
                    \/ op' = [[Opened("look") EXCEPT !.run = r] EXCEPT
                                !.at = "result", !.result = "cancelled"]
                    \/ op' = [[Opened("look") EXCEPT !.run = r] EXCEPT
                                !.at = "result", !.result = "held"]
                BY <2>5, <3>2 DEF TickStart, Release
            <4>2. r \in Runs
                BY GateTypes
            <4>3. op'.at \in {"look", "result"} /\ op'.result # "inserted"
                <5>1. CASE op' = [Opened("look") EXCEPT !.run = r]
                    BY <3>1, <4>2, <5>1
                <5>2. CASE op' = [[Opened("look") EXCEPT !.run = r] EXCEPT
                                !.at = "result", !.result = "cancelled"]
                    BY <3>1, <4>2, <5>2
                <5>3. CASE op' = [[Opened("look") EXCEPT !.run = r] EXCEPT
                                !.at = "result", !.result = "held"]
                    BY <3>1, <4>2, <5>3
                <5>4. QED
                    BY <4>1, <5>1, <5>2, <5>3
            <4>4. QED
                BY <2>1, <4>3 DEF Quiet, Claimed
        <3>3. QED
            BY <2>2, <3>2
    <2>6. CASE ExplicitStart
        <3>1. /\ Opened("verify").at = "verify" /\ Opened("verify").result = "none"
              /\ Opened("verify") \in Operation
            BY <2>6, GrantedType DEF ExplicitStart, Callers, Phases, Opened, Idle
        <3>2. ASSUME NEW entry, NEW cancelled
              PROVE  LET o == Begin([Opened("verify") EXCEPT !.entry = entry],
                                    cancelled)
                     IN  /\ o.at \in {"restore", "result", "verify"}
                         /\ o.result \in {"none", "cancelled"}
            BY <3>1 DEF Begin, Operation
        <3>3. \/ op' = Idle
              \/ /\ op'.at \in {"restore", "result", "verify"}
                 /\ op'.result \in {"none", "cancelled"}
            BY <2>6, <3>2 DEF ExplicitStart, Release
        <3>4. QED
            BY <2>1, <2>2, <3>3 DEF Quiet, Claimed
    <2>7. CASE CancelStart
        <3>1. /\ Opened("cancel_write") \in Operation
              /\ Opened("cancel_write").at = "cancel_write"
              /\ Opened("cancel_write").result = "none"
            BY <2>7, GrantedType DEF CancelStart, Callers, Phases, Opened, Idle
        <3>2. ASSUME NEW version
              PROVE  LET o == [Opened("cancel_write") EXCEPT !.version = version]
                     IN  o.at = "cancel_write" /\ o.result = "none"
            BY <3>1 DEF Operation
        <3>3. op' = Idle \/ (op'.at = "cancel_write" /\ op'.result = "none")
            BY <2>7, <3>2 DEF CancelStart, Release
        <3>4. QED
            BY <2>1, <2>2, <3>3 DEF Quiet, Claimed
    <2>8. QED
        BY <1>1, <2>2, <2>3, <2>4, <2>5, <2>6, <2>7
        DEF Gate, AutoSettle, TickApply, ExplicitApply, ExplicitReturns,
            CancelWrite, Release
<1>2. ASSUME NEW r \in Runs, Work(r)
      PROVE  Quiet
    BY <1>2
    DEF Work, TaskStops, TaskCancels, NoSpeech, StoreText, SelectAdjusted,
        UseOriginal, RetryCleanup, CleanupSettles, Select, CleanupFails,
        StaleWrite, Failed, Close, OrphanClose, RecoverLaunch, workRest,
        closeRest, protocol, store, Quiet
<1>3. ASSUME NEW r \in Runs, User(r)
      PROVE  Quiet
    BY <1>3
    DEF User, Start, EndRecording, Cancel, Delete, RecoverInsert, RecoverCommit,
        workRest, protocol, abortRest, store, Quiet
<1>4. ASSUME NEW r \in Runs, Environment(r) \/ Background(r)
      PROVE  Quiet
    <2>1. CASE RemoveRow(r) \/ Expire(r) \/ Retire(r)
        <3>1. attempts' = attempts \/ DeleteRow(r)
            BY <2>1 DEF RemoveRow, Expire, Retire, RetentionDelete
        <3>2. typed' = typed /\ op' = op
            BY <2>1 DEF RemoveRow, Expire, Retire, abortRest
        <3>3. QED
            BY <3>1, <3>2, DeletionIsQuiet DEF Quiet
    <2>2. CASE ~(RemoveRow(r) \/ Expire(r) \/ Retire(r))
        BY <1>4, <2>2
        DEF Environment, Background, TaskFault, CloseFault, Age, WaitLimit,
            Evicted, closeRest, protocol, store, abortRest, Quiet
    <2>3. QED
        BY <2>1, <2>2
<1>5. CASE TickDue \/ Startup \/ Crash
    <2>1. typed' = typed /\ attempts' = attempts /\ (op' = op \/ op' = Idle)
        BY <1>5
        DEF TickDue, Startup, FailInterrupted, Serve, Crash, startupRest,
            protocol, store
    <2>2. QED
        BY <2>1 DEF Quiet, Idle, Claimed
<1>6. QED
    BY <1>1, <1>2, <1>3, <1>4, <1>5 DEF Next

\* A quiet step keeps the claims.
LEMMA QuietKeepsClaims ==
    ASSUME TypeInvariant, ClaimInvariant, Next, Quiet
    PROVE  (ClaimInFlight /\ TypedIsTold /\ InsertedIsTyped /\ DoneMeansTyped)'
<1> USE DEF TypeInvariant, ClaimInvariant
<1>1. \A q \in Runs : RowEvolves(q)
    BY RowsEvolve
<1>2. ASSUME NEW r \in Runs, Present(r)'
      PROVE  /\ attempts'[r] = attempts[r]
             /\ Present(r) \/ rows[r].status = "absent"
    BY <1>1, <1>2
    DEF Quiet, RowEvolves, Present, Status, Dispatchable, Terminal
<1>3. op \in Operation \cup {Idle}
    BY DEF TypeOK, ProtocolTypeOK
<1>4. ClaimInFlight'
    <2>1. SUFFICES ASSUME (op.at \in Claimed)', Present(op.run)'
                   PROVE  /\ op'.attempt \in DOMAIN attempts'[op'.run]
                          /\ attempts'[op'.run][op'.attempt].outcome = "in_flight"
        BY DEF ClaimInFlight
    <2>2. op' = op
        BY <2>1 DEF Quiet
    <2>3. op.run \in Runs
        BY <1>3, <2>1, <2>2 DEF Idle, Claimed, Operation
    <2>4. Present(op.run) /\ attempts'[op.run] = attempts[op.run]
        BY <1>2, <2>1, <2>2, <2>3 DEF NothingBeforeStart, Present
    <2>5. QED
        BY <2>1, <2>2, <2>4 DEF ClaimInFlight
<1>5. TypedIsTold'
    <2>1. SUFFICES ASSUME NEW r \in Runs, typed'[r] > 0, Present(r)'
                   PROVE  (\E a \in DOMAIN attempts[r] :
                            /\ attempts[r][a].outcome
                                  \in {"in_flight", "inserted", "uncertain"}
                            /\ ~Untyped(r, a))'
        BY DEF TypedIsTold, Present, Untyped
    <2>2. typed[r] > 0 /\ attempts'[r] = attempts[r] /\ Present(r)
        BY <1>2, <2>1 DEF Quiet, NothingBeforeStart
    <2>3. PICK a \in DOMAIN attempts[r] :
            /\ attempts[r][a].outcome \in {"in_flight", "inserted", "uncertain"}
            /\ ~Untyped(r, a)
        BY <2>2 DEF TypedIsTold
    <2>4. ~Untyped(r, a)'
        BY <2>3 DEF Quiet, Untyped, Claimed
    <2>5. QED
        BY <2>2, <2>3, <2>4
<1>6. InsertedIsTyped'
    BY DEF InsertedIsTyped, Quiet, Claimed
<1>7. DoneMeansTyped'
    <2>1. ASSUME NEW r \in Runs, rows'[r].status = "done"
          PROVE  typed'[r] > 0
        <3>1. rows[r].status = "done" \/ (op.run = r /\ op.result = "inserted")
            BY <1>1, <2>1 DEF RowEvolves, Earned
        <3>2. QED
            BY <3>1 DEF Quiet, DoneMeansTyped, InsertedIsTyped
    <2>2. ASSUME NEW r \in Runs, HasAttempt(r, "inserted")'
          PROVE  typed'[r] > 0
        BY <2>2 DEF Quiet, DoneMeansTyped, HasAttempt
    <2>3. QED
        BY <2>1, <2>2 DEF DoneMeansTyped
<1>8. QED
    BY <1>4, <1>5, <1>6, <1>7

-----------------------------------------------------------------------------
(* The steps of the protocol that are not quiet. *)

\* They concern the run of the operation, which is present or was deleted.
LEMMA Claiming ==
    ASSUME TypeInvariant, op.at \in Claimed \cup {"claim"}
    PROVE  /\ op \in Operation /\ op.run \in Runs /\ op.attempt \in Nat
           /\ attempts \in [Runs -> Seq(Attempt)]
           /\ attempts[op.run] \in Seq(Attempt)
           /\ typed \in [Runs -> Nat]
<1>1. op.at # "idle"
    BY DEF Claimed
<1>2. QED
    BY <1>1, BusyType DEF TypeInvariant, TypeOK, StoreTypeOK, ProtocolTypeOK, Operation

\* The steps between the claim and the dispatch that leave the attempts alone.
LEMMA AdvanceKeepsClaims ==
    ASSUME TypeInvariant, ClaimInvariant, UNCHANGED <<rows, attempts, typed>>,
           op.at \in {"recheck", "reverify"},
           \/ \E at \in {"reverify", "dispatch"} : op' = [op EXCEPT !.at = at]
           \/ ResolveAs("failed", "failed")
           \/ ResolveAs("cancelled", "cancelled")
    PROVE  (ClaimInFlight /\ TypedIsTold /\ InsertedIsTyped /\ DoneMeansTyped)'
<1> USE DEF ClaimInvariant
<1>1. op \in Operation
    BY Claiming DEF Claimed
<1>2. /\ op'.run = op.run /\ op'.attempt = op.attempt
      /\ \/ op'.at \in {"reverify", "dispatch"} /\ op'.result = op.result
         \/ /\ op'.at = "resolve" /\ op'.outcome \in {"failed", "cancelled"}
            /\ op'.result \in {"failed", "cancelled"}
    BY <1>1 DEF ResolveAs, Operation
<1>3. ClaimInFlight'
    BY <1>2 DEF ClaimInFlight, Claimed, Present
<1>4. \A r, a : Untyped(r, a)' => Untyped(r, a)
    BY <1>2 DEF Untyped
<1>5. TypedIsTold'
    BY <1>4 DEF TypedIsTold, Present
<1>6. InsertedIsTyped'
    BY <1>2 DEF InsertedIsTyped
<1>7. DoneMeansTyped'
    BY DEF DoneMeansTyped, HasAttempt
<1>8. QED
    BY <1>3, <1>5, <1>6, <1>7

\* The claim adds an attempt; those that tell what was typed are older.
LEMMA ClaimKeepsClaims ==
    ASSUME TypeInvariant, ClaimInvariant, UNCHANGED <<rows, typed>>,
           op.at = "claim", AddAttempt(op.run, Kind),
           LET claimed == [op EXCEPT !.attempt = NextAttempt(op.run)]
           IN  \/ op' = [claimed EXCEPT !.at = "recheck"]
               \/ op' = [claimed EXCEPT !.at = "resolve",
                                        !.outcome = "cancelled",
                                        !.result = "cancelled"]
    PROVE  (ClaimInFlight /\ TypedIsTold /\ InsertedIsTyped /\ DoneMeansTyped)'
<1> USE DEF ClaimInvariant
<1> DEFINE r0 == op.run
           n == Len(attempts[r0]) + 1
           new == [kind |-> Kind, outcome |-> "in_flight"]
<1>1. /\ op \in Operation /\ r0 \in Runs
      /\ attempts \in [Runs -> Seq(Attempt)] /\ attempts[r0] \in Seq(Attempt)
    BY Claiming
<1>2. /\ op'.run = r0 /\ op'.attempt = n
      /\ \/ op'.at = "recheck" /\ op'.result = op.result
         \/ /\ op'.at = "resolve" /\ op'.outcome = "cancelled"
            /\ op'.result = "cancelled"
    BY <1>1 DEF Operation, NextAttempt
<1>3. attempts' = [attempts EXCEPT ![r0] = Append(attempts[r0], new)]
    BY DEF AddAttempt
<1>4. /\ n \in Nat
      /\ DOMAIN attempts[r0] = 1 .. (n - 1) /\ DOMAIN attempts'[r0] = 1 .. n
      /\ attempts'[r0][n] = new
      /\ \A a \in 1 .. (n - 1) : attempts'[r0][a] = attempts[r0][a]
      /\ \A q \in Runs \ {r0} : attempts'[q] = attempts[q]
    BY <1>1, <1>3
<1>5. ClaimInFlight'
    <2>1. n \in DOMAIN attempts'[r0] /\ attempts'[r0][n].outcome = "in_flight"
        BY <1>4
    <2>2. QED
        BY <1>2, <2>1 DEF ClaimInFlight
<1>6. TypedIsTold'
    <2>1. SUFFICES ASSUME NEW r \in Runs, typed'[r] > 0, Present(r)'
                   PROVE  (\E a \in DOMAIN attempts[r] :
                            /\ attempts[r][a].outcome
                                  \in {"in_flight", "inserted", "uncertain"}
                            /\ ~Untyped(r, a))'
        BY DEF TypedIsTold, Present, Untyped
    <2>2. PICK a \in DOMAIN attempts[r] :
            attempts[r][a].outcome \in {"in_flight", "inserted", "uncertain"}
        BY <2>1 DEF TypedIsTold, Present
    <2>3. CASE r = r0
        <3>1. a \in DOMAIN attempts'[r0] /\ attempts'[r0][a] = attempts[r0][a]
            BY <1>4, <2>2, <2>3
        <3>2. a # n
            BY <1>4, <2>2, <2>3
        <3>3. ~Untyped(r, a)'
            BY <1>2, <3>2 DEF Untyped
        <3>4. QED
            BY <2>2, <2>3, <3>1, <3>3
    <2>4. CASE r # r0
        <3>1. attempts'[r] = attempts[r] /\ ~Untyped(r, a)'
            BY <1>2, <1>4, <2>4 DEF Untyped
        <3>2. QED
            BY <2>2, <3>1
    <2>5. QED
        BY <2>3, <2>4
<1>7. InsertedIsTyped'
    BY <1>2 DEF InsertedIsTyped
<1>8. DoneMeansTyped'
    <2>1. ASSUME NEW r \in Runs, HasAttempt(r, "inserted")'
          PROVE  HasAttempt(r, "inserted")
        <3>1. PICK a \in DOMAIN attempts'[r] :
                attempts'[r][a].outcome = "inserted"
            BY <2>1 DEF HasAttempt
        <3>2. CASE r = r0
            <4>1. a # n
                BY <1>4, <3>1, <3>2
            <4>2. a \in DOMAIN attempts[r0] /\ attempts[r0][a] = attempts'[r0][a]
                BY <1>4, <3>1, <3>2, <4>1
            <4>3. QED
                BY <3>1, <3>2, <4>2 DEF HasAttempt
        <3>3. CASE r # r0
            BY <1>4, <3>1, <3>3 DEF HasAttempt
        <3>4. QED
            BY <3>2, <3>3
    <2>2. QED
        BY <2>1 DEF DoneMeansTyped
<1>9. QED
    BY <1>5, <1>6, <1>7, <1>8

\* The dispatch: a text that was typed is told by the claim itself.
LEMMA DispatchKeepsClaims ==
    ASSUME TypeInvariant, ClaimInvariant, Dispatch
    PROVE  (ClaimInFlight /\ TypedIsTold /\ InsertedIsTyped /\ DoneMeansTyped)'
<1> USE DEF ClaimInvariant
<1> DEFINE r0 == op.run
<1>1. /\ op.at = "dispatch" /\ UNCHANGED <<rows, attempts>>
      /\ op \in Operation /\ r0 \in Runs /\ typed \in [Runs -> Nat]
    BY Claiming DEF Dispatch, Claimed
<1>2. op'.run = r0 /\ op'.attempt = op.attempt /\ op'.at \in {"confirm", "resolve"}
    BY <1>1 DEF Dispatch, ResolveAs, Operation
<1>3. /\ typed' \in [Runs -> Nat]
      /\ \A r \in Runs : typed'[r] >= typed[r]
      /\ \A r \in Runs \ {r0} : typed'[r] = typed[r]
    BY <1>1 DEF Dispatch
<1>4. \/ /\ typed'[r0] > 0
         /\ \/ op'.at = "confirm" /\ op'.result = op.result
            \/ /\ op'.at = "resolve" /\ op'.outcome = "uncertain"
               /\ op'.result = "uncertain"
      \/ /\ typed'[r0] = typed[r0]
         /\ op'.at = "resolve"
         /\ op'.outcome \in {"failed", "uncertain"} /\ op'.result = op'.outcome
    <2>1. [typed EXCEPT ![r0] = @ + 1][r0] > 0
        BY <1>1
    <2>2. ASSUME NEW outcome, ResolveAs(outcome, outcome)
          PROVE  /\ op'.at = "resolve" /\ op'.outcome = outcome
                 /\ op'.result = outcome
        BY <1>1, <2>2 DEF ResolveAs, Operation
    <2>3. op' = [op EXCEPT !.at = "confirm"] =>
            op'.at = "confirm" /\ op'.result = op.result
        BY <1>1 DEF Operation
    <2>4. QED
        BY <2>1, <2>2, <2>3 DEF Dispatch
<1>5. ClaimInFlight'
    BY <1>1, <1>2 DEF ClaimInFlight, Claimed, Present
<1>6. TypedIsTold'
    <2>1. SUFFICES ASSUME NEW r \in Runs, typed'[r] > 0, Present(r)'
                   PROVE  (\E a \in DOMAIN attempts[r] :
                            /\ attempts[r][a].outcome
                                  \in {"in_flight", "inserted", "uncertain"}
                            /\ ~Untyped(r, a))'
        BY DEF TypedIsTold, Present, Untyped
    <2>2. CASE typed[r] > 0
        BY <1>1, <1>2, <2>1, <2>2 DEF TypedIsTold, Present, Untyped
    <2>3. CASE ~(typed[r] > 0)
        <3>1. r = r0 /\ typed'[r0] # typed[r0]
            BY <1>1, <1>3, <2>1, <2>3
        <3>2. op'.at = "confirm" \/ op'.outcome = "uncertain"
            BY <1>4, <3>1
        <3>3. PICK a : a = op.attempt
            OBVIOUS
        <3>4. a \in DOMAIN attempts[r] /\ attempts[r][a].outcome = "in_flight"
            BY <1>1, <2>1, <3>1, <3>3 DEF ClaimInFlight, Claimed, Present
        <3>5. ~Untyped(r, a)'
            BY <1>2, <3>2 DEF Untyped
        <3>6. QED
            BY <1>1, <3>4, <3>5
    <2>4. QED
        BY <2>2, <2>3
<1>7. InsertedIsTyped'
    BY <1>1, <1>2, <1>3, <1>4 DEF InsertedIsTyped
<1>8. DoneMeansTyped'
    BY <1>1, <1>3 DEF DoneMeansTyped, HasAttempt
<1>9. QED
    BY <1>5, <1>6, <1>7, <1>8

\* The confirmation never says less than was typed.
LEMMA ConfirmKeepsClaims ==
    ASSUME TypeInvariant, ClaimInvariant, Confirm
    PROVE  (ClaimInFlight /\ TypedIsTold /\ InsertedIsTyped /\ DoneMeansTyped)'
<1> USE DEF ClaimInvariant
<1>1. /\ op.at = "confirm" /\ UNCHANGED <<rows, attempts, typed>>
      /\ op \in Operation
    BY Claiming DEF Confirm, protocolRest, Claimed
<1>2. /\ op'.run = op.run /\ op'.attempt = op.attempt /\ op'.at = "resolve"
      /\ op'.outcome \in {"inserted", "uncertain"} /\ op'.result = op'.outcome
    BY <1>1 DEF Confirm, ResolveAs, Operation
<1>3. ClaimInFlight'
    BY <1>1, <1>2 DEF ClaimInFlight, Claimed, Present
<1>4. TypedIsTold'
    BY <1>1, <1>2 DEF TypedIsTold, Present, Untyped
<1>5. InsertedIsTyped'
    BY <1>1, <1>2 DEF InsertedIsTyped
<1>6. DoneMeansTyped'
    BY <1>1 DEF DoneMeansTyped, HasAttempt
<1>7. QED
    BY <1>3, <1>4, <1>5, <1>6

\* An outcome is stored: what was typed stays told, by this attempt or another.
LEMMA StoreKeepsClaims ==
    ASSUME TypeInvariant, ClaimInvariant, UNCHANGED <<rows, typed>>,
           op.at \in {"recheck", "resolve"},
           NEW outcome \in Outcomes, SetOutcome(op.run, op.attempt, outcome),
           op.at = "recheck" => outcome = "cancelled",
           op.at = "resolve" => outcome = op.outcome,
           op'.at \notin Claimed,
           op'.result = "inserted" => op.result = "inserted" /\ op'.run = op.run
    PROVE  (ClaimInFlight /\ TypedIsTold /\ InsertedIsTyped /\ DoneMeansTyped)'
<1> USE DEF ClaimInvariant
<1> DEFINE r0 == op.run
           a0 == op.attempt
<1>1. /\ op \in Operation /\ r0 \in Runs
      /\ attempts \in [Runs -> Seq(Attempt)] /\ attempts[r0] \in Seq(Attempt)
    BY Claiming DEF Claimed
<1>2. attempts' = [attempts EXCEPT ![r0] =
                      [attempts[r0] EXCEPT ![a0].outcome = outcome]]
    BY DEF SetOutcome
<1>3. /\ \A q \in Runs \ {r0} : attempts'[q] = attempts[q]
      /\ DOMAIN attempts'[r0] = DOMAIN attempts[r0]
      /\ \A a \in DOMAIN attempts[r0] \ {a0} : attempts'[r0][a] = attempts[r0][a]
    BY <1>1, <1>2
<1>4. a0 \in DOMAIN attempts[r0] => attempts'[r0][a0].outcome = outcome
    <2>1. ASSUME a0 \in DOMAIN attempts[r0]
          PROVE  /\ attempts[r0][a0] \in Attempt
                 /\ attempts'[r0][a0] = [attempts[r0][a0] EXCEPT !.outcome = outcome]
        BY <1>1, <1>2, <2>1
    <2>2. QED
        BY <2>1 DEF Attempt
<1>5. ClaimInFlight'
    BY DEF ClaimInFlight
<1>6. \A r, a : ~Untyped(r, a)'
    BY DEF Untyped, Claimed
<1>7. TypedIsTold'
    <2>1. SUFFICES ASSUME NEW r \in Runs, typed'[r] > 0, Present(r)'
                   PROVE  (\E a \in DOMAIN attempts[r] :
                            /\ attempts[r][a].outcome
                                  \in {"in_flight", "inserted", "uncertain"}
                            /\ ~Untyped(r, a))'
        BY DEF TypedIsTold, Present, Untyped
    <2>2. PICK a \in DOMAIN attempts[r] :
            /\ attempts[r][a].outcome \in {"in_flight", "inserted", "uncertain"}
            /\ ~Untyped(r, a)
        BY <2>1 DEF TypedIsTold, Present
    <2>3. CASE r # r0 \/ a # a0
        <3>1. a \in DOMAIN attempts'[r] /\ attempts'[r][a] = attempts[r][a]
            BY <1>3, <2>2, <2>3
        <3>2. QED
            BY <1>6, <2>2, <3>1
    <2>4. CASE r = r0 /\ a = a0
        <3>1. op.at = "resolve" /\ op.outcome \notin {"failed", "cancelled"}
            BY <2>2, <2>4 DEF Untyped
        <3>2. outcome \in {"in_flight", "inserted", "uncertain"}
            BY <3>1 DEF Outcomes
        <3>3. a \in DOMAIN attempts'[r] /\ attempts'[r][a].outcome = outcome
            BY <1>3, <1>4, <2>2, <2>4
        <3>4. QED
            BY <1>6, <3>2, <3>3
    <2>5. QED
        BY <2>3, <2>4
<1>8. InsertedIsTyped'
    BY DEF InsertedIsTyped, Claimed
<1>9. DoneMeansTyped'
    <2>1. ASSUME NEW r \in Runs, HasAttempt(r, "inserted")'
          PROVE  typed[r] > 0
        <3>1. PICK a \in DOMAIN attempts'[r] :
                attempts'[r][a].outcome = "inserted"
            BY <2>1 DEF HasAttempt
        <3>2. CASE r # r0 \/ a # a0
            <4>1. a \in DOMAIN attempts[r] /\ attempts[r][a] = attempts'[r][a]
                BY <1>3, <3>1, <3>2
            <4>2. QED
                BY <3>1, <4>1 DEF DoneMeansTyped, HasAttempt
        <3>3. CASE r = r0 /\ a = a0
            <4>1. outcome = "inserted"
                BY <1>3, <1>4, <3>1, <3>3
            <4>2. QED
                BY <3>3, <4>1 DEF InsertedIsTyped
        <3>4. QED
            BY <3>2, <3>3
    <2>2. QED
        BY <2>1 DEF DoneMeansTyped
<1>10. QED
    BY <1>5, <1>7, <1>8, <1>9

\* Every step of the protocol keeps the claims.
LEMMA DeliverKeepsClaims ==
    ASSUME TypeInvariant, ClaimInvariant, Next, Deliver
    PROVE  (ClaimInFlight /\ TypedIsTold /\ InsertedIsTyped /\ DoneMeansTyped)'
<1>1. op \in Operation /\ op.run \in Runs
    <2>1. op.at # "idle"
        BY DEF Deliver, ProtocolStep, Look, VerifyFirst, ClaimAttempt,
               Recheck, Reverify, Dispatch, Confirm, Resolve, Restore
    <2>2. QED
        BY <2>1, BusyType DEF TypeInvariant, TypeOK
<1>2. ASSUME NEW result, result # "inserted" \/ result = op.result, Return(result)
      PROVE  /\ op'.at \notin Claimed
             /\ op'.result = "inserted" =>
                    op.result = "inserted" /\ op'.run = op.run
    BY <1>1, <1>2 DEF Return, Operation, Claimed
<1>3. CASE Look(OpCancelled) \/ VerifyFirst \/ Restore
    <2>1. typed' = typed /\ attempts' = attempts
        BY <1>3 DEF Look, VerifyFirst, Restore, protocolRest
    <2>2. ASSUME NEW o \in Operation, o.run = op.run, o.result = op.result
          PROVE  /\ Begin(o, OpCancelled).at \notin Claimed
                 /\ Begin(o, OpCancelled).result = "inserted" =>
                        op.result = "inserted"
                 /\ Begin(o, OpCancelled).run = op.run
        BY <2>2 DEF Begin, Operation, Claimed
    <2>3. LET o == [op EXCEPT !.jumped = TRUE]
          IN  o \in Operation /\ o.run = op.run /\ o.result = op.result
        BY <1>1 DEF Operation
    <2>4. CASE op' = Begin(op, OpCancelled)
               \/ op' = Begin([op EXCEPT !.jumped = TRUE], OpCancelled)
        <3>1. /\ op'.at \notin Claimed
              /\ op'.result = "inserted" => op.result = "inserted"
              /\ op'.run = op.run
            BY <1>1, <2>2, <2>3, <2>4
        <3>2. QED
            BY <2>1, <3>1, QuietKeepsClaims DEF Quiet
    <2>5. CASE \E result \in {"held", "awaiting"} :
                  \/ Return(result)
                  \/ op' = [op EXCEPT !.at = "restore", !.jumped = TRUE,
                                      !.result = result]
        <3>1. PICK result \in {"held", "awaiting"} :
                  \/ Return(result)
                  \/ op' = [op EXCEPT !.at = "restore", !.jumped = TRUE,
                                      !.result = result]
            BY <2>5
        <3>2. op'.at \in {"restore", "result"} /\ op'.result = result
            BY <1>1, <3>1 DEF Return, Operation
        <3>3. QED
            BY <2>1, <3>2, QuietKeepsClaims DEF Quiet, Claimed
    <2>6. CASE \/ op' = [op EXCEPT !.at = "claim"]
               \/ op' = [op EXCEPT !.at = "result", !.jumped = FALSE]
               \/ op' = [op EXCEPT !.at = "result", !.jumped = FALSE,
                                   !.result = "none"]
        <3>1. /\ op'.at \notin Claimed
              /\ op'.result = "inserted" => op.result = "inserted"
              /\ op'.run = op.run
            BY <1>1, <2>6 DEF Operation, Claimed
        <3>2. QED
            BY <2>1, <3>1, QuietKeepsClaims DEF Quiet
    <2>7. QED
        BY <1>3, <2>4, <2>5, <2>6 DEF Look, VerifyFirst, Restore
<1>4. CASE ClaimAttempt(OpCancelled)
    <2>1. UNCHANGED <<rows, typed>> /\ op.at = "claim"
        BY <1>4 DEF ClaimAttempt, storeRest, protocolRest
    <2>2. CASE /\ AddAttempt(op.run, Kind)
               /\ LET claimed == [op EXCEPT !.attempt = NextAttempt(op.run)]
                  IN  \/ op' = [claimed EXCEPT !.at = "recheck"]
                      \/ op' = [claimed EXCEPT !.at = "resolve",
                                               !.outcome = "cancelled",
                                               !.result = "cancelled"]
        BY <2>1, <2>2, ClaimKeepsClaims
    <2>3. CASE UNCHANGED attempts /\ \E result \in {"abandoned", "duplicate", "held"} :
                                          Return(result)
        BY <1>2, <2>1, <2>3, QuietKeepsClaims DEF Quiet
    <2>4. QED
        BY <1>4, <2>2, <2>3 DEF ClaimAttempt
<1>5. CASE Recheck
    <2>1. op.at = "recheck" /\ typed' = typed
        BY <1>5 DEF Recheck, protocolRest
    <2>2. CASE Return("abandoned") /\ UNCHANGED <<rows, attempts>>
        BY <1>2, <2>1, <2>2, QuietKeepsClaims DEF Quiet
    <2>3. CASE Return("abandoned") /\ DeleteRow(op.run)
        BY <1>1, <1>2, <2>1, <2>3, DeletionIsQuiet, QuietKeepsClaims
        DEF Quiet, TypeInvariant, TypeOK
    <2>4. CASE /\ Return("abandoned") /\ UNCHANGED rows
               /\ SetOutcome(op.run, op.attempt, "cancelled")
        BY <1>2, <2>1, <2>4, StoreKeepsClaims DEF Outcomes
    <2>5. CASE /\ UNCHANGED <<rows, attempts>>
               /\ op' = [op EXCEPT !.at = "reverify"] \/ ResolveAs("failed", "failed")
        BY <2>1, <2>5, AdvanceKeepsClaims
    <2>6. QED
        BY <1>5, <2>2, <2>3, <2>4, <2>5 DEF Recheck, RetentionDelete
<1>6. CASE Reverify(OpCancelled)
    BY <1>6, AdvanceKeepsClaims DEF Reverify, protocolRest
<1>7. CASE Dispatch
    BY <1>7, DispatchKeepsClaims
<1>8. CASE Confirm
    BY <1>8, ConfirmKeepsClaims
<1>9. CASE Resolve
    <2>1. /\ op.at = "resolve" /\ Return(op.result) /\ UNCHANGED <<rows, typed>>
          /\ op.outcome \in Outcomes
        BY <1>1, <1>9 DEF Resolve, storeRest, protocolRest, Operation
    <2>2. CASE SetOutcome(op.run, op.attempt, op.outcome)
        BY <1>2, <2>1, <2>2, StoreKeepsClaims
    <2>3. CASE UNCHANGED attempts
        BY <1>2, <2>1, <2>3, QuietKeepsClaims DEF Quiet
    <2>4. QED
        BY <1>9, <2>2, <2>3 DEF Resolve
<1>10. QED
    BY <1>3, <1>4, <1>5, <1>6, <1>7, <1>8, <1>9 DEF Deliver, ProtocolStep

-----------------------------------------------------------------------------
(* The startup, and the theorems. *)

\* Startup makes the attempts in flight uncertain: what was typed stays told.
LEMMA StartupKeepsClaims ==
    ASSUME TypeInvariant, ClaimInvariant, Next, RecoverOnStartup
    PROVE  (ClaimInFlight /\ TypedIsTold /\ InsertedIsTyped /\ DoneMeansTyped)'
<1> USE DEF TypeInvariant, ClaimInvariant
<1>1. op = Idle /\ op' = op /\ typed' = typed
    BY DEF RecoverOnStartup, startupRest, protocol, DownIsIdle
<1>2. op.at \notin Claimed /\ op.result = "none"
    BY <1>1 DEF Idle, Claimed
<1>3. attempts \in [Runs -> Seq(Attempt)]
    BY DEF TypeOK, StoreTypeOK
<1>4. \A r \in Runs : attempts'[r] = RecoveredAttempts(r)
                      /\ rows'[r] = RecoveredRow(r)
    BY DEF RecoverOnStartup, RecoverStore
<1>5. ASSUME NEW r \in Runs, Present(r)'
      PROVE  Present(r) \/ rows[r].status = "absent"
    BY RowsEvolve, <1>5
    DEF RowEvolves, Present, Status, Dispatchable, Terminal
<1>6. ASSUME NEW r \in Runs, NEW a \in DOMAIN attempts[r], r \notin aged
      PROVE  /\ a \in DOMAIN attempts'[r]
             /\ attempts'[r][a].outcome =
                  IF attempts[r][a].outcome = "in_flight" THEN "uncertain"
                  ELSE attempts[r][a].outcome
    <2>1. attempts'[r] = [b \in DOMAIN attempts[r] |-> GivenUp(attempts[r][b])]
        BY <1>4, <1>6 DEF RecoveredAttempts
    <2>2. attempts[r][a] \in Attempt
        BY <1>3, <1>6
    <2>3. QED
        BY <1>6, <2>1, <2>2 DEF GivenUp, Attempt
<1>7. ClaimInFlight' /\ InsertedIsTyped'
    BY <1>1, <1>2 DEF ClaimInFlight, InsertedIsTyped, Claimed
<1>8. TypedIsTold'
    <2>1. SUFFICES ASSUME NEW r \in Runs, typed'[r] > 0, Present(r)'
                   PROVE  (\E a \in DOMAIN attempts[r] :
                            /\ attempts[r][a].outcome
                                  \in {"in_flight", "inserted", "uncertain"}
                            /\ ~Untyped(r, a))'
        BY DEF TypedIsTold, Present, Untyped
    <2>2. Present(r) /\ typed[r] > 0
        BY <1>1, <1>5, <2>1 DEF NothingBeforeStart
    <2>3. r \notin aged
        <3>1. r \in aged => rows'[r] = Tombstone(r)
            BY <1>4 DEF RecoveredRow
        <3>2. Tombstone(r).status = "deleted"
            BY DEF Tombstone
        <3>3. QED
            BY <2>1, <3>1, <3>2 DEF Present, Status, Dispatchable, Terminal
    <2>4. PICK a \in DOMAIN attempts[r] :
            attempts[r][a].outcome \in {"in_flight", "inserted", "uncertain"}
        BY <2>2 DEF TypedIsTold
    <2>5. /\ a \in DOMAIN attempts'[r]
          /\ attempts'[r][a].outcome \in {"inserted", "uncertain"}
        BY <1>6, <2>3, <2>4
    <2>6. ~Untyped(r, a)'
        BY <1>1, <1>2 DEF Untyped, Claimed
    <2>7. QED
        BY <2>5, <2>6
<1>9. DoneMeansTyped'
    <2>1. ASSUME NEW r \in Runs, rows'[r].status = "done"
          PROVE  typed'[r] > 0
        <3>1. rows[r].status = "done" \/ (op.run = r /\ op.result = "inserted")
            BY RowsEvolve, <2>1 DEF RowEvolves, Earned
        <3>2. QED
            BY <1>1, <1>2, <3>1 DEF DoneMeansTyped
    <2>2. ASSUME NEW r \in Runs, HasAttempt(r, "inserted")'
          PROVE  typed'[r] > 0
        <3>1. PICK a \in DOMAIN attempts'[r] :
                attempts'[r][a].outcome = "inserted"
            BY <2>2 DEF HasAttempt
        <3>2. r \notin aged /\ a \in DOMAIN attempts[r]
            <4>1. CASE r \in aged
                <5>1. attempts'[r] = << >>
                    BY <1>4, <4>1 DEF RecoveredAttempts
                <5>2. QED
                    BY <3>1, <5>1
            <4>2. CASE r \notin aged
                BY <1>4, <3>1, <4>2 DEF RecoveredAttempts
            <4>3. QED
                BY <4>1, <4>2
        <3>3. attempts[r][a].outcome = "inserted"
            BY <1>6, <3>1, <3>2
        <3>4. QED
            BY <1>1, <3>2, <3>3 DEF DoneMeansTyped, HasAttempt
    <2>3. QED
        BY <2>1, <2>2 DEF DoneMeansTyped
<1>10. QED
    BY <1>7, <1>8, <1>9

\* The invariant of the claims holds initially and is kept by every step.
LEMMA ClaimInvariantInit == Init => ClaimInvariant
<1> SUFFICES ASSUME Init PROVE ClaimInvariant
    OBVIOUS
<1>1. op.at = "idle" /\ op.result = "none" /\ \A r \in Runs : typed[r] = 0
    BY DEF Init, ProtocolInit, Idle
<1>2. NothingBeforeStart
    BY TypeInvariantInit DEF TypeInvariant
<1>3. ClaimInFlight /\ TypedIsTold /\ InsertedIsTyped
    BY <1>1 DEF ClaimInFlight, TypedIsTold, InsertedIsTyped, Claimed
<1>4. DoneMeansTyped
    BY DEF Init, StoreInit, DoneMeansTyped, HasAttempt
<1>5. QED
    BY <1>2, <1>3, <1>4 DEF ClaimInvariant

LEMMA ClaimInvariantStep ==
    TypeInvariant /\ ClaimInvariant /\ [Next]_vars => ClaimInvariant'
<1> SUFFICES ASSUME TypeInvariant, ClaimInvariant, [Next]_vars
             PROVE  ClaimInvariant'
    OBVIOUS
<1>1. CASE Next
    <2>1. NothingBeforeStart'
        BY <1>1, StepNothingBeforeStart DEF TypeInvariant
    <2>2. (ClaimInFlight /\ TypedIsTold /\ InsertedIsTyped /\ DoneMeansTyped)'
        <3>1. CASE Deliver
            BY <1>1, <3>1, DeliverKeepsClaims
        <3>2. CASE RecoverOnStartup
            BY <1>1, <3>2, StartupKeepsClaims
        <3>3. CASE ~Deliver /\ ~RecoverOnStartup
            BY <1>1, <3>3, QuietSteps, QuietKeepsClaims DEF TypeInvariant
        <3>4. QED
            BY <3>1, <3>2, <3>3
    <2>3. QED
        BY <2>1, <2>2 DEF ClaimInvariant
<1>2. CASE UNCHANGED vars
    BY <1>2
    DEF vars, store, protocol, control, ClaimInvariant, NothingBeforeStart,
        ClaimInFlight, TypedIsTold, Untyped, InsertedIsTyped, DoneMeansTyped,
        HasAttempt, Present
<1>3. QED
    BY <1>1, <1>2

\* The inductive invariant holds of every behaviour.
THEOREM ClaimsInvariant == Spec => []ClaimInvariant
<1>1. Init => TypeInvariant /\ ClaimInvariant
    BY TypeInvariantInit, ClaimInvariantInit
<1>2. TypeInvariant /\ ClaimInvariant /\ [Next]_vars
        => TypeInvariant' /\ ClaimInvariant'
    BY TypeInvariantStep, ClaimInvariantStep
<1>3. QED
    BY <1>1, <1>2, PTL DEF Spec

\* A text that may have been typed has an attempt that says so, whatever is
\* lost in a crash, whatever cannot be stored and whoever interferes.
THEOREM ClaimIsWrittenAhead == Spec => []WriteAheadClaim
<1>1. ClaimInvariant => WriteAheadClaim
    BY DEF ClaimInvariant, TypedIsTold, WriteAheadClaim, HasAttempt
<1>2. QED
    BY <1>1, ClaimsInvariant, PTL

\* A run reported done, and an attempt reported inserted, were typed.
THEOREM DoneIsTyped == Spec => []DoneMeansTyped
<1>1. ClaimInvariant => DoneMeansTyped
    BY DEF ClaimInvariant
<1>2. QED
    BY <1>1, ClaimsInvariant, PTL

=============================================================================
