---------------------------- MODULE RunRouteProofs ----------------------------
(***************************************************************************)
(* The way of a run to its field, for any set of runs and any limits: one  *)
(* coroutine takes it to the gate, nothing is claimed before its text is   *)
(* chosen, and what waits awaits its destination.                          *)
(*                                                                         *)
(* A step outside the startup is about one run: the others only lose       *)
(* requests and waiting entries.  Of the run itself most steps leave the   *)
(* way it was on, or find it untouched; the others are taken one by one.   *)
(***************************************************************************)
EXTENDS RunTypeProofs

-----------------------------------------------------------------------------
(* The queue of the gate. *)

\* A request joins the queue: a coroutine that has none yet may ask.
LEMMA Enqueued ==
    ASSUME queue \in Seq(Request), AskedOnce, NEW by, NEW r, NEW version,
           NEW ack, Enqueue(by, r, version, ack),
           by # "auto" \/ ~Requested(r)
    PROVE  /\ AskedOnce'
           /\ \A q : Requested(q)' => Requested(q) \/ (by = "auto" /\ q = r)
<1> DEFINE n == Len(queue) + 1
           new == [by |-> by, run |-> r, version |-> version, ack |-> ack]
<1>1. /\ DOMAIN queue = 1 .. (n - 1) /\ DOMAIN queue' = 1 .. n
      /\ n \in Nat /\ queue'[n] = new
      /\ \A i \in 1 .. (n - 1) : queue'[i] = queue[i]
    BY DEF Enqueue
<1>2. new.by = by /\ new.run = r
    OBVIOUS
<1>3. ASSUME NEW i \in DOMAIN queue'
      PROVE  i = n \/ (i \in DOMAIN queue /\ queue'[i] = queue[i])
    BY <1>1
<1>4. AskedOnce'
    <2>1. ASSUME NEW i \in DOMAIN queue', NEW j \in DOMAIN queue',
                 queue'[i].by = "auto", queue'[j].by = "auto",
                 queue'[i].run = queue'[j].run
          PROVE  i = j
        <3>1. ASSUME NEW k \in DOMAIN queue, queue[k].by = "auto",
                     queue[k].run = r, by = "auto"
              PROVE  FALSE
            BY <3>1 DEF Requested
        <3>2. CASE i = n /\ j = n
            BY <3>2
        <3>3. CASE i = n /\ j # n
            BY <1>1, <1>2, <1>3, <2>1, <3>1, <3>3
        <3>4. CASE i # n /\ j = n
            BY <1>1, <1>2, <1>3, <2>1, <3>1, <3>4
        <3>5. CASE i # n /\ j # n
            BY <1>3, <2>1, <3>5 DEF AskedOnce
        <3>6. QED
            BY <3>2, <3>3, <3>4, <3>5
    <2>2. QED
        BY <2>1 DEF AskedOnce
<1>5. ASSUME NEW q, Requested(q)'
      PROVE  Requested(q) \/ (by = "auto" /\ q = r)
    <2>1. PICK i \in DOMAIN queue' : queue'[i].by = "auto" /\ queue'[i].run = q
        BY <1>5 DEF Requested
    <2>2. QED
        BY <1>1, <1>2, <1>3, <2>1 DEF Requested
<1>6. QED
    BY <1>4, <1>5

\* The first request leaves the queue; that of a coroutine was its only one.
LEMMA Dequeued ==
    ASSUME queue \in Seq(Request), AskedOnce, queue # << >>,
           queue' = Tail(queue)
    PROVE  /\ AskedOnce'
           /\ Head(queue).by = "auto" => Requested(Head(queue).run)
           /\ \A q : Requested(q)' =>
                 /\ Requested(q)
                 /\ ~(Head(queue).by = "auto" /\ Head(queue).run = q)
<1>1. /\ Len(queue) \in Nat /\ Len(queue) > 0
      /\ DOMAIN queue = 1 .. Len(queue)
      /\ DOMAIN queue' = 1 .. (Len(queue) - 1)
      /\ \A i \in DOMAIN queue' : queue'[i] = queue[i + 1]
      /\ Head(queue) = queue[1]
    OBVIOUS
<1>2. 1 \in DOMAIN queue
    BY <1>1
<1>3. ASSUME NEW i \in DOMAIN queue'
      PROVE  i + 1 \in DOMAIN queue /\ i + 1 # 1 /\ queue'[i] = queue[i + 1]
    BY <1>1
<1>4. AskedOnce'
    <2>1. ASSUME NEW i \in DOMAIN queue', NEW j \in DOMAIN queue',
                 queue'[i].by = "auto", queue'[j].by = "auto",
                 queue'[i].run = queue'[j].run
          PROVE  i = j
        <3>1. i + 1 = j + 1
            BY <1>3, <2>1 DEF AskedOnce
        <3>2. QED
            BY <1>1, <3>1
    <2>2. QED
        BY <2>1 DEF AskedOnce
<1>5. Head(queue).by = "auto" => Requested(Head(queue).run)
    BY <1>1, <1>2 DEF Requested
<1>6. ASSUME NEW q, Requested(q)'
      PROVE  Requested(q) /\ ~(Head(queue).by = "auto" /\ Head(queue).run = q)
    <2>1. PICK i \in DOMAIN queue' : queue'[i].by = "auto" /\ queue'[i].run = q
        BY <1>6 DEF Requested
    <2>2. PICK j \in DOMAIN queue : /\ j # 1
                                    /\ queue[j].by = "auto" /\ queue[j].run = q
        BY <1>3, <2>1
    <2>3. QED
        BY <1>1, <1>2, <2>2 DEF Requested, AskedOnce
<1>7. QED
    BY <1>4, <1>5, <1>6

-----------------------------------------------------------------------------
(* The runs a step is not about. *)

\* What a step about r may do to another run q: it loses entries.
Aside(q) ==
    /\ rows'[q] = rows[q] /\ attempts'[q] = attempts[q]
    /\ task'[q] = task[q] /\ pend'[q] = pend[q]
    /\ q \in waiting' => q \in waiting
    /\ Requested(q)' => Requested(q)

\* The operation is about r before and after, or stays.
OpAbout(r) ==
    \/ op' = op
    \/ /\ op'.run = r \/ op' = Idle
       /\ op.at = "applied" => op.run = r

LEMMA RouteElsewhere ==
    ASSUME NEW r, OpAbout(r), NEW q \in Runs, q # r, RouteOf(q), Aside(q)
    PROVE  RouteOf(q)'
<1>1. op' = op \/ (op'.run # q /\ ~(op.at = "applied" /\ op.run = q))
    BY RunsAssumption DEF OpAbout, Idle
<1>2. /\ Present(q)' <=> Present(q)
      /\ Underway(q)' <=> Underway(q)
    BY DEF Aside, Present, Underway
<1>3. Untouched(q) => Untouched(q)'
    BY <1>1 DEF Aside, Untouched, Delivering
<1>4. Unchosen(q)' => Unchosen(q)
    BY <1>2 DEF Aside, Unchosen
<1>5. OneCoroutine(q)' /\ NoStrayAttempts(q)' /\ ChoosingIsSafe(q)'
    BY <1>1, <1>2, <1>3, <1>4
    DEF RouteOf, Aside, OneCoroutine, NoStrayAttempts, ChoosingIsSafe
<1>6. UnderwayRow(q)' /\ WaitersRest(q)' /\ PendingIsOriginal(q)'
    BY <1>1, <1>2
    DEF RouteOf, Aside, UnderwayRow, WaitersRest, PendingIsOriginal
<1>7. WaitingRow(q)' /\ ExplicitRead(q)'
    BY <1>1, <1>2 DEF RouteOf, Aside, WaitingRow, ExplicitRead
<1>8. QED
    BY <1>5, <1>6, <1>7 DEF RouteOf

-----------------------------------------------------------------------------
(* What a step does to its own run. *)

\* The row stays, or the run ends as cancelled, or its work as an error.
RowEnds(r) ==
    \/ rows'[r] = rows[r]
    \/ /\ Present(r)
       /\ \/ rows'[r].status = "cancelled"
          \/ /\ rows'[r].status = "error"
             /\ task[r].at \in Working \cup {"failed"}
             /\ task'[r].at = "closing"
       /\ rows'[r].text = rows[r].text
       /\ rows'[r].cleanup \in {rows[r].cleanup, "settled"}
       /\ rows'[r].version = rows[r].version + 1

\* The coroutine stays where it is, or leaves its way.
TaskLeaves(r) ==
    \/ task'[r].at = task[r].at
    \/ task[r].at # "gate" /\ task'[r].at \in {"closing", "done"}
    \/ task[r].at \in Working /\ task'[r].at = "failed"

\* The operation stays, or neither it nor the one before delivers the run.
OpKept(r) == op' = op \/ (~Delivering(r) /\ ~Delivering(r)')

\* Everything else of the run stays, or is given up.
RestKept(r) ==
    /\ OpKept(r)
    /\ attempts'[r] = attempts[r] /\ pend'[r] = pend[r]
    /\ r \in waiting' => r \in waiting
    /\ Requested(r)' => Requested(r)

\* A step that leaves the way of its run keeps the invariant.
LEMMA LeavingKeepsRoute ==
    ASSUME TypeOK, OperationRoute, OperationRoute', NEW r \in Runs, RouteOf(r),
           RestKept(r), RowEnds(r), TaskLeaves(r)
    PROVE  RouteOf(r)'
<1> USE DEF RestKept
<1>0. \/ op' = op
      \/ /\ ~(op.run = r /\ (op.by \in {"auto", "tick", "explicit"}
                             \/ op.at = "applied"))
         /\ ~(op'.run = r /\ (op'.by \in {"auto", "tick", "explicit"}
                              \/ op'.at = "applied"))
    BY DEF OpKept, Delivering, OperationRoute
<1>1. /\ "gate" \notin Working /\ "closing" \notin Working
      /\ "done" \notin Working /\ "failed" \notin Working
      /\ "start" \in Working
    BY DEF Working
<1>2. /\ Present(r)' <=> Present(r)
      /\ rows'[r].status = "absent" <=> rows[r].status = "absent"
      /\ rows'[r].text = rows[r].text
    BY DEF RowEnds, Present, Status, Dispatchable, Terminal
<1>3. Underway(r)' => Underway(r)
    BY <1>1 DEF TaskLeaves, Underway
<1>4. Untouched(r) => Untouched(r)'
    BY <1>0 DEF Untouched, Delivering
<1>5. rows'[r] = rows[r] \/ rows'[r].status \in {"cancelled", "error"}
    BY DEF RowEnds
<1>6. Unchosen(r)' => Unchosen(r)
    BY <1>1, <1>2, <1>5 DEF TaskLeaves, Unchosen
<1>7. OneCoroutine(r)'
    BY <1>0, <1>1, <1>2 DEF RouteOf, OneCoroutine, TaskLeaves
<1>8. NoStrayAttempts(r)' /\ ChoosingIsSafe(r)'
    BY <1>2, <1>4, <1>6 DEF RouteOf, NoStrayAttempts, ChoosingIsSafe
<1>9. WaitersRest(r)'
    BY <1>0, <1>3 DEF RouteOf, WaitersRest
<1>10. UnderwayRow(r)'
    <2>1. CASE rows'[r] = rows[r]
        BY <1>0, <1>2, <1>3, <2>1 DEF RouteOf, UnderwayRow
    <2>2. CASE rows'[r].status = "cancelled"
        BY <2>2 DEF UnderwayRow
    <2>3. CASE /\ task[r].at \in Working \cup {"failed"}
               /\ task'[r].at = "closing"
        <3>1. pend'[r] = "none"
            BY <2>3 DEF RouteOf, OneCoroutine
        <3>2. QED
            BY <1>1, <2>3, <3>1 DEF UnderwayRow, Underway
    <2>4. QED
        BY <2>1, <2>2, <2>3 DEF RowEnds
<1>11. PendingIsOriginal(r)'
    BY <1>1, <1>2, <1>5 DEF RouteOf, PendingIsOriginal, RowEnds, TaskLeaves
<1>12. WaitingRow(r)'
    <2>1. CASE rows'[r] = rows[r]
        BY <1>0, <2>1 DEF RouteOf, WaitingRow
    <2>2. CASE rows'[r].status = "cancelled"
        BY <1>0, <2>2 DEF RouteOf, WaitingRow, Waits
    <2>3. CASE task[r].at \in Working \cup {"failed"}
        <3>1. Underway(r) /\ task[r].at # "gate"
            BY <1>1, <2>3 DEF Underway
        <3>2. QED
            BY <1>0, <3>1
            DEF RouteOf, WaitingRow, WaitersRest, OneCoroutine, OperationRoute
    <2>4. QED
        BY <2>1, <2>2, <2>3 DEF RowEnds
<1>13. ExplicitRead(r)'
    <2>1. CASE rows'[r] = rows[r]
        BY <1>0, <1>2, <2>1 DEF RouteOf, ExplicitRead
    <2>2. CASE rows'[r].version = rows[r].version + 1
        <3>1. /\ rows[r].version \in Nat
              /\ op.by = "explicit" => op.version \in Nat
            BY RowType DEF TypeOK, ProtocolTypeOK, Operation, Idle, Row
        <3>2. QED
            BY <1>0, <1>2, <2>2, <3>1 DEF RouteOf, ExplicitRead
    <2>3. QED
        BY <2>1, <2>2 DEF RowEnds
<1>14. QED
    BY <1>7, <1>8, <1>9, <1>10, <1>11, <1>12, <1>13 DEF RouteOf

\* A step that leaves its run untouched keeps the invariant, if the coroutine
\* and the row fit each other.
LEMMA UntouchedKeepsRoute ==
    ASSUME NEW r \in Runs, OperationRoute', Untouched(r)',
           pend'[r] # "none" =>
              /\ task'[r].at \notin Working \cup {"gate", "failed"}
              /\ rows'[r].status # "absent",
           UnderwayRow(r)', PendingIsOriginal(r)'
    PROVE  RouteOf(r)'
<1>1. ~(op'.run = r /\ op'.by \in {"auto", "tick", "explicit"})
    BY DEF Untouched, Delivering
<1>2. OneCoroutine(r)' /\ NoStrayAttempts(r)' /\ ChoosingIsSafe(r)'
    BY <1>1 DEF OneCoroutine, NoStrayAttempts, ChoosingIsSafe, Untouched
<1>3. WaitersRest(r)' /\ WaitingRow(r)' /\ ExplicitRead(r)'
    BY <1>1
    DEF WaitersRest, WaitingRow, ExplicitRead, Untouched, OperationRoute
<1>4. QED
    BY <1>2, <1>3 DEF RouteOf

\* A deletion leaves nothing to deliver.
LEMMA DeletingKeepsRoute ==
    ASSUME StoreTypeOK, NEW r \in Runs, RouteOf(r), DeleteRow(r),
           op' = op, task' = task, pend' = pend,
           r \in waiting' => r \in waiting, Requested(r)' => Requested(r)
    PROVE  RouteOf(r)'
<1>1. rows'[r].status = "deleted" /\ attempts'[r] = << >>
    BY DEF DeleteRow, StoreTypeOK, Tombstone
<1>2. ~Present(r)' /\ ~Unchosen(r)'
    BY <1>1 DEF Present, Unchosen, Status, Dispatchable, Terminal
<1>3. OneCoroutine(r)' /\ NoStrayAttempts(r)' /\ ChoosingIsSafe(r)'
    BY <1>1, <1>2 DEF RouteOf, OneCoroutine, NoStrayAttempts, ChoosingIsSafe
<1>4. UnderwayRow(r)' /\ PendingIsOriginal(r)' /\ ExplicitRead(r)'
    BY <1>2 DEF UnderwayRow, PendingIsOriginal, ExplicitRead
<1>5. WaitersRest(r)' /\ WaitingRow(r)'
    BY <1>1 DEF RouteOf, WaitersRest, WaitingRow, Underway, Waits
<1>6. QED
    BY <1>3, <1>4, <1>5 DEF RouteOf

-----------------------------------------------------------------------------
(* The steps of the coroutines. *)

\* Where the events of a coroutine lead.
LEMMA EventMoves ==
    ASSUME NEW s \in Status
    PROVE  /\ Accepts(s, "cancel") => Moves[s]["cancel"] = "cancelled"
           /\ Accepts(s, "fail") =>
                 Moves[s]["fail"] = "error" /\ s \in {"recording", "processing"}
           /\ Accepts(s, "stop") => Moves[s]["stop"] = "processing"
           /\ Accepts(s, "cleanup_failed") =>
                 Moves[s]["cleanup_failed"] = "awaiting_cleanup_choice"
BY DEF Status, Dispatchable, Terminal, Moves, Accepts

\* The row a transition leaves.
LEMMA MovedRow ==
    ASSUME StoreTypeOK, NEW r \in Runs, Present(r), NEW e,
           Accepts(rows[r].status, e),
           Write(r, Moved(r, e)) \/ Write(r, Ended(Moved(r, e)))
    PROVE  /\ rows'[r].status = Moves[rows[r].status][e]
           /\ rows'[r].text = rows[r].text
           /\ rows'[r].cleanup \in {rows[r].cleanup, "settled"}
           /\ Write(r, Ended(Moved(r, e))) => rows'[r].cleanup # "pending"
           /\ rows'[r].version = rows[r].version + 1
           /\ \A q \in Runs \ {r} : rows'[q] = rows[q]
<1> DEFINE to == Moves[rows[r].status][e]
<1>1. rows[r] \in Row /\ Moved(r, e) \in Row /\ Ended(Moved(r, e)) \in Row
    BY RowType, MovedType, EndedType
<1>2. /\ Moved(r, e).status = to /\ Moved(r, e).text = rows[r].text
      /\ Moved(r, e).cleanup = rows[r].cleanup
    BY <1>1 DEF Moved, Row
<1>3. /\ Ended(Moved(r, e)).status = to
      /\ Ended(Moved(r, e)).text = rows[r].text
      /\ Ended(Moved(r, e)).cleanup =
            IF rows[r].cleanup = "pending" THEN "settled" ELSE rows[r].cleanup
    BY <1>1, <1>2 DEF Ended, Row
<1>4. ASSUME NEW row \in Row, Write(r, row)
      PROVE  /\ rows'[r].status = row.status /\ rows'[r].text = row.text
             /\ rows'[r].cleanup = row.cleanup
             /\ rows'[r].version = rows[r].version + 1
             /\ \A q \in Runs \ {r} : rows'[q] = rows[q]
    BY <1>4 DEF Write, StoreTypeOK, Row
<1>5. QED
    BY <1>1, <1>2, <1>3, <1>4

\* A run's own step, by anyone but the operation of the gate: the invariant of
\* the run holds after it, and the other runs keep theirs.
OwnStep(r) ==
    /\ op' = op /\ AskedOnce' /\ RouteOf(r)'
    /\ \A q \in Runs \ {r} : Aside(q)

\* The queue stays, or a request that is not a coroutine's joins it.
LEMMA SameQueue ==
    ASSUME AskedOnce, queue' = queue
    PROVE  AskedOnce' /\ \A q : Requested(q)' <=> Requested(q)
BY DEF AskedOnce, Requested

\* What the finally clause of a coroutine writes ends the run.
LEMMA FinallyEnds ==
    ASSUME TypeOK, NEW r \in Runs, NEW kind, Finally(r, kind)
    PROVE  RowEnds(r) /\ \A q \in Runs \ {r} : rows'[q] = rows[q]
<1>1. CASE rows' = rows
    BY <1>1 DEF RowEnds
<1>2. CASE rows' # rows
    <2>1. /\ Present(r) /\ rows[r].status \in Status
          /\ Accepts(rows[r].status, "cancel")
          /\ Write(r, Ended(Moved(r, "cancel")))
        BY <1>2, RowType DEF Finally, TypeOK
    <2>2. QED
        BY <2>1, MovedRow, EventMoves DEF TypeOK, RowEnds
<1>3. QED
    BY <1>1, <1>2

\* A coroutine ends, or gives up.
LEMMA EndingKeepsRoute ==
    ASSUME TypeOK, RouteInvariant, NEW r \in Runs,
           \/ TaskStops(r) \/ TaskCancels(r) \/ NoSpeech(r) \/ StaleWrite(r)
           \/ TaskFault(r) \/ Failed(r) \/ Close(r) \/ CloseFault(r)
           \/ OrphanClose(r)
    PROVE  OwnStep(r)
<1>1. op' = op /\ attempts' = attempts /\ pend' = pend /\ waiting' = waiting
      /\ queue' = queue
    BY DEF TaskStops, TaskCancels, NoSpeech, StaleWrite, TaskFault, Failed,
           Close, CloseFault, OrphanClose, workRest, closeRest, store, protocol
<1>2. \A q \in Runs \ {r} : task'[q] = task[q]
    BY DEF TaskStops, TaskCancels, NoSpeech, StaleWrite, TaskFault, Failed,
           Close, CloseFault, OrphanClose, Phase, TypeOK, ControlTypeOK
<1>3. "gate" \notin Working /\ "stt" \in Working
    BY DEF Working
<1>4. TaskLeaves(r)
    <2>1. ASSUME NEW at, Phase(r, at)
          PROVE  task'[r].at = at
        BY <2>1 DEF Phase, TypeOK, ControlTypeOK, Task
    <2>2. QED
        BY <1>3, <2>1
        DEF TaskStops, TaskCancels, NoSpeech, StaleWrite, TaskFault, Failed,
            Close, CloseFault, OrphanClose, TaskLeaves, Working, Proceeds
<1>5. RowEnds(r) /\ \A q \in Runs \ {r} : rows'[q] = rows[q]
    <2>1. CASE Close(r) \/ OrphanClose(r)
        BY <2>1, FinallyEnds DEF Close, OrphanClose
    <2>2. CASE TaskStops(r) \/ StaleWrite(r) \/ TaskFault(r) \/ CloseFault(r)
        BY <2>2 DEF TaskStops, StaleWrite, TaskFault, CloseFault, store, RowEnds
    <2>3. CASE rows' = rows
        BY <2>3 DEF RowEnds
    <2>4. CASE TaskCancels(r) /\ rows' # rows
        <3>1. /\ Present(r) /\ rows[r].status \in Status
              /\ Accepts(rows[r].status, "cancel")
              /\ Write(r, Ended(Moved(r, "cancel")))
            BY <2>4, RowType DEF TaskCancels, TypeOK
        <3>2. QED
            BY <3>1, MovedRow, EventMoves DEF TypeOK, RowEnds
    <2>5. CASE NoSpeech(r) /\ rows' # rows
        <3>1. /\ Present(r) /\ rows[r].status \in Status
              /\ Accepts(rows[r].status, "fail")
              /\ Write(r, Ended(Moved(r, "fail")))
              /\ Phase(r, "closing") /\ task[r].at = "stt"
            BY <2>5, RowType DEF NoSpeech, Proceeds, TypeOK
        <3>2. task'[r].at = "closing"
            BY <3>1 DEF Phase, TypeOK, ControlTypeOK, Task
        <3>3. QED
            BY <1>3, <3>1, <3>2, MovedRow, EventMoves DEF TypeOK, RowEnds
    <2>6. CASE Failed(r) /\ rows' # rows
        <3>1. /\ Present(r) /\ rows[r].status \in Status
              /\ \E e \in {"cancel", "fail"} :
                    /\ Accepts(rows[r].status, e)
                    /\ Write(r, Moved(r, e)) \/ Write(r, Ended(Moved(r, e)))
              /\ Phase(r, "closing") /\ task[r].at = "failed"
            BY <2>6, RowType DEF Failed, TypeOK
        <3>2. task'[r].at = "closing"
            BY <3>1 DEF Phase, TypeOK, ControlTypeOK, Task
        <3>3. QED
            BY <3>1, <3>2, MovedRow, EventMoves DEF TypeOK, RowEnds
    <2>7. QED
        BY <2>1, <2>2, <2>3, <2>4, <2>5, <2>6
<1>6. AskedOnce' /\ \A q : Requested(q)' <=> Requested(q)
    BY <1>1, SameQueue DEF RouteInvariant
<1>7. RouteOf(r)'
    BY <1>1, <1>4, <1>5, <1>6, LeavingKeepsRoute
    DEF RestKept, OpKept, RouteInvariant, OperationRoute
<1>8. QED
    BY <1>1, <1>2, <1>5, <1>6, <1>7 DEF OwnStep, Aside

\* A coroutine at work has touched nothing.
LEMMA WorkingIsUntouched ==
    ASSUME RouteInvariant, NEW r \in Runs, Visible(r), task[r].at \in Working
    PROVE  /\ Untouched(r) /\ Present(r) /\ pend[r] = "none"
           /\ rows[r].status \in {"recording", "processing", "cancelled"}
<1>1. Present(r) /\ Unchosen(r) /\ Underway(r)
    BY DEF Visible, Unchosen, Underway
<1>2. Untouched(r) /\ pend[r] = "none"
    BY <1>1 DEF RouteInvariant, RouteOf, ChoosingIsSafe, OneCoroutine
<1>3. QED
    BY <1>1, <1>2 DEF RouteInvariant, RouteOf, UnderwayRow, Untouched, Delivering

\* A coroutine goes on with its work, or leaves the choice to the user.
LEMMA WorkingKeepsRoute ==
    ASSUME TypeOK, RouteInvariant, NEW r \in Runs,
           \/ EndRecording(r) \/ StoreText(r) \/ RetryCleanup(r)
           \/ CleanupFails(r)
    PROVE  OwnStep(r)
<1>1. op' = op /\ attempts' = attempts /\ pend' = pend /\ waiting' = waiting
      /\ queue' = queue
    BY DEF EndRecording, StoreText, RetryCleanup, CleanupFails, workRest, protocol
<1>2. \A q \in Runs \ {r} : task'[q] = task[q]
    BY DEF EndRecording, StoreText, RetryCleanup, CleanupFails, Phase, Reached,
           TypeOK, ControlTypeOK
<1>3. Visible(r) /\ task[r].at \in Working
    BY DEF EndRecording, StoreText, RetryCleanup, CleanupFails, Proceeds, Working
<1>4. /\ Untouched(r) /\ Present(r) /\ pend[r] = "none"
      /\ rows[r].status \in {"recording", "processing", "cancelled"}
      /\ rows[r] \in Row /\ rows[r].status \in Status
    BY <1>3, WorkingIsUntouched, RowType DEF TypeOK
<1>5. AskedOnce' /\ \A q : Requested(q)' <=> Requested(q)
    BY <1>1, SameQueue DEF RouteInvariant
<1>6. Untouched(r)' /\ OperationRoute'
    BY <1>1, <1>4, <1>5 DEF Untouched, Delivering, RouteInvariant, OperationRoute
<1>7. ASSUME NEW at, Phase(r, at) \/ Reached(r, at)
      PROVE  task'[r].at = at
    BY <1>7 DEF Phase, Reached, TypeOK, ControlTypeOK, Task
<1>8. ASSUME NEW row \in Row, Write(r, row)
      PROVE  /\ rows'[r].status = row.status /\ rows'[r].text = row.text
             /\ rows'[r].cleanup = row.cleanup
             /\ \A q \in Runs \ {r} : rows'[q] = rows[q]
    BY <1>8 DEF Write, TypeOK, StoreTypeOK, Row
<1>9. rows[r].cleanup = "pending" => rows[r].text = "original"
    BY <1>4 DEF RouteInvariant, RouteOf, PendingIsOriginal
<1>10. /\ UnderwayRow(r)' /\ PendingIsOriginal(r)'
       /\ \A q \in Runs \ {r} : rows'[q] = rows[q]
    <2>1. CASE EndRecording(r) \/ StoreText(r) \/ RetryCleanup(r)
        <3>1. /\ rows'[r].status \in {"recording", "processing", "cancelled"}
              /\ rows'[r].cleanup = "pending" => rows'[r].text = "original"
              /\ task'[r].at # "start"
              /\ \A q \in Runs \ {r} : rows'[q] = rows[q]
            <4>1. CASE EndRecording(r)
                <5>1. Accepts(rows[r].status, "stop") =>
                        /\ rows'[r].status = "processing"
                        /\ rows'[r].text = rows[r].text
                        /\ rows'[r].cleanup \in {rows[r].cleanup, "settled"}
                        /\ \A q \in Runs \ {r} : rows'[q] = rows[q]
                    BY <1>4, <4>1, MovedRow, EventMoves
                    DEF EndRecording, TypeOK
                <5>2. task'[r].at \in {"stt", "failed"}
                    BY <1>7, <4>1 DEF EndRecording
                <5>3. ~Accepts(rows[r].status, "stop") => rows' = rows
                    BY <4>1 DEF EndRecording
                <5>4. QED
                    BY <1>4, <1>9, <5>1, <5>2, <5>3
            <4>2. CASE StoreText(r) \/ RetryCleanup(r)
                <5>1. PICK row \in {[rows[r] EXCEPT !.text = "original",
                                                    !.cleanup = "pending"],
                                    [rows[r] EXCEPT !.text = "original"]} :
                        Write(r, row)
                    BY <4>2 DEF StoreText, RetryCleanup
                <5>2. /\ row \in Row /\ row.status = rows[r].status
                      /\ row.text = "original"
                    BY <1>4 DEF Row, Texts, Cleanups
                <5>3. task'[r].at \in {"cleaning", "stored"}
                    BY <1>7, <4>2 DEF StoreText, RetryCleanup
                <5>4. QED
                    BY <1>4, <1>8, <5>1, <5>2, <5>3
            <4>3. QED
                BY <2>1, <4>1, <4>2
        <3>2. QED
            BY <1>1, <1>4, <3>1 DEF UnderwayRow, PendingIsOriginal
    <2>2. CASE CleanupFails(r) /\ Accepts(rows[r].status, "cleanup_failed")
        <3> DEFINE row == [Moved(r, "cleanup_failed") EXCEPT
                              !.cleanup = "settled", !.text = "original"]
        <3>1. /\ row \in Row /\ Write(r, row) /\ row.cleanup = "settled"
              /\ task'[r].at = "closing"
            <4>1. Moved(r, "cleanup_failed") \in Row
                BY <1>4, <2>2, MovedType
            <4>2. row \in Row /\ row.cleanup = "settled"
                BY <4>1 DEF Row, Texts, Cleanups
            <4>3. QED
                BY <1>7, <2>2, <4>2 DEF CleanupFails
        <3>2. rows'[r].cleanup = "settled"
              /\ \A q \in Runs \ {r} : rows'[q] = rows[q]
            BY <1>8, <3>1
        <3>3. UnderwayRow(r)'
            BY <1>1, <1>4, <3>1 DEF UnderwayRow, Underway, Working
        <3>4. QED
            BY <3>2, <3>3 DEF PendingIsOriginal
    <2>3. CASE CleanupFails(r) /\ ~Accepts(rows[r].status, "cleanup_failed")
        <3>1. rows' = rows /\ task'[r].at = "failed"
            BY <1>7, <2>3 DEF CleanupFails
        <3>2. QED
            BY <1>1, <1>4, <1>9, <3>1
            DEF UnderwayRow, PendingIsOriginal
    <2>4. QED
        BY <2>1, <2>2, <2>3
<1>11. RouteOf(r)'
    BY <1>1, <1>4, <1>6, <1>10, UntouchedKeepsRoute
<1>12. QED
    BY <1>1, <1>2, <1>5, <1>10, <1>11 DEF OwnStep, Aside

\* A text is selected: from here on the run may be claimed.
LEMMA SelectingKeepsRoute ==
    ASSUME TypeOK, RouteInvariant, NEW r \in Runs,
           SelectAdjusted(r) \/ UseOriginal(r) \/ CleanupSettles(r)
    PROVE  OwnStep(r)
<1>1. Visible(r) /\ task[r].at \in Working
    BY DEF SelectAdjusted, UseOriginal, CleanupSettles, Proceeds, Working
<1>2. /\ Untouched(r) /\ Present(r) /\ pend[r] = "none"
      /\ rows[r].status \in {"recording", "processing", "cancelled"}
      /\ rows[r] \in Row
    BY <1>1, WorkingIsUntouched, RowType DEF TypeOK
<1>3. PICK cleanup \in Cleanups \ {"pending"} : Select(r, cleanup)
    <2>1. UseOriginal(r) => task[r].at = "start"
        BY DEF UseOriginal, Proceeds
    <2>2. UseOriginal(r) => rows[r].cleanup \in Cleanups \ {"pending"}
        BY <1>2, <2>1 DEF RouteInvariant, RouteOf, PendingIsOriginal, Row
    <2>3. QED
        BY <2>2 DEF SelectAdjusted, UseOriginal, CleanupSettles, Cleanups
<1> DEFINE row == [rows[r] EXCEPT !.text = "selected", !.cleanup = cleanup]
<1>4. /\ row.status = rows[r].status /\ row.text = "selected"
      /\ row.cleanup = cleanup /\ row \in Row
    BY <1>2 DEF Row, Texts
<1>5. /\ rows'[r].status = rows[r].status /\ rows'[r].text = "selected"
      /\ rows'[r].cleanup # "pending"
      /\ \A q \in Runs \ {r} : rows'[q] = rows[q]
    BY <1>3, <1>4 DEF Select, Write, TypeOK, StoreTypeOK, Row
<1>6. /\ op' = op /\ attempts' = attempts /\ pend' = pend
      /\ waiting' = waiting
    BY <1>3 DEF Select, workRest, protocol
<1>7. /\ task'[r].at = "gate"
      /\ \A q \in Runs \ {r} : task'[q] = task[q]
    BY <1>3 DEF Select, Reached, TypeOK, ControlTypeOK, Task
<1>8. /\ AskedOnce'
      /\ \A q : Requested(q)' => Requested(q) \/ q = r
    BY <1>2, <1>3, Enqueued
    DEF Select, Untouched, TypeOK, ControlTypeOK, RouteInvariant
<1>9. attempts[r] = << >> /\ r \notin waiting /\ ~Delivering(r)
    BY <1>2 DEF Untouched
<1>10. ~(op.run = r /\ (op.by \in {"auto", "tick", "explicit"}
                        \/ op.at = "applied"))
    BY <1>9 DEF Delivering, RouteInvariant, OperationRoute
<1>11. ~Unchosen(r)'
    BY <1>2, <1>5, <1>6, <1>7 DEF Unchosen, Working
<1>12. OneCoroutine(r)' /\ NoStrayAttempts(r)' /\ ChoosingIsSafe(r)'
    BY <1>2, <1>6, <1>7, <1>9, <1>10, <1>11
    DEF OneCoroutine, NoStrayAttempts, ChoosingIsSafe
<1>13. UnderwayRow(r)' /\ WaitersRest(r)' /\ PendingIsOriginal(r)'
    BY <1>2, <1>5, <1>6, <1>9, <1>10
    DEF UnderwayRow, WaitersRest, PendingIsOriginal
<1>14. WaitingRow(r)' /\ ExplicitRead(r)'
    BY <1>6, <1>9, <1>10 DEF WaitingRow, ExplicitRead
<1>15. RouteOf(r)'
    BY <1>12, <1>13, <1>14 DEF RouteOf
<1>16. QED
    BY <1>5, <1>6, <1>7, <1>8, <1>15 DEF OwnStep, Aside

-----------------------------------------------------------------------------
(* The commands of the user, and the deletions. *)

\* A run begins untouched.
LEMMA StartKeepsRoute ==
    ASSUME TypeOK, RouteInvariant, NEW r \in Runs, Start(r)
    PROVE  OwnStep(r)
<1>1. /\ op' = op /\ attempts' = attempts /\ pend' = pend
      /\ waiting' = waiting /\ queue' = queue
      /\ rows[r].status = "absent"
    BY DEF Start, protocol
<1>2. /\ rows'[r].status = "recording" /\ rows'[r].cleanup = "off"
      /\ \A q \in Runs \ {r} : rows'[q] = rows[q]
    BY DEF Start, CreateRow, TypeOK, StoreTypeOK
<1>3. /\ task'[r].at = "recording"
      /\ \A q \in Runs \ {r} : task'[q] = task[q]
    BY DEF Start, TypeOK, ControlTypeOK
<1>4. AskedOnce' /\ \A q : Requested(q)' <=> Requested(q)
    BY <1>1, SameQueue DEF RouteInvariant
<1>5. Untouched(r) /\ pend[r] = "none"
    BY <1>1 DEF RouteInvariant, RouteOf, ChoosingIsSafe, Unchosen, OneCoroutine
<1>6. Untouched(r)' /\ OperationRoute'
    BY <1>1, <1>4, <1>5 DEF Untouched, Delivering, RouteInvariant, OperationRoute
<1>7. UnderwayRow(r)' /\ PendingIsOriginal(r)'
    BY <1>1, <1>2, <1>3, <1>5 DEF UnderwayRow, PendingIsOriginal
<1>8. RouteOf(r)'
    BY <1>1, <1>5, <1>6, <1>7, UntouchedKeepsRoute
<1>9. QED
    BY <1>1, <1>2, <1>3, <1>4, <1>8 DEF OwnStep, Aside

\* A recovery begins where no coroutine is under way, on a run untouched.
LEMMA CommitKeepsRoute ==
    ASSUME TypeOK, RouteInvariant, NEW r \in Runs,
           NEW action \in Kinds \ {"process"}, RecoverCommit(r, action)
    PROVE  OwnStep(r)
<1>1. /\ op' = op /\ attempts' = attempts /\ task' = task
      /\ waiting' = waiting /\ queue' = queue
      /\ Visible(r) /\ pend[r] = "none"
      /\ action \in RecoveryActions[rows[r].status] \ {"insert"}
      /\ action = "retry_stt" => rows[r].text = "none"
      /\ Write(r, Moved(r, action))
    BY DEF RecoverCommit, protocol
<1>2. Present(r) /\ rows[r] \in Row /\ rows[r].status \in Status
    BY <1>1, RowType DEF TypeOK
<1>3. /\ Accepts(rows[r].status, action)
      /\ Moves[rows[r].status][action] = "processing"
      /\ \/ rows[r].status = "awaiting_cleanup_choice"
         \/ rows[r].status = "error" /\ action = "retry_stt"
    BY <1>1, <1>2
    DEF Status, Dispatchable, Terminal, RecoveryActions, Moves, Accepts
<1>4. /\ rows'[r].status = "processing" /\ rows'[r].text = rows[r].text
      /\ rows'[r].cleanup \in {rows[r].cleanup, "settled"}
      /\ \A q \in Runs \ {r} : rows'[q] = rows[q]
    BY <1>1, <1>2, <1>3, MovedRow DEF TypeOK
<1>5. /\ pend'[r] = action
      /\ \A q \in Runs \ {r} : pend'[q] = pend[q]
    BY DEF RecoverCommit, TypeOK, ControlTypeOK
<1>6. AskedOnce' /\ \A q : Requested(q)' <=> Requested(q)
    BY <1>1, SameQueue DEF RouteInvariant
<1>7. Unchosen(r)
    BY <1>1, <1>2, <1>3 DEF Unchosen
<1>8. Untouched(r)
    BY <1>7 DEF RouteInvariant, RouteOf, ChoosingIsSafe
<1>9. task[r].at \notin Working \cup {"gate", "failed"}
    BY <1>2, <1>3, <1>8
    DEF RouteInvariant, RouteOf, UnderwayRow, Underway, Untouched, Delivering
<1>10. Untouched(r)' /\ OperationRoute'
    BY <1>1, <1>6, <1>8 DEF Untouched, Delivering, RouteInvariant, OperationRoute
<1>11. UnderwayRow(r)'
    BY <1>4 DEF UnderwayRow
<1>12. PendingIsOriginal(r)'
    <2>1. /\ rows[r].cleanup = "pending" => rows[r].text = "original"
          /\ rows[r].status = "awaiting_cleanup_choice" =>
                rows[r].cleanup # "pending"
        BY <1>2 DEF RouteInvariant, RouteOf, PendingIsOriginal
    <2>2. task[r].at # "start"
        BY <1>9 DEF Working
    <2>3. rows'[r].cleanup = "pending" => rows'[r].text = "original"
        BY <1>4, <2>1
    <2>4. action # "retry_stt" => rows'[r].cleanup # "pending"
        BY <1>3, <1>4, <2>1
    <2>5. QED
        BY <1>1, <1>4, <1>5, <2>2, <2>3, <2>4 DEF PendingIsOriginal
<1>13. RouteOf(r)'
    BY <1>1, <1>4, <1>9, <1>10, <1>11, <1>12, UntouchedKeepsRoute
<1>14. QED
    BY <1>1, <1>4, <1>5, <1>6, <1>13 DEF OwnStep, Aside

\* Its coroutine is launched.
LEMMA LaunchKeepsRoute ==
    ASSUME TypeOK, RouteInvariant, NEW r \in Runs, RecoverLaunch(r)
    PROVE  OwnStep(r)
<1>1. /\ op' = op /\ attempts' = attempts /\ rows' = rows
      /\ waiting' = waiting /\ queue' = queue
      /\ pend[r] # "none" /\ pend[r] \in Kinds
    BY DEF RecoverLaunch, protocol, store, TypeOK, ControlTypeOK
<1>2. /\ task'[r].at = IF pend[r] = "retry_stt" THEN "stt" ELSE "start"
      /\ pend'[r] = "none"
      /\ \A q \in Runs \ {r} : task'[q] = task[q] /\ pend'[q] = pend[q]
    BY DEF RecoverLaunch, TypeOK, ControlTypeOK
<1>3. AskedOnce' /\ \A q : Requested(q)' <=> Requested(q)
    BY <1>1, SameQueue DEF RouteInvariant
<1>4. /\ rows[r].status # "absent" /\ Underway(r) /\ task[r].at # "gate"
      /\ ~Requested(r) /\ ~(op.run = r /\ op.by = "auto")
      /\ ~(op.run = r /\ op.at = "applied")
    BY <1>1
    DEF RouteInvariant, RouteOf, OneCoroutine, Underway, OperationRoute
<1>5. r \notin waiting /\ ~(op.run = r /\ op.by \in {"tick", "explicit"})
    BY <1>4 DEF RouteInvariant, RouteOf, WaitersRest
<1>6. Present(r) => Unchosen(r)
    BY <1>1 DEF Unchosen
<1>7. attempts[r] = << >>
    BY <1>6
    DEF RouteInvariant, RouteOf, ChoosingIsSafe, Untouched, NoStrayAttempts
<1>8. Untouched(r)' /\ OperationRoute'
    BY <1>1, <1>3, <1>4, <1>5, <1>7
    DEF Untouched, Delivering, RouteInvariant, OperationRoute
<1>9. UnderwayRow(r)' /\ PendingIsOriginal(r)'
    <2>1. Present(r) =>
            /\ rows[r].status \in {"recording", "processing", "cancelled"}
            /\ rows[r].cleanup = "pending" => rows[r].text = "original"
            /\ pend[r] # "retry_stt" => rows[r].cleanup # "pending"
        BY <1>1, <1>4 DEF RouteInvariant, RouteOf, UnderwayRow, PendingIsOriginal
    <2>2. QED
        BY <1>1, <1>2, <2>1 DEF UnderwayRow, PendingIsOriginal, Present
<1>10. RouteOf(r)'
    BY <1>2, <1>8, <1>9, UntouchedKeepsRoute
<1>11. QED
    BY <1>1, <1>2, <1>3, <1>10 DEF OwnStep, Aside

\* The commands that only ask, the aborts and the clock keep every row.
LEMMA AskingKeepsRoute ==
    ASSUME TypeOK, RouteInvariant, NEW r \in Runs,
           \/ Cancel(r) \/ Delete(r) \/ Age(r) \/ Evicted(r) \/ WaitLimit(r)
           \/ \E ack \in BOOLEAN : RecoverInsert(r, ack)
    PROVE  OwnStep(r)
<1>1. /\ op' = op /\ attempts' = attempts /\ pend' = pend /\ task' = task
      /\ rows' = rows
      /\ \A q \in Runs : q \in waiting' => q \in waiting
    BY DEF Cancel, Delete, Age, Evicted, WaitLimit, RecoverInsert, Abort,
           abortRest, store, protocol
<1>2. \/ queue' = queue
      \/ \E by \in {"cancel", "explicit"} : \E version, ack :
            Enqueue(by, r, version, ack)
    BY DEF Cancel, Delete, Age, Evicted, WaitLimit, RecoverInsert, abortRest
<1>3. AskedOnce' /\ \A q : Requested(q)' => Requested(q)
    <2>1. ASSUME NEW by \in {"cancel", "explicit"}, NEW version, NEW ack,
                 Enqueue(by, r, version, ack)
          PROVE  AskedOnce' /\ \A q : Requested(q)' => Requested(q)
        BY <2>1, Enqueued DEF TypeOK, ControlTypeOK, RouteInvariant
    <2>2. QED
        BY <1>2, <2>1, SameQueue DEF RouteInvariant
<1>4. RouteOf(r)'
    BY <1>1, <1>3, LeavingKeepsRoute
    DEF RestKept, OpKept, RowEnds, TaskLeaves, RouteInvariant, OperationRoute
<1>5. QED
    BY <1>1, <1>3, <1>4 DEF OwnStep, Aside

\* A deletion is about its run only.
LEMMA RemovalKeepsRoute ==
    ASSUME TypeOK, RouteInvariant, NEW r \in Runs,
           RemoveRow(r) \/ Expire(r) \/ Retire(r)
    PROVE  OwnStep(r)
<1>1. /\ op' = op /\ pend' = pend /\ task' = task /\ waiting' = waiting
      /\ queue' = queue
    BY DEF RemoveRow, Expire, Retire, abortRest
<1>2. DeleteRow(r) \/ UNCHANGED <<rows, attempts>>
    BY DEF RemoveRow, Expire, Retire, RetentionDelete
<1>3. AskedOnce' /\ \A q : Requested(q)' <=> Requested(q)
    BY <1>1, SameQueue DEF RouteInvariant
<1>4. \A q \in Runs \ {r} : rows'[q] = rows[q] /\ attempts'[q] = attempts[q]
    BY <1>2 DEF DeleteRow, TypeOK, StoreTypeOK
<1>5. RouteOf(r)'
    <2>1. CASE DeleteRow(r)
        BY <1>1, <1>3, <2>1, DeletingKeepsRoute DEF RouteInvariant, TypeOK
    <2>2. CASE UNCHANGED <<rows, attempts>>
        BY <1>1, <1>3, <2>2, LeavingKeepsRoute
        DEF RestKept, OpKept, RowEnds, TaskLeaves, RouteInvariant, OperationRoute
    <2>3. QED
        BY <1>2, <2>1, <2>2
<1>6. QED
    BY <1>1, <1>3, <1>4, <1>5 DEF OwnStep, Aside

\* Every step of a run is its own.
LEMMA RunStepsAreOwn ==
    ASSUME TypeOK, RouteInvariant, NEW r \in Runs,
           Work(r) \/ User(r) \/ Environment(r) \/ Background(r)
    PROVE  OwnStep(r)
BY EndingKeepsRoute, WorkingKeepsRoute, SelectingKeepsRoute, StartKeepsRoute,
   CommitKeepsRoute, LaunchKeepsRoute, AskingKeepsRoute, RemovalKeepsRoute
DEF Work, User, Environment, Background

-----------------------------------------------------------------------------
(* The operations of the gate. *)

\* What no operation of the gate changes.
LEMMA GateKeeps ==
    ASSUME Gate
    PROVE  /\ attempts' = attempts /\ pend' = pend /\ typed' = typed
           /\ up' = up /\ aged' = aged
BY DEF Gate, AutoStart, AutoApply, AutoSettle, TickStart, TickApply,
       ExplicitStart, ExplicitApply, ExplicitReturns, CancelStart,
       CancelWrite, gateRest, tickRest, explicitRest, cancelRest

\* A free gate is held by nobody.
LEMMA FreeGate ==
    ASSUME ProtocolTypeOK, op.at = "idle"
    PROVE  op = Idle
BY DEF ProtocolTypeOK, Operation, Phases, Claimed

\* The operation a request opens.
LEMMA OpenedFields ==
    ASSUME NEW by, Granted(by), NEW at
    PROVE  /\ Opened(at).at = at /\ Opened(at).by = by
           /\ Opened(at).run = Head(queue).run
           /\ Opened(at).version = Head(queue).version
           /\ Opened(at).ack = Head(queue).ack
           /\ Opened(at).entry = FALSE /\ Opened(at).jumped = FALSE
           /\ Opened(at).result = "none"
BY DEF Opened, Idle, Granted

\* The gate passes on: the queue loses its first request.
LEMMA GrantedQueue ==
    ASSUME TypeOK, RouteInvariant, NEW by, Granted(by)
    PROVE  /\ op = Idle /\ AskedOnce'
           /\ by = "auto" => Requested(Head(queue).run)
           /\ \A q : Requested(q)' =>
                 Requested(q) /\ ~(by = "auto" /\ Head(queue).run = q)
<1>1. Head(queue).by = by /\ op = Idle
    BY FreeGate DEF Granted, TypeOK
<1>2. QED
    BY <1>1, Dequeued DEF Granted, TypeOK, ControlTypeOK, RouteInvariant

\* A step of an operation about r: the invariant of r holds after it, and the
\* other runs keep theirs.
GateStep(r) ==
    /\ OpAbout(r) /\ OperationRoute' /\ AskedOnce' /\ RouteOf(r)'
    /\ \A q \in Runs \ {r} : Aside(q)

\* An operation that is over leaves no trace.
LEMMA ReleasedOperation ==
    ASSUME Release
    PROVE  /\ OperationRoute'
           /\ op'.by = "none" /\ op'.at = "idle"
           /\ \A r \in Runs : op'.run # r
BY RunsAssumption DEF Release, Idle, OperationRoute

\* What a gate operation may make of the row of a run it may deliver.
RowDelivered(r) ==
    \/ rows'[r] = rows[r]
    \/ /\ Present(r)
       /\ rows'[r].status \in Status \ {"awaiting_cleanup_choice"}
       /\ rows'[r].text = rows[r].text

\* A run whose text was chosen stays so.
LEMMA ChosenStays ==
    ASSUME NEW r \in Runs, RouteOf(r), ~Unchosen(r), RowDelivered(r),
           attempts' = attempts, pend' = pend, Requested(r)' => Requested(r),
           task'[r].at \in Working => task'[r].at = task[r].at
    PROVE  ~Unchosen(r)' /\ NoStrayAttempts(r)' /\ ChoosingIsSafe(r)'
<1>1. /\ Present(r)' <=> Present(r)
      /\ rows'[r].status = "absent" <=> rows[r].status = "absent"
    BY DEF RowDelivered, Present, Status, Dispatchable, Terminal
<1>2. ~Unchosen(r)'
    BY <1>1 DEF Unchosen, RowDelivered
<1>3. QED
    BY <1>1, <1>2 DEF RouteOf, NoStrayAttempts, ChoosingIsSafe

\* The text that was chosen has no cleanup pending.
LEMMA ChosenIsSettled ==
    ASSUME NEW r \in Runs, RouteOf(r), ~Unchosen(r), RowDelivered(r),
           ~Unchosen(r)', rows'[r].cleanup \in {rows[r].cleanup, "settled"}
    PROVE  PendingIsOriginal(r)'
<1>1. Present(r)' => Present(r)
    BY DEF RowDelivered, Present
<1>2. Present(r) => rows[r].cleanup # "pending"
    BY DEF RouteOf, PendingIsOriginal, Unchosen
<1>3. QED
    BY <1>1, <1>2 DEF PendingIsOriginal

\* The operation of a run ends: it leaves the run where its coroutine or its
\* waiting entry finds it.
LEMMA ReleasedRoute ==
    ASSUME NEW r \in Runs, RouteOf(r), ~Unchosen(r), Release,
           attempts' = attempts, pend' = pend, RowDelivered(r),
           rows'[r].cleanup \in {rows[r].cleanup, "settled"},
           task'[r].at = task[r].at \/
              (pend[r] = "none" /\ task'[r].at \in {"failed", "closing", "done"}),
           Requested(r)' => Requested(r) /\ task'[r].at = task[r].at,
           r \in waiting' => rows'[r].status \in Waits /\ ~Underway(r)',
           Present(r)' /\ Underway(r)' =>
              rows'[r].status \in {"recording", "processing", "cancelled"}
    PROVE  RouteOf(r)'
<1>1. ~(op'.run = r) /\ op'.by = "none"
    BY ReleasedOperation
<1>2. ~Unchosen(r)' /\ NoStrayAttempts(r)' /\ ChoosingIsSafe(r)'
    BY ChosenStays DEF Working
<1>3. PendingIsOriginal(r)'
    BY <1>2, ChosenIsSettled
<1>4. OneCoroutine(r)'
    <2>1. rows'[r].status = "absent" <=> rows[r].status = "absent"
        BY DEF RowDelivered, Present, Status, Dispatchable, Terminal
    <2>2. QED
        BY <1>1, <2>1 DEF RouteOf, OneCoroutine
<1>5. UnderwayRow(r)' /\ WaitersRest(r)' /\ WaitingRow(r)' /\ ExplicitRead(r)'
    BY <1>1 DEF UnderwayRow, WaitersRest, WaitingRow, ExplicitRead
<1>6. QED
    BY <1>2, <1>3, <1>4, <1>5 DEF RouteOf

\* The row an outcome leaves.
LEMMA AppliedRow ==
    ASSUME StoreTypeOK, NEW r \in Runs, Present(r), NEW result \in Results,
           result \in DispatchResults \/ Applies(rows[r].status, result),
           NEW n \in Nat,
           \/ Write(r, Applied(r, result))
           \/ Write(r, [Applied(r, result) EXCEPT !.since = n])
    PROVE  /\ rows'[r].status \in Status \ {"awaiting_cleanup_choice"}
           /\ result = "awaiting" => rows'[r].status = "awaiting_destination"
           /\ rows'[r].text = rows[r].text
           /\ rows'[r].cleanup \in {rows[r].cleanup, "settled"}
           /\ rows'[r].version = rows[r].version + 1
           /\ \A q \in Runs \ {r} : rows'[q] = rows[q]
<1> DEFINE row == Applied(r, result)
<1>1. rows[r] \in Row /\ row \in Row /\ rows[r].status \in Status
    BY RowType, AppliedType DEF Present
<1>2. /\ row.status \in Status \ {"awaiting_cleanup_choice"}
      /\ result = "awaiting" => row.status = "awaiting_destination"
      /\ row.text = rows[r].text
      /\ row.cleanup \in {rows[r].cleanup, "settled"}
    <2>1. CASE result \in DispatchResults
        <3>1. OutcomeMove[result] \in Status \ {"awaiting_cleanup_choice"}
            BY <2>1
            DEF OutcomeMove, DispatchResults, Status, Dispatchable, Terminal
        <3>2. row = [rows[r] EXCEPT !.status = OutcomeMove[result]]
            BY <2>1 DEF Applied
        <3>3. QED
            BY <1>1, <2>1, <3>1, <3>2 DEF Row, DispatchResults
    <2>2. CASE result \notin DispatchResults
        <3>1. /\ result \in {"cancelled", "awaiting", "held"}
              /\ Accepts(rows[r].status, EventOf[result])
            BY <2>2 DEF Applies, EventOf
        <3>2. /\ Moves[rows[r].status][EventOf[result]] \in
                    Status \ {"awaiting_cleanup_choice"}
              /\ result = "awaiting" =>
                    Moves[rows[r].status][EventOf[result]] =
                       "awaiting_destination"
            BY <1>1, <3>1
            DEF EventOf, Accepts, Moves, Status, Dispatchable, Terminal
        <3>3. Moved(r, EventOf[result]) \in Row
            BY <1>1, <3>1, MovedType
        <3>4. \/ row = Moved(r, EventOf[result])
              \/ row = Ended(Moved(r, EventOf[result]))
            BY <2>2, <3>1 DEF Applied, EventOf
        <3>5. /\ Moved(r, EventOf[result]).status =
                    Moves[rows[r].status][EventOf[result]]
              /\ Moved(r, EventOf[result]).text = rows[r].text
              /\ Moved(r, EventOf[result]).cleanup = rows[r].cleanup
            BY <1>1, <3>3 DEF Moved, Row
        <3>6. ASSUME NEW m \in Row
              PROVE  /\ Ended(m).status = m.status /\ Ended(m).text = m.text
                     /\ Ended(m).cleanup \in {m.cleanup, "settled"}
            BY DEF Ended, Row
        <3>7. QED
            BY <3>2, <3>3, <3>4, <3>5, <3>6
    <2>3. QED
        BY <2>1, <2>2
<1>3. [row EXCEPT !.since = n] \in Row
    BY <1>1 DEF Row
<1>4. ASSUME NEW m \in Row, Write(r, m)
      PROVE  /\ rows'[r].status = m.status /\ rows'[r].text = m.text
             /\ rows'[r].cleanup = m.cleanup
             /\ rows'[r].version = rows[r].version + 1
             /\ \A q \in Runs \ {r} : rows'[q] = rows[q]
    BY <1>4 DEF Write, StoreTypeOK, Row
<1>5. CASE Write(r, row)
    BY <1>1, <1>2, <1>4, <1>5
<1>6. CASE Write(r, [row EXCEPT !.since = n])
    <2>1. /\ [row EXCEPT !.since = n].status = row.status
          /\ [row EXCEPT !.since = n].text = row.text
          /\ [row EXCEPT !.since = n].cleanup = row.cleanup
        BY <1>1 DEF Row
    <2>2. QED
        BY <1>2, <1>3, <1>4, <1>6, <2>1
<1>7. QED
    BY <1>5, <1>6

\* The run whose coroutine holds the gate, or asks for it first: its text is
\* chosen, its coroutine is at the gate, and it does not wait.
LEMMA AtTheGate ==
    ASSUME RouteInvariant, NEW r \in Runs,
           Requested(r) \/ (op.by = "auto" /\ op.run = r)
    PROVE  /\ ~Unchosen(r) /\ task[r].at = "gate" /\ pend[r] = "none"
           /\ r \notin waiting /\ "gate" \notin Working
           /\ Present(r) =>
                 \/ rows[r].status \in {"recording", "processing", "cancelled"}
                 \/ op.by = "auto" /\ op.run = r /\ op.at = "applied"
<1>1. RouteOf(r) /\ "gate" \notin Working
    BY DEF RouteInvariant, Working
<1>2. ~Unchosen(r)
    BY <1>1 DEF RouteOf, ChoosingIsSafe, Untouched, Delivering
<1>3. task[r].at = "gate" /\ pend[r] = "none"
    BY <1>1 DEF RouteOf, OneCoroutine
<1>4. r \notin waiting
    BY <1>1, <1>3 DEF RouteOf, WaitersRest, Underway
<1>5. QED
    BY <1>1, <1>2, <1>3, <1>4 DEF RouteOf, UnderwayRow, Underway

\* Automatic delivery begins, or finds its run cancelled.
LEMMA AutoStartKeepsRoute ==
    ASSUME TypeOK, RouteInvariant, AutoStart
    PROVE  \E r \in Runs : GateStep(r)
<1>1. PICK r \in Runs : r = Head(queue).run /\ Granted("auto")
    BY GrantedType DEF AutoStart, TypeOK, Callers
<1>2. /\ op = Idle /\ AskedOnce' /\ Requested(r)
      /\ \A q : Requested(q)' => Requested(q) /\ q # r
    BY <1>1, GrantedQueue
<1>3. /\ attempts' = attempts /\ pend' = pend /\ waiting' = waiting
    BY DEF AutoStart, gateRest
<1>4. /\ RouteOf(r) /\ ~Unchosen(r) /\ task[r].at = "gate"
      /\ pend[r] = "none" /\ r \notin waiting /\ "gate" \notin Working
      /\ Present(r) => rows[r].status \in {"recording", "processing", "cancelled"}
    BY <1>1, <1>2, AtTheGate DEF RouteInvariant, Idle
<1>5. CASE Cancelled(r)
    <2>1. Release /\ Phase(r, "closing")
        BY <1>1, <1>5 DEF AutoStart
    <2>2. /\ task'[r].at = "closing"
          /\ \A q \in Runs \ {r} : task'[q] = task[q]
        BY <1>1, <2>1 DEF Phase, TypeOK, ControlTypeOK, Task
    <2>3. /\ rows'[r] = rows[r] \/ (Present(r) /\ rows'[r].status = "cancelled")
          /\ rows'[r].text = rows[r].text
          /\ rows'[r].cleanup \in {rows[r].cleanup, "settled"}
          /\ \A q \in Runs \ {r} : rows'[q] = rows[q]
        <3>1. CASE rows' = rows
            BY <3>1
        <3>2. CASE rows' # rows
            <4>1. /\ Present(r) /\ rows[r].status \in Status
                  /\ Accepts(rows[r].status, "cancel")
                  /\ Write(r, Ended(Moved(r, "cancel")))
                BY <1>1, <1>5, <3>2, RowType DEF AutoStart, TypeOK
            <4>2. QED
                BY <1>1, <4>1, MovedRow, EventMoves DEF TypeOK
        <3>3. QED
            BY <3>1, <3>2
    <2>4. RowDelivered(r)
        BY <2>3 DEF RowDelivered, Status, Terminal
    <2>5. ~Underway(r)'
        BY <1>3, <1>4, <2>2 DEF Underway, Working
    <2>6. RouteOf(r)'
        BY <1>1, <1>2, <1>3, <1>4, <2>1, <2>2, <2>3, <2>4, <2>5, ReleasedRoute
    <2>7. QED
        BY <1>1, <1>2, <1>3, <2>1, <2>2, <2>3, <2>6, ReleasedOperation
        DEF GateStep, OpAbout, Aside, Release, Idle
<1>6. CASE ~Cancelled(r)
    <2>1. op' = Opened("verify") /\ rows' = rows /\ task' = task
        BY <1>1, <1>6 DEF AutoStart
    <2>2. /\ op'.at = "verify" /\ op'.by = "auto" /\ op'.run = r
          /\ op'.jumped = FALSE /\ op'.result = "none"
        BY <1>1, <2>1, OpenedFields
    <2>3. OperationRoute'
        BY <2>2 DEF OperationRoute
    <2>4. ~Unchosen(r)' /\ NoStrayAttempts(r)' /\ ChoosingIsSafe(r)'
        BY <1>1, <1>2, <1>3, <1>4, <2>1, ChosenStays DEF RowDelivered
    <2>5. OneCoroutine(r)' /\ PendingIsOriginal(r)' /\ UnderwayRow(r)'
        BY <1>2, <1>3, <1>4, <2>1, <2>2
        DEF RouteOf, OneCoroutine, PendingIsOriginal, UnderwayRow, Present
    <2>6. WaitersRest(r)' /\ WaitingRow(r)' /\ ExplicitRead(r)'
        BY <1>3, <1>4, <2>2 DEF WaitersRest, WaitingRow, ExplicitRead
    <2>7. QED
        BY <1>1, <1>2, <1>3, <2>1, <2>2, <2>3, <2>4, <2>5, <2>6
        DEF GateStep, OpAbout, Aside, RouteOf, Idle
<1>7. QED
    BY <1>5, <1>6

\* Its result is written to the row, or the gate is given back.
LEMMA AutoApplyKeepsRoute ==
    ASSUME TypeOK, RouteInvariant, AutoApply
    PROVE  \E r \in Runs : GateStep(r)
<1>1. PICK r \in Runs : /\ r = op.run /\ op \in Operation
                        /\ op.by = "auto" /\ op.at = "result"
    BY GateTypes DEF AutoApply
<1>2. /\ attempts' = attempts /\ pend' = pend /\ waiting' = waiting
      /\ queue' = queue /\ AskedOnce' /\ \A q : Requested(q)' <=> Requested(q)
    BY SameQueue DEF AutoApply, gateRest, RouteInvariant
<1>3. /\ RouteOf(r) /\ ~Unchosen(r) /\ task[r].at = "gate" /\ ~Requested(r)
      /\ pend[r] = "none" /\ r \notin waiting /\ "gate" \notin Working
      /\ Present(r) => rows[r].status \in {"recording", "processing", "cancelled"}
    BY <1>1, AtTheGate DEF RouteInvariant, RouteOf, OneCoroutine
<1>4. OperationRoute
    BY DEF RouteInvariant
<1>5. CASE Release
    <2>1. \E at \in {"failed", "closing"} : Phase(r, at)
        BY <1>1, <1>5 DEF AutoApply, Release, Idle
    <2>2. /\ task'[r].at \in {"failed", "closing"}
          /\ \A q \in Runs \ {r} : task'[q] = task[q]
        BY <1>1, <2>1 DEF Phase, TypeOK, ControlTypeOK, Task
    <2>3. rows' = rows
        BY <1>1, <1>5 DEF AutoApply, Release, Idle
    <2>4. RouteOf(r)'
        BY <1>1, <1>2, <1>3, <1>5, <2>2, <2>3, ReleasedRoute
        DEF RowDelivered, Present
    <2>5. QED
        BY <1>1, <1>2, <1>5, <2>2, <2>3, <2>4, ReleasedOperation
        DEF GateStep, OpAbout, Aside, Release
<1>6. CASE ~Release
    <2>1. /\ task' = task
          /\ \/ rows' = rows
                /\ op' = [op EXCEPT !.at = "applied", !.result = "none"]
             \/ /\ Visible(r) /\ Applies(rows[r].status, op.result)
                /\ \E n \in {rows[q].since + 1 : q \in Runs} :
                      \/ Write(r, Applied(r, op.result))
                         /\ op.result # "awaiting"
                      \/ Write(r, [Applied(r, op.result) EXCEPT !.since = n])
                /\ op' = [op EXCEPT !.at = "applied"]
        BY <1>1, <1>6 DEF AutoApply
    <2>2. /\ op'.at = "applied" /\ op'.by = "auto" /\ op'.run = r
          /\ op'.jumped = op.jumped
          /\ op'.result = "none" \/ op'.result = op.result
        BY <1>1, <2>1 DEF Operation
    <2>3. OperationRoute'
        BY <1>1, <1>4, <2>2 DEF OperationRoute
    <2>4. /\ RowDelivered(r) /\ rows'[r].text = rows[r].text
          /\ rows'[r].cleanup \in {rows[r].cleanup, "settled"}
          /\ \A q \in Runs \ {r} : rows'[q] = rows[q]
          /\ op'.result = "awaiting" => rows'[r].status = "awaiting_destination"
        <3>1. CASE rows' = rows /\
                   op' = [op EXCEPT !.at = "applied", !.result = "none"]
            BY <1>1, <3>1 DEF RowDelivered, Operation
        <3>2. CASE /\ Visible(r) /\ Applies(rows[r].status, op.result)
                   /\ \E n \in {rows[q].since + 1 : q \in Runs} :
                         \/ Write(r, Applied(r, op.result))
                            /\ op.result # "awaiting"
                         \/ Write(r, [Applied(r, op.result) EXCEPT !.since = n])
                   /\ op' = [op EXCEPT !.at = "applied"]
            <4>1. PICK n \in Nat :
                     \/ Write(r, Applied(r, op.result))
                     \/ Write(r, [Applied(r, op.result) EXCEPT !.since = n])
                <5>1. \A q \in Runs : rows[q].since + 1 \in Nat
                    BY DEF TypeOK, StoreTypeOK, Row
                <5>2. QED
                    BY <3>2, <5>1
            <4>2. op'.result = op.result /\ op.result \in Results /\ Present(r)
                BY <1>1, <3>2 DEF Operation, Visible
            <4>3. QED
                BY <1>1, <3>2, <4>1, <4>2, AppliedRow DEF RowDelivered, TypeOK
        <3>3. QED
            BY <2>1, <3>1, <3>2
    <2>5. ~Unchosen(r)' /\ NoStrayAttempts(r)' /\ ChoosingIsSafe(r)'
        BY <1>1, <1>2, <1>3, <2>1, <2>4, ChosenStays
    <2>6. PendingIsOriginal(r)'
        BY <1>1, <1>3, <2>4, <2>5, ChosenIsSettled
    <2>7. OneCoroutine(r)' /\ UnderwayRow(r)'
        BY <1>2, <1>3, <2>1, <2>2 DEF OneCoroutine, UnderwayRow
    <2>8. WaitersRest(r)' /\ WaitingRow(r)' /\ ExplicitRead(r)'
        BY <1>2, <1>3, <2>2, <2>4 DEF WaitersRest, WaitingRow, ExplicitRead, Waits
    <2>9. QED
        BY <1>1, <1>2, <2>1, <2>2, <2>3, <2>4, <2>5, <2>6, <2>7, <2>8
        DEF GateStep, OpAbout, Aside, RouteOf
<1>7. QED
    BY <1>5, <1>6

\* The coroutine is done with the gate, and the run may have to wait.
LEMMA AutoSettleKeepsRoute ==
    ASSUME TypeOK, RouteInvariant, AutoSettle
    PROVE  \E r \in Runs : GateStep(r)
<1>1. PICK r \in Runs : /\ r = op.run /\ op \in Operation
                        /\ op.by = "auto" /\ op.at = "applied"
    BY GateTypes DEF AutoSettle
<1>2. /\ attempts' = attempts /\ pend' = pend /\ rows' = rows /\ Release
      /\ queue' = queue /\ AskedOnce' /\ \A q : Requested(q)' <=> Requested(q)
    BY SameQueue DEF AutoSettle, gateRest, RouteInvariant
<1>3. /\ RouteOf(r) /\ ~Unchosen(r) /\ task[r].at = "gate" /\ ~Requested(r)
      /\ pend[r] = "none" /\ r \notin waiting
    BY <1>1, AtTheGate DEF RouteInvariant, RouteOf, OneCoroutine
<1>4. /\ task'[r].at \in {"closing", "done"}
      /\ \A q \in Runs \ {r} : task'[q] = task[q]
    BY <1>1 DEF AutoSettle, Phase, TypeOK, ControlTypeOK, Task
<1>5. /\ \A q \in Runs \ {r} : q \in waiting' => q \in waiting
      /\ r \in waiting' => op.result = "awaiting"
    BY <1>1, <1>3 DEF AutoSettle
<1>6. ~Underway(r)'
    BY <1>2, <1>3, <1>4 DEF Underway, Working
<1>7. r \in waiting' => rows'[r].status \in Waits
    BY <1>1, <1>2, <1>3, <1>5 DEF RouteOf, WaitingRow
<1>8. RouteOf(r)'
    BY <1>1, <1>2, <1>3, <1>4, <1>6, <1>7, ReleasedRoute DEF RowDelivered
<1>9. QED
    BY <1>1, <1>2, <1>4, <1>5, <1>8, ReleasedOperation
    DEF GateStep, OpAbout, Aside, Release

\* A run that waits, or is delivered without its coroutine: its text is chosen
\* and no coroutine of it is under way.
LEMMA AtRest ==
    ASSUME RouteInvariant, NEW r \in Runs,
           \/ r \in waiting
           \/ op.by \in {"tick", "explicit"} /\ op.run = r
    PROVE  /\ RouteOf(r) /\ ~Unchosen(r) /\ ~Underway(r) /\ ~Requested(r)
           /\ pend[r] = "none"
BY DEF RouteInvariant, RouteOf, ChoosingIsSafe, Untouched, Delivering,
       WaitersRest, OneCoroutine, Underway

\* A step that leaves every row, attempt and coroutine, and at most takes
\* entries away, keeps the invariant of every run.
LEMMA QuietKeepsRoute ==
    ASSUME TypeOK, RouteInvariant, OperationRoute',
           UNCHANGED <<rows, attempts, task, pend>>, waiting' \subseteq waiting,
           \A q : Requested(q)' => Requested(q),
           op' = op \/ \A q : ~Delivering(q) /\ ~Delivering(q)'
    PROVE  \A q \in Runs : RouteOf(q)'
BY LeavingKeepsRoute
DEF RouteInvariant, RestKept, OpKept, RowEnds, TaskLeaves

\* Every run keeps its way.
AllRoutes == OperationRoute' /\ AskedOnce' /\ \A r \in Runs : RouteOf(r)'

\* An operation about one run keeps the way of the others too.
LEMMA GateStepIsSafe ==
    ASSUME RouteInvariant, NEW r \in Runs, GateStep(r)
    PROVE  AllRoutes
BY RouteElsewhere DEF GateStep, AllRoutes, RouteInvariant

\* The tick asks for the gate.
LEMMA TickDueKeepsRoute ==
    ASSUME TypeOK, RouteInvariant, TickDue
    PROVE  AllRoutes
<1>1. /\ UNCHANGED <<rows, attempts, task, pend>> /\ waiting' = waiting
      /\ op' = op /\ Enqueue("tick", NoRun, 0, FALSE)
    BY DEF TickDue, store, protocol
<1>2. AskedOnce' /\ \A q : Requested(q)' => Requested(q)
    <2>1. queue \in Seq(Request) /\ AskedOnce /\ "tick" # "auto"
        BY DEF TypeOK, ControlTypeOK, RouteInvariant
    <2>2. QED
        BY <1>1, <2>1, Enqueued
<1>3. OperationRoute'
    BY <1>1 DEF RouteInvariant, OperationRoute
<1>4. QED
    BY <1>1, <1>2, <1>3, QuietKeepsRoute DEF AllRoutes

\* The tick chooses the run that waits longest.
LEMMA TickStartKeepsRoute ==
    ASSUME TypeOK, RouteInvariant, TickStart
    PROVE  AllRoutes
<1>1. /\ op = Idle /\ AskedOnce' /\ \A q : Requested(q)' => Requested(q)
      /\ Granted("tick")
    BY GrantedQueue DEF TickStart
<1>2. UNCHANGED <<rows, attempts, task, pend>> /\ waiting' \subseteq waiting
    BY DEF TickStart, tickRest
<1>3. CASE Release
    <2>1. op' = op /\ OperationRoute'
        BY <1>1, <1>3, ReleasedOperation DEF Release
    <2>2. QED
        BY <1>1, <1>2, <2>1, QuietKeepsRoute DEF AllRoutes
<1>4. CASE ~Release
    <2>1. PICK r \in waiting :
             /\ Visible(r) /\ rows[r].status = "awaiting_destination"
             /\ op' \in {[Opened("look") EXCEPT !.run = r],
                         [Opened("look") EXCEPT !.run = r, !.at = "result",
                                                !.result = "cancelled"],
                         [Opened("look") EXCEPT !.run = r, !.at = "result",
                                                !.result = "held"]}
             /\ waiting' = waiting
        BY <1>4 DEF TickStart, Opened, Idle
    <2>2. r \in Runs
        BY <2>1 DEF TypeOK, ControlTypeOK
    <2>3. /\ op'.by = "tick" /\ op'.run = r
          /\ op'.at \in {"look", "result"}
          /\ op'.at = "look" => op'.result = "none"
        BY <1>1, <2>1 DEF Opened, Idle, Granted
    <2>4. OperationRoute'
        BY <2>3 DEF OperationRoute
    <2>5. /\ RouteOf(r) /\ ~Unchosen(r) /\ ~Underway(r) /\ ~Requested(r)
        BY <2>1, <2>2, AtRest
    <2>6. ~Unchosen(r)' /\ NoStrayAttempts(r)' /\ ChoosingIsSafe(r)'
        BY <1>1, <1>2, <2>2, <2>5, ChosenStays DEF RowDelivered
    <2>7. /\ OneCoroutine(r)' /\ PendingIsOriginal(r)' /\ UnderwayRow(r)'
        BY <1>1, <1>2, <2>3, <2>5
        DEF RouteOf, OneCoroutine, PendingIsOriginal, UnderwayRow, Present,
            Underway
    <2>8. WaitersRest(r)' /\ WaitingRow(r)' /\ ExplicitRead(r)'
        BY <1>2, <2>1, <2>3, <2>5
        DEF WaitersRest, WaitingRow, ExplicitRead, Underway, Waits
    <2>9. GateStep(r)
        BY <1>1, <1>2, <2>1, <2>3, <2>4, <2>6, <2>7, <2>8
        DEF GateStep, OpAbout, Aside, RouteOf, Idle
    <2>10. QED
        BY <2>2, <2>9, GateStepIsSafe
<1>5. QED
    BY <1>3, <1>4

\* The tick applies the result of its delivery.
LEMMA TickApplyKeepsRoute ==
    ASSUME TypeOK, RouteInvariant, TickApply
    PROVE  AllRoutes
<1>1. PICK r \in Runs : /\ r = op.run /\ op \in Operation
                        /\ op.by = "tick" /\ op.at = "result"
    BY GateTypes DEF TickApply
<1>2. /\ attempts' = attempts /\ pend' = pend /\ task' = task /\ Release
      /\ queue' = queue /\ AskedOnce' /\ \A q : Requested(q)' <=> Requested(q)
      /\ waiting' \in {waiting, waiting \ {r}}
    BY <1>1, SameQueue DEF TickApply, tickRest, RouteInvariant
<1>3. RouteOf(r) /\ ~Unchosen(r) /\ ~Underway(r)
    BY <1>1, AtRest
<1>4. rows[r].status \in Waits
    BY <1>1, <1>3 DEF RouteOf, WaitingRow
<1>5. /\ RowDelivered(r) /\ rows'[r].cleanup \in {rows[r].cleanup, "settled"}
      /\ \A q \in Runs \ {r} : rows'[q] = rows[q]
      /\ r \in waiting' => rows'[r] = rows[r]
    <2>1. CASE rows' = rows
        BY <2>1 DEF RowDelivered
    <2>2. CASE rows' # rows
        <3>1. /\ Visible(r) /\ Applies(rows[r].status, op.result)
              /\ Write(r, Applied(r, op.result)) /\ r \notin waiting'
            BY <1>1, <2>2 DEF TickApply
        <3>2. Present(r) /\ op.result \in Results
            BY <1>1, <3>1 DEF Visible, Operation
        <3>3. QED
            BY <1>1, <3>1, <3>2, AppliedRow DEF TypeOK, RowDelivered
    <2>3. QED
        BY <2>1, <2>2
<1>6. ~Underway(r)'
    BY <1>2, <1>3 DEF Underway
<1>7. RouteOf(r)'
    BY <1>1, <1>2, <1>3, <1>4, <1>5, <1>6, ReleasedRoute
<1>8. GateStep(r)
    BY <1>1, <1>2, <1>5, <1>7, ReleasedOperation
    DEF GateStep, OpAbout, Aside, Release
<1>9. QED
    BY <1>1, <1>8, GateStepIsSafe

\* An explicit insertion begins if the row still offers it.
LEMMA ExplicitStartKeepsRoute ==
    ASSUME TypeOK, RouteInvariant, ExplicitStart
    PROVE  AllRoutes
<1>1. PICK r \in Runs : r = Head(queue).run /\ Granted("explicit")
    BY GrantedType DEF ExplicitStart, TypeOK, Callers
<1>2. op = Idle /\ AskedOnce' /\ \A q : Requested(q)' => Requested(q)
    BY <1>1, GrantedQueue
<1>3. UNCHANGED <<rows, attempts, task, pend>> /\ waiting' \subseteq waiting
    BY DEF ExplicitStart, explicitRest, gateRest
<1>4. CASE Release
    <2>1. op' = op /\ OperationRoute'
        BY <1>2, <1>4, ReleasedOperation DEF Release
    <2>2. QED
        BY <1>2, <1>3, <2>1, QuietKeepsRoute DEF AllRoutes
<1>5. CASE ~Release
    <2> DEFINE o == [Opened("verify") EXCEPT !.entry = r \in waiting]
    <2>1. /\ MayInsert(r, Head(queue).version, Head(queue).ack)
          /\ waiting' = waiting \ {r} /\ rows[r].text = "selected"
          /\ op' = Begin(o, r \in aborted)
        BY <1>1, <1>5 DEF ExplicitStart
    <2>2. /\ o.by = "explicit" /\ o.run = r /\ o.at = "verify"
          /\ o.jumped = FALSE /\ o.entry = (r \in waiting)
          /\ o.version = Head(queue).version /\ o.result = "none"
        BY <1>1 DEF Opened, Idle, Granted
    <2>3. op' = o \/ op' = [o EXCEPT !.at = "result", !.result = "cancelled"]
        BY <2>1, <2>2 DEF Begin, Opened, Idle
    <2>4. /\ op'.by = "explicit" /\ op'.run = r /\ op'.jumped = FALSE
          /\ op'.entry = (r \in waiting) /\ op'.version = Head(queue).version
          /\ op'.at \in {"verify", "result"}
          /\ op'.at = "verify" => op'.result = "none"
        <3>1. Opened("verify") \in Operation
            BY <1>1, GrantedType DEF TypeOK, Callers, Phases
        <3>2. o \in Operation
            <4>1. ASSUME NEW entry \in BOOLEAN
                  PROVE  [Opened("verify") EXCEPT !.entry = entry] \in Operation
                BY <3>1 DEF Operation
            <4>2. (r \in waiting) \in BOOLEAN
                OBVIOUS
            <4>3. QED
                BY <4>1, <4>2
        <3>3. /\ op'.by = o.by /\ op'.run = o.run /\ op'.jumped = o.jumped
              /\ op'.entry = o.entry /\ op'.version = o.version
              /\ \/ op'.at = o.at /\ op'.result = o.result
                 \/ op'.at = "result"
            BY <2>3, <3>2 DEF Operation
        <3>4. QED
            BY <2>2, <3>3
    <2>5. OperationRoute'
        BY <2>4 DEF OperationRoute
    <2>6. /\ Present(r) /\ RouteOf(r)
          /\ "insert" \in RecoveryActions[rows[r].status]
          /\ rows[r].version = Head(queue).version
          /\ rows[r].status \in
                {"awaiting_destination", "held", "error", "uncertain"}
        <3>1. Present(r) /\ "insert" \in RecoveryActions[rows[r].status]
            BY <2>1 DEF MayInsert, Visible
        <3>2. rows[r].status \in {"awaiting_destination", "held", "error",
                                  "uncertain"}
            BY <3>1
            DEF Present, Status, Dispatchable, Terminal, RecoveryActions
        <3>3. QED
            BY <2>1, <3>1, <3>2 DEF MayInsert, RouteInvariant
    <2>7. ~Underway(r) /\ ~Unchosen(r)
        BY <1>2, <2>1, <2>6 DEF RouteOf, UnderwayRow, Underway, Unchosen, Idle
    <2>8. ~Unchosen(r)' /\ NoStrayAttempts(r)' /\ ChoosingIsSafe(r)'
        BY <1>2, <1>3, <2>6, <2>7, ChosenStays DEF RowDelivered
    <2>9. /\ OneCoroutine(r)' /\ PendingIsOriginal(r)' /\ UnderwayRow(r)'
        BY <1>2, <1>3, <2>4, <2>6, <2>7
        DEF RouteOf, OneCoroutine, PendingIsOriginal, UnderwayRow, Present,
            Underway
    <2>10. WaitersRest(r)' /\ WaitingRow(r)'
        BY <1>3, <2>1, <2>4, <2>6, <2>7
        DEF RouteOf, WaitersRest, WaitingRow, Underway
    <2>11. ExplicitRead(r)'
        <3>1. rows[r].version \in Nat
            BY DEF TypeOK, StoreTypeOK, Row
        <3>2. QED
            BY <1>3, <2>4, <2>6, <3>1 DEF ExplicitRead
    <2>12. GateStep(r)
        BY <1>2, <1>3, <2>4, <2>5, <2>8, <2>9, <2>10, <2>11
        DEF GateStep, OpAbout, Aside, RouteOf, Idle
    <2>13. QED
        BY <2>12, GateStepIsSafe
<1>6. QED
    BY <1>4, <1>5

\* Its result is written, or the waiting entry comes back.
LEMMA ExplicitEndKeepsRoute ==
    ASSUME TypeOK, RouteInvariant, ExplicitApply \/ ExplicitReturns
    PROVE  AllRoutes
<1>1. PICK r \in Runs : /\ r = op.run /\ op \in Operation
                        /\ op.by = "explicit" /\ op.at = "result"
    BY GateTypes DEF ExplicitApply, ExplicitReturns
<1>2. /\ attempts' = attempts /\ pend' = pend /\ task' = task /\ Release
      /\ queue' = queue /\ AskedOnce' /\ \A q : Requested(q)' <=> Requested(q)
    BY SameQueue
    DEF ExplicitApply, ExplicitReturns, explicitRest, gateRest, RouteInvariant
<1>3. RouteOf(r) /\ ~Unchosen(r) /\ ~Underway(r) /\ r \notin waiting
    BY <1>1, AtRest DEF RouteOf, WaitingRow
<1>4. /\ \A q \in Runs \ {r} : q \in waiting' => q \in waiting
      /\ r \in waiting' => op.entry /\ ExplicitReturns
    BY <1>1, <1>3 DEF ExplicitApply, ExplicitReturns
<1>5. /\ RowDelivered(r) /\ rows'[r].cleanup \in {rows[r].cleanup, "settled"}
      /\ \A q \in Runs \ {r} : rows'[q] = rows[q]
      /\ r \in waiting' => rows'[r] = rows[r]
    <2>1. CASE rows' = rows
        BY <2>1 DEF RowDelivered
    <2>2. CASE rows' # rows
        <3>1. /\ Visible(r) /\ op.result \in DispatchResults
              /\ Write(r, Applied(r, op.result)) /\ r \notin waiting'
            BY <1>1, <1>3, <2>2 DEF ExplicitApply, ExplicitReturns
        <3>2. Present(r) /\ op.result \in Results
            BY <1>1, <3>1 DEF Visible, Operation
        <3>3. QED
            BY <1>1, <3>1, <3>2, AppliedRow DEF TypeOK, RowDelivered
    <2>3. QED
        BY <2>1, <2>2
<1>6. ~Underway(r)'
    BY <1>2, <1>3 DEF Underway
<1>7. r \in waiting' => rows'[r].status \in Waits
    BY <1>1, <1>3, <1>4, <1>5 DEF RouteOf, WaitingRow
<1>8. RouteOf(r)'
    BY <1>1, <1>2, <1>3, <1>5, <1>6, <1>7, ReleasedRoute
<1>9. GateStep(r)
    BY <1>1, <1>2, <1>4, <1>5, <1>8, ReleasedOperation
    DEF GateStep, OpAbout, Aside, Release
<1>10. QED
    BY <1>9, GateStepIsSafe

\* A cancellation delivers nothing.
LEMMA CancelKeepsRoute ==
    ASSUME TypeOK, CancelRead, RouteInvariant, CancelStart \/ CancelWrite
    PROVE  AllRoutes
<1>1. UNCHANGED <<attempts, task, pend>> /\ waiting' = waiting
    BY DEF CancelStart, CancelWrite, cancelRest, gateRest
<1>2. CASE CancelStart
    <2>1. /\ op = Idle /\ AskedOnce' /\ \A q : Requested(q)' => Requested(q)
          /\ Granted("cancel") /\ rows' = rows
        BY <1>2, GrantedQueue DEF CancelStart
    <2>2. \/ op' = Idle
          \/ op' = [Opened("cancel_write") EXCEPT
                       !.version = rows[Head(queue).run].version]
        BY <1>2 DEF CancelStart, Release
    <2>3. \/ op' = Idle
          \/ /\ op'.by = "cancel" /\ op'.at = "cancel_write"
             /\ op'.jumped = FALSE /\ op'.result = "none"
        BY <2>1, <2>2 DEF Opened, Idle, Granted
    <2>4. /\ OperationRoute'
          /\ \A q : ~Delivering(q) /\ ~Delivering(q)'
        BY <2>1, <2>3 DEF OperationRoute, Delivering, Idle
    <2>5. QED
        BY <1>1, <2>1, <2>4, QuietKeepsRoute DEF AllRoutes
<1>3. CASE CancelWrite
    <2>1. PICK r \in Runs : r = op.run /\ op.at = "cancel_write"
        BY <1>3, GateTypes DEF CancelWrite
    <2>2. op.by = "cancel" /\ Release
        BY <1>3, <2>1 DEF RouteInvariant, OperationRoute, CancelWrite
    <2>3. AskedOnce' /\ \A q : Requested(q)' <=> Requested(q)
        BY <1>3, SameQueue DEF CancelWrite, RouteInvariant
    <2>4. RowEnds(r) /\ \A q \in Runs \ {r} : rows'[q] = rows[q]
        <3>1. CASE rows' = rows
            BY <3>1 DEF RowEnds
        <3>2. CASE rows' # rows
            <4>1. /\ Present(r) /\ rows[r].status \in Status
                  /\ Accepts(rows[r].status, "cancel")
                  /\ Write(r, Ended(Moved(r, "cancel")))
                BY <1>3, <2>1, <3>2, RowType DEF CancelWrite, CancelRead, TypeOK
            <4>2. QED
                BY <4>1, MovedRow, EventMoves DEF TypeOK, RowEnds
        <3>3. QED
            BY <3>1, <3>2
    <2>5. OpKept(r) /\ OperationRoute'
        BY <2>2, ReleasedOperation DEF OpKept, Delivering
    <2>6. RouteOf(r)'
        BY <1>1, <2>3, <2>4, <2>5, LeavingKeepsRoute
        DEF RestKept, TaskLeaves, RouteInvariant
    <2>7. GateStep(r)
        BY <1>1, <2>1, <2>2, <2>3, <2>4, <2>5, <2>6
        DEF GateStep, OpAbout, Aside, Release
    <2>8. QED
        BY <2>7, GateStepIsSafe
<1>4. QED
    BY <1>2, <1>3

-----------------------------------------------------------------------------
(* The steps of the insertion protocol. *)

\* What a step of the protocol does to its operation.
OpSteps ==
    /\ op \in Operation /\ op.run \in Runs
    /\ op'.by = op.by /\ op'.run = op.run /\ op'.version = op.version
    /\ op'.ack = op.ack /\ op'.entry = op.entry
    /\ op.at \notin {"idle", "result", "applied", "cancel_write"}
    /\ op'.at \notin {"idle", "applied", "cancel_write"}
    /\ OperationRoute'

LEMMA ProtocolOp ==
    ASSUME ProtocolTypeOK, OperationRoute, NEW cancelled, ProtocolStep(cancelled)
    PROVE  OpSteps
<1>1. op.at \in {"look", "verify", "claim", "recheck", "reverify", "dispatch",
                 "confirm", "resolve", "restore"}
    BY DEF ProtocolStep, Look, VerifyFirst, ClaimAttempt, Recheck, Reverify,
           Dispatch, Confirm, Resolve, Restore
<1>2. op \in Operation /\ op.run \in Runs
    BY <1>1, BusyType
<1> DEFINE Same(o) == /\ o.by = op.by /\ o.run = op.run
                      /\ o.version = op.version /\ o.ack = op.ack
                      /\ o.entry = op.entry
           Keeps == /\ Same(op')
                    /\ op'.at \notin {"idle", "applied", "cancel_write"}
                    /\ OperationRoute'
<1>3. /\ op.by \in {"auto", "tick", "explicit"}
      /\ op.by # "tick" => op.jumped = FALSE /\ op.at \notin {"look", "restore"}
      /\ op.jumped \in BOOLEAN
    BY <1>1, <1>2 DEF OperationRoute, Operation, Callers
<1>4. ASSUME NEW result, Return(result)
      PROVE  Keeps
    <2>1. /\ Same(op') /\ op'.jumped = op.jumped
          /\ op'.at = IF op.jumped THEN "restore" ELSE "result"
        BY <1>2, <1>4 DEF Return, Operation
    <2>2. QED
        BY <1>3, <2>1 DEF OperationRoute
<1>5. ASSUME NEW known \in {"failed", "cancelled", "inserted", "uncertain"},
             ResolveAs(known, known)
      PROVE  Keeps
    <2>1. /\ Same(op') /\ op'.jumped = op.jumped /\ op'.at = "resolve"
          /\ op'.outcome = known /\ op'.result = known
        BY <1>2, <1>5 DEF ResolveAs, Operation
    <2>2. QED
        BY <1>3, <2>1 DEF OperationRoute
<1>6. ASSUME NEW at \in {"claim", "reverify", "dispatch", "confirm"},
             op' = [op EXCEPT !.at = at], op.result = "none"
      PROVE  Keeps
    <2>1. /\ Same(op') /\ op'.jumped = op.jumped /\ op'.at = at
          /\ op'.result = "none"
        BY <1>2, <1>6 DEF Operation
    <2>2. QED
        BY <1>3, <2>1 DEF OperationRoute
<1>7. op.at \notin {"resolve", "restore"} => op.result = "none"
    BY <1>1 DEF OperationRoute
<1>8. CASE Look(cancelled)
    <2>1. op.by = "tick" /\ op.at = "look" /\ op.result = "none"
        BY <1>3, <1>7, <1>8 DEF Look
    <2>2. ASSUME NEW o \in {op, [op EXCEPT !.jumped = TRUE]},
                 op' = Begin(o, cancelled)
          PROVE  Keeps
        <3>1. Same(o) /\ o \in Operation /\ o.result = "none"
            BY <1>2, <2>1, <2>2 DEF Operation
        <3>2. /\ Same(op') /\ op'.at \in {"restore", "result", "verify"}
              /\ op'.at = "verify" => op'.result = "none"
            BY <2>2, <3>1 DEF Begin, Operation
        <3>3. QED
            BY <2>1, <3>2 DEF OperationRoute
    <2>3. ASSUME NEW result,
                 op' = [op EXCEPT !.at = "restore", !.jumped = TRUE,
                                  !.result = result]
          PROVE  Keeps
        <3>1. Same(op') /\ op'.at = "restore"
            BY <1>2, <2>3 DEF Operation
        <3>2. QED
            BY <2>1, <3>1 DEF OperationRoute
    <2>4. QED
        BY <1>1, <1>2, <1>4, <1>8, <2>2, <2>3 DEF Look, OpSteps
<1>9. CASE VerifyFirst
    BY <1>1, <1>2, <1>4, <1>6, <1>7, <1>9 DEF VerifyFirst, OpSteps
<1>10. CASE ClaimAttempt(cancelled)
    <2>1. op.at = "claim" /\ op.result = "none"
        BY <1>7, <1>10 DEF ClaimAttempt
    <2>2. ASSUME NEW a,
                 \/ op' = [op EXCEPT !.attempt = a, !.at = "recheck"]
                 \/ op' = [op EXCEPT !.attempt = a, !.at = "resolve",
                                     !.outcome = "cancelled",
                                     !.result = "cancelled"]
          PROVE  Keeps
        <3>1. /\ Same(op') /\ op'.jumped = op.jumped
              /\ \/ op'.at = "recheck" /\ op'.result = "none"
                 \/ /\ op'.at = "resolve" /\ op'.outcome = "cancelled"
                    /\ op'.result = "cancelled"
            BY <1>2, <2>1, <2>2 DEF Operation
        <3>2. QED
            BY <1>3, <3>1 DEF OperationRoute
    <2>3. \/ \E result : Return(result)
          \/ \E a : \/ op' = [op EXCEPT !.attempt = a, !.at = "recheck"]
                    \/ op' = [op EXCEPT !.attempt = a, !.at = "resolve",
                                        !.outcome = "cancelled",
                                        !.result = "cancelled"]
        <3>1. /\ [[op EXCEPT !.attempt = NextAttempt(op.run)]
                     EXCEPT !.at = "recheck"] =
                 [op EXCEPT !.attempt = NextAttempt(op.run), !.at = "recheck"]
              /\ [[op EXCEPT !.attempt = NextAttempt(op.run)]
                     EXCEPT !.at = "resolve", !.outcome = "cancelled",
                            !.result = "cancelled"] =
                 [op EXCEPT !.attempt = NextAttempt(op.run), !.at = "resolve",
                            !.outcome = "cancelled", !.result = "cancelled"]
            OBVIOUS
        <3>2. QED
            BY <1>10, <3>1 DEF ClaimAttempt
    <2>4. QED
        BY <1>1, <1>2, <1>4, <2>2, <2>3 DEF OpSteps
<1>11. CASE Recheck \/ Reverify(cancelled) \/ Dispatch \/ Confirm
    <2>1. \/ \E result : Return(result)
          \/ \E known \in {"failed", "cancelled", "inserted", "uncertain"} :
                ResolveAs(known, known)
          \/ \E at \in {"reverify", "dispatch", "confirm"} :
                op' = [op EXCEPT !.at = at] /\ op.result = "none"
        BY <1>7, <1>11 DEF Recheck, Reverify, Dispatch, Confirm
    <2>2. QED
        BY <1>1, <1>2, <1>4, <1>5, <1>6, <2>1 DEF OpSteps
<1>12. CASE Resolve
    BY <1>1, <1>2, <1>4, <1>12 DEF Resolve, OpSteps
<1>13. CASE Restore
    <2>1. Same(op') /\ op'.at = "result" /\ op'.jumped = FALSE
        BY <1>2, <1>13 DEF Restore, Operation
    <2>2. QED
        BY <1>1, <1>2, <1>3, <2>1 DEF OperationRoute, OpSteps
<1>14. QED
    BY <1>8, <1>9, <1>10, <1>11, <1>12, <1>13 DEF ProtocolStep

\* What it does to the tables: it may delete the row, and it adds or settles
\* an attempt only where there is a row or an attempt.
LEMMA ProtocolStore ==
    ASSUME StoreTypeOK, op.run \in Runs, NEW cancelled, ProtocolStep(cancelled)
    PROVE  /\ rows' = rows \/ DeleteRow(op.run)
           /\ \A q \in Runs \ {op.run} : /\ rows'[q] = rows[q]
                                         /\ attempts'[q] = attempts[q]
           /\ DeleteRow(op.run) => /\ rows'[op.run].status = "deleted"
                                   /\ attempts'[op.run] = << >>
           /\ \/ attempts'[op.run] = attempts[op.run]
              \/ DeleteRow(op.run)
              \/ Present(op.run) \/ attempts[op.run] # << >>
<1>1. \/ UNCHANGED <<rows, attempts>>
      \/ DeleteRow(op.run)
      \/ /\ rows' = rows
         /\ \/ AddAttempt(op.run, Kind) /\ Visible(op.run)
            \/ SetOutcome(op.run, op.attempt, "cancelled") /\ Visible(op.run)
            \/ /\ SetOutcome(op.run, op.attempt, op.outcome)
               /\ Resolvable(op.run, op.attempt)
    BY DEF ProtocolStep, Look, VerifyFirst, ClaimAttempt, Recheck, Reverify,
           Dispatch, Confirm, Resolve, Restore, RetentionDelete, storeRest
<1>2. Resolvable(op.run, op.attempt) => attempts[op.run] # << >>
    BY DEF Resolvable
<1>3. Visible(op.run) => Present(op.run)
    BY DEF Visible
<1>4. /\ \A q \in Runs \ {op.run} : /\ rows'[q] = rows[q]
                                    /\ attempts'[q] = attempts[q]
    BY <1>1 DEF DeleteRow, AddAttempt, SetOutcome, StoreTypeOK
<1>5. DeleteRow(op.run) => /\ rows'[op.run].status = "deleted"
                           /\ attempts'[op.run] = << >>
    BY DEF DeleteRow, Tombstone, StoreTypeOK
<1>6. QED
    BY <1>1, <1>2, <1>3, <1>4, <1>5

\* A delivery takes its run no step off its way.
LEMMA DeliverKeepsRoute ==
    ASSUME TypeOK, RouteInvariant, Deliver
    PROVE  AllRoutes
<1>1. ProtocolStep(OpCancelled)
    BY DEF Deliver
<1>2. OpSteps
    BY <1>1, ProtocolOp DEF TypeOK, RouteInvariant
<1>3. PICK r \in Runs : r = op.run
    BY <1>2 DEF OpSteps
<1>4. op.by \in {"auto", "tick", "explicit"}
    BY <1>2 DEF OpSteps, RouteInvariant, OperationRoute, Operation, Callers
<1>5. /\ task' = task /\ pend' = pend /\ waiting' = waiting
      /\ queue' = queue /\ AskedOnce' /\ \A q : Requested(q)' <=> Requested(q)
    BY SameQueue DEF Deliver, control, RouteInvariant
<1>6. /\ rows' = rows \/ (rows'[r].status = "deleted" /\ attempts'[r] = << >>)
      /\ attempts'[r] = attempts[r] \/ attempts'[r] = << >> \/ Present(r)
         \/ attempts[r] # << >>
      /\ \A q \in Runs \ {r} : rows'[q] = rows[q] /\ attempts'[q] = attempts[q]
    BY <1>1, <1>3, ProtocolStore DEF TypeOK
<1>7. RouteOf(r) /\ ~Unchosen(r) /\ ~Requested(r)
    BY <1>3, <1>4
    DEF RouteInvariant, RouteOf, ChoosingIsSafe, Untouched, Delivering,
        OneCoroutine, WaitersRest, Underway
<1>8. rows' = rows \/ (~Present(r)' /\ rows'[r].status = "deleted")
    BY <1>6 DEF Present, Status, Dispatchable, Terminal
<1>9. ~Unchosen(r)'
    BY <1>5, <1>7, <1>8 DEF Unchosen, Present
<1>10. NoStrayAttempts(r)'
    BY <1>5, <1>6, <1>7, <1>8 DEF RouteOf, NoStrayAttempts, Present
<1>11. OneCoroutine(r)' /\ ChoosingIsSafe(r)' /\ WaitersRest(r)'
    BY <1>2, <1>3, <1>5, <1>7, <1>8, <1>9
    DEF OpSteps, RouteOf, OneCoroutine, ChoosingIsSafe, WaitersRest, Underway
<1>12. UnderwayRow(r)' /\ PendingIsOriginal(r)'
    BY <1>2, <1>3, <1>5, <1>7, <1>8
    DEF OpSteps, RouteOf, UnderwayRow, PendingIsOriginal, Present, Underway
<1>13. WaitingRow(r)' /\ ExplicitRead(r)'
    BY <1>2, <1>3, <1>5, <1>7, <1>8
    DEF OpSteps, RouteOf, WaitingRow, ExplicitRead, Present, Waits
<1>14. GateStep(r)
    BY <1>2, <1>3, <1>5, <1>6, <1>9, <1>10, <1>11, <1>12, <1>13
    DEF GateStep, OpAbout, OpSteps, Aside, RouteOf
<1>15. QED
    BY <1>14, GateStepIsSafe

-----------------------------------------------------------------------------
(* A crash, and the startup after it. *)

\* Where nothing runs only the tables count: the choice of a text is as
\* untouched as it was.
LEMMA StillKeepsRoute ==
    ASSUME op' = Idle, queue' = << >>, waiting' = {},
           NEW r \in Runs, RouteOf(r), task'[r].at = "none", pend'[r] = "none",
           \/ /\ rows'[r].status = rows[r].status
              /\ rows'[r].text = rows[r].text
              /\ rows'[r].cleanup = rows[r].cleanup
           \/ rows'[r].status = "deleted"
           \/ /\ Present(r) /\ rows'[r].status = "error"
              /\ rows'[r].text = rows[r].text
              /\ rows'[r].cleanup = rows[r].cleanup
           \/ /\ Present(r) /\ rows[r].text # "selected"
              /\ rows'[r].cleanup = "settled",
           attempts[r] = << >> \/ rows'[r].status = "deleted"
              => attempts'[r] = << >>
    PROVE  RouteOf(r)'
<1>1. op'.run # r /\ op'.by = "none" /\ ~Requested(r)' /\ ~Delivering(r)'
    BY RunsAssumption DEF Idle, Requested, Delivering
<1>2. Untouched(r)' <=> attempts'[r] = << >>
    BY <1>1 DEF Untouched
<1>3. "none" \notin Working \cup {"gate", "failed"} /\ "none" # "start"
    BY DEF Working
<1>4. Present(r)' => Present(r)
    BY DEF Present, Status, Dispatchable, Terminal
<1>5. Unchosen(r)' /\ rows'[r].status # "deleted" => attempts[r] = << >>
    BY <1>3, <1>4
    DEF Unchosen, RouteOf, ChoosingIsSafe, NoStrayAttempts, Untouched, Present,
        Status, Dispatchable, Terminal
<1>6. NoStrayAttempts(r)' /\ ChoosingIsSafe(r)'
    <2>1. ~Present(r) \/ rows[r].text # "selected" => attempts[r] = << >>
        BY DEF RouteOf, NoStrayAttempts, ChoosingIsSafe, Unchosen, Untouched
    <2>2. ~Present(r)' => attempts'[r] = << >>
        BY <2>1 DEF Present, Status, Dispatchable, Terminal
    <2>3. Unchosen(r)' => attempts'[r] = << >>
        BY <1>5
    <2>4. QED
        BY <1>1, <1>2, <2>2, <2>3 DEF NoStrayAttempts, ChoosingIsSafe
<1>7. OneCoroutine(r)' /\ UnderwayRow(r)' /\ WaitersRest(r)'
    BY <1>1, <1>3 DEF OneCoroutine, UnderwayRow, WaitersRest, Underway
<1>8. PendingIsOriginal(r)'
    BY <1>3, <1>4 DEF RouteOf, PendingIsOriginal, Present, Status,
                      Dispatchable, Terminal
<1>9. WaitingRow(r)' /\ ExplicitRead(r)'
    BY <1>1 DEF WaitingRow, ExplicitRead
<1>10. QED
    BY <1>6, <1>7, <1>8, <1>9 DEF RouteOf

\* A free gate with an empty queue is on everybody's way.
LEMMA StillGate ==
    ASSUME op' = Idle, queue' = << >>
    PROVE  OperationRoute' /\ AskedOnce'
BY DEF OperationRoute, AskedOnce, Idle

\* A crash loses everything but the tables.
LEMMA CrashKeepsRoute ==
    ASSUME RouteInvariant, Crash
    PROVE  RouteInvariant'
<1>1. /\ op' = Idle /\ queue' = << >> /\ waiting' = {}
      /\ rows' = rows /\ attempts' = attempts
      /\ \A r \in Runs : task'[r].at = "none" /\ pend'[r] = "none"
    BY DEF Crash, NoTask
<1>2. ASSUME NEW r \in Runs
      PROVE  RouteOf(r)'
    <2>1. rows[r].status = "deleted" => attempts[r] = << >>
        BY DEF RouteInvariant, RouteOf, NoStrayAttempts, Present, Status,
               Dispatchable, Terminal
    <2>2. QED
        BY <1>1, <2>1, StillKeepsRoute DEF RouteInvariant
<1>3. QED
    BY <1>1, <1>2, StillGate DEF RouteInvariant, DownIsStill

\* The startup finds what the tables kept.
LEMMA StartupKeepsRoute ==
    ASSUME TypeOK, RouteInvariant, Startup
    PROVE  RouteInvariant'
<1>1. up \in {"down", "recovering"} /\ UNCHANGED <<op, queue, task, pend, waiting>>
    BY DEF Startup, RecoverOnStartup, Serve, FailInterrupted, startupRest,
           protocol
<1>2. /\ op' = Idle /\ queue' = << >> /\ waiting' = {}
      /\ \A r \in Runs : task'[r].at = "none" /\ pend'[r] = "none"
    BY <1>1 DEF RouteInvariant, DownIsStill
<1>3. ASSUME NEW r \in Runs
      PROVE  RouteOf(r)'
    <2>1. rows[r].status = "deleted" => attempts[r] = << >>
        BY DEF RouteInvariant, RouteOf, NoStrayAttempts, Present, Status,
               Dispatchable, Terminal
    <2>2. rows[r] \in Row /\ RouteOf(r)
        BY DEF TypeOK, StoreTypeOK, RouteInvariant
    <2>3. CASE Serve
        BY <1>2, <2>1, <2>2, <2>3, StillKeepsRoute DEF Serve, store
    <2>4. CASE \E q \in Runs : FailInterrupted(q)
        <3>1. PICK q \in Runs : FailInterrupted(q)
            BY <2>4
        <3>2. attempts' = attempts
            BY <3>1 DEF FailInterrupted
        <3>3. CASE q # r
            <4>1. rows'[r] = rows[r]
                BY <3>1, <3>3 DEF FailInterrupted, Write, TypeOK, StoreTypeOK
            <4>2. QED
                BY <1>2, <2>1, <2>2, <3>2, <4>1, StillKeepsRoute
        <3>4. CASE q = r
            <4>1. /\ Present(r) /\ rows[r].status \in Status
                  /\ Accepts(rows[r].status, "fail")
                BY <3>1, <3>4, InterruptedAccepted DEF FailInterrupted, Present
            <4>2. /\ Moved(r, "fail") \in Row
                  /\ Moved(r, "fail").status = "error"
                  /\ Moved(r, "fail").text = rows[r].text
                  /\ Moved(r, "fail").cleanup = rows[r].cleanup
                BY <2>2, <4>1, MovedType, EventMoves DEF Moved, Row
            <4>3. /\ rows'[r].status = "error"
                  /\ rows'[r].text = rows[r].text
                  /\ rows'[r].cleanup = rows[r].cleanup
                BY <3>1, <3>4, <4>2
                DEF FailInterrupted, Write, TypeOK, StoreTypeOK, Row
            <4>4. QED
                BY <1>2, <2>2, <3>2, <4>1, <4>3, StillKeepsRoute
        <3>5. QED
            BY <3>3, <3>4
    <2>5. CASE RecoverOnStartup
        <3>1. rows'[r] = RecoveredRow(r) /\ attempts'[r] = RecoveredAttempts(r)
            BY <2>5 DEF RecoverOnStartup, RecoverStore
        <3>2. attempts[r] = << >> \/ r \in aged => attempts'[r] = << >>
            BY <3>1 DEF RecoveredAttempts
        <3>3. CASE r \in aged
            <4>1. rows'[r].status = "deleted"
                BY <3>1, <3>3 DEF RecoveredRow, Tombstone
            <4>2. QED
                BY <1>2, <2>2, <3>2, <3>3, <4>1, StillKeepsRoute
        <3>4. CASE /\ r \notin aged /\ rows[r].status = "processing"
                   /\ rows[r].cleanup = "pending"
            <4>1. Present(r) /\ rows[r].text # "selected"
                BY <2>2, <3>4 DEF Present, Status, Dispatchable, RouteOf,
                                  PendingIsOriginal
            <4>2. /\ rows'[r].cleanup = "settled"
                  /\ rows'[r].status = "awaiting_cleanup_choice"
                BY <2>2, <3>1, <3>4 DEF RecoveredRow, Row
            <4>3. QED
                BY <1>2, <2>2, <3>2, <4>1, <4>2, StillKeepsRoute
        <3>5. CASE /\ r \notin aged
                   /\ ~(/\ rows[r].status = "processing"
                        /\ rows[r].cleanup = "pending")
            <4>1. rows'[r] = rows[r]
                BY <3>1, <3>5 DEF RecoveredRow
            <4>2. QED
                BY <1>2, <2>1, <2>2, <3>2, <4>1, StillKeepsRoute
        <3>6. QED
            BY <3>3, <3>4, <3>5
    <2>6. QED
        BY <2>3, <2>4, <2>5 DEF Startup
<1>4. QED
    BY <1>2, <1>3, StillGate DEF RouteInvariant, DownIsStill

-----------------------------------------------------------------------------
(* The theorems. *)

LEMMA RouteInit == Init => RouteInvariant
<1> SUFFICES ASSUME Init
             PROVE  RouteInvariant
    OBVIOUS
<1>1. /\ op = Idle /\ queue = << >> /\ waiting = {} /\ up = "up"
      /\ \A r \in Runs : /\ task[r].at = "none" /\ pend[r] = "none"
                         /\ rows[r].status = "absent" /\ attempts[r] = << >>
    BY DEF Init, StoreInit, ProtocolInit, NoTask
<1>2. ASSUME NEW r \in Runs
      PROVE  RouteOf(r)
    <2>1. /\ op.run # r /\ op.by = "none" /\ op.at = "idle"
          /\ ~Requested(r) /\ ~Present(r) /\ ~Underway(r)
        BY <1>1, RunsAssumption
        DEF Idle, Requested, Present, Status, Dispatchable, Terminal, Underway,
            Working
    <2>2. OneCoroutine(r) /\ NoStrayAttempts(r) /\ ChoosingIsSafe(r)
        BY <1>1, <2>1
        DEF OneCoroutine, NoStrayAttempts, ChoosingIsSafe, Untouched, Delivering
    <2>3. UnderwayRow(r) /\ WaitersRest(r) /\ PendingIsOriginal(r)
        BY <2>1 DEF UnderwayRow, WaitersRest, PendingIsOriginal
    <2>4. WaitingRow(r) /\ ExplicitRead(r)
        BY <1>1, <2>1 DEF WaitingRow, ExplicitRead
    <2>5. QED
        BY <2>2, <2>3, <2>4 DEF RouteOf
<1>3. DownIsStill /\ AskedOnce /\ OperationRoute
    BY <1>1 DEF DownIsStill, AskedOnce, OperationRoute, Idle
<1>4. QED
    BY <1>2, <1>3 DEF RouteInvariant

LEMMA RouteStep ==
    ASSUME TypeInvariant, RouteInvariant, Next
    PROVE  RouteInvariant'
<1>1. TypeOK /\ CancelRead
    BY DEF TypeInvariant
<1>2. CASE Crash \/ Startup
    BY <1>1, <1>2, CrashKeepsRoute, StartupKeepsRoute
<1>3. CASE ~Crash /\ ~Startup
    <2>1. DownIsStill'
        BY <1>1, <1>3, UpSteps DEF DownIsStill
    <2>2. CASE AutoStart \/ AutoApply \/ AutoSettle
        <3>1. PICK r \in Runs : GateStep(r)
            BY <1>1, <2>2, AutoStartKeepsRoute, AutoApplyKeepsRoute,
               AutoSettleKeepsRoute
        <3>2. QED
            BY <3>1, GateStepIsSafe, <2>1 DEF AllRoutes, RouteInvariant
    <2>3. CASE TickDue \/ TickStart \/ TickApply \/ ExplicitStart
               \/ ExplicitApply \/ ExplicitReturns \/ CancelStart \/ CancelWrite
               \/ Deliver
        <3>1. AllRoutes
            BY <1>1, <2>3, TickDueKeepsRoute, TickStartKeepsRoute,
               TickApplyKeepsRoute, ExplicitStartKeepsRoute,
               ExplicitEndKeepsRoute, CancelKeepsRoute, DeliverKeepsRoute
        <3>2. QED
            BY <2>1, <3>1 DEF AllRoutes, RouteInvariant
    <2>4. ASSUME NEW r \in Runs,
                 Work(r) \/ User(r) \/ Environment(r) \/ Background(r)
          PROVE  RouteInvariant'
        <3>1. OwnStep(r)
            BY <1>1, <2>4, RunStepsAreOwn
        <3>2. GateStep(r)
            BY <3>1 DEF OwnStep, GateStep, OpAbout, RouteInvariant,
                        OperationRoute
        <3>3. QED
            BY <2>1, <3>2, GateStepIsSafe DEF AllRoutes, RouteInvariant
    <2>5. QED
        BY <1>3, <2>2, <2>3, <2>4 DEF Next, Gate
<1>4. QED
    BY <1>2, <1>3

LEMMA RouteStutters ==
    ASSUME RouteInvariant, UNCHANGED vars
    PROVE  RouteInvariant'
BY DEF vars, store, protocol, control, RouteInvariant, DownIsStill, AskedOnce,
       OperationRoute, RouteOf, OneCoroutine, NoStrayAttempts, ChoosingIsSafe,
       UnderwayRow, WaitersRest, PendingIsOriginal, WaitingRow, ExplicitRead,
       Untouched, Unchosen, Underway, Requested, Delivering, Present

\* The way of every run to its field holds: its text is claimed for one
\* delivery at a time, and only once it was chosen.
THEOREM RouteIsSafe == Spec => []RouteInvariant
<1>1. TypeInvariant /\ RouteInvariant /\ [Next]_vars => RouteInvariant'
    BY RouteStep, RouteStutters
<1>2. QED
    BY RouteInit, TypesInvariant, <1>1, PTL DEF Spec

\* What the status of a run says of its delivery is true: while its cleanup
\* choice is open, or it has no text, nothing was claimed for it, so choosing
\* again cannot insert a second time; and what waits awaits its destination,
\* or is over and will be dropped by the tick.
THEOREM StatusIsTrue == Spec => []StatusTellsClaims
<1>1. TypeOK /\ RouteInvariant => StatusTellsClaims
    <2> SUFFICES ASSUME TypeOK, RouteInvariant
                 PROVE  StatusTellsClaims
        OBVIOUS
    <2>1. ASSUME NEW r \in Runs, Present(r),
                 \/ rows[r].status = "awaiting_cleanup_choice"
                 \/ rows[r].text = "none"
          PROVE  attempts[r] = << >> /\ r \notin waiting
        BY <2>1 DEF RouteInvariant, RouteOf, ChoosingIsSafe, Unchosen, Untouched
    <2>2. ASSUME NEW r \in waiting
          PROVE  rows[r].status \in Waits
        BY DEF TypeOK, ControlTypeOK, RouteInvariant, RouteOf, WaitingRow
    <2>3. ChoiceUntouched
        BY <2>1 DEF ChoiceUntouched
    <2>4. WaitingMatchesRow
        BY <2>2 DEF WaitingMatchesRow, Waits
    <2>5. QED
        BY <2>3, <2>4 DEF StatusTellsClaims
<1>2. QED
    BY TypeCorrect, RouteIsSafe, <1>1, PTL

=============================================================================
