---------------------------- MODULE RunCancelProofs ----------------------------
(***************************************************************************)
(* What a cancel or a deletion of a run does to its delivery, for any set  *)
(* of runs, where nobody asks for a recovery.                              *)
(*                                                                         *)
(* A step changes one run at a time.  KeepsMarks says all that a step may  *)
(* do to a run as far as its marks count, and the marks follow from it.    *)
(* CalmInvariant is about what a cancel finds, where nothing fails either: *)
(* the text of a run that takes a cancel was not typed.                    *)
(***************************************************************************)
EXTENDS RunDeliveryProofs

-----------------------------------------------------------------------------
(* Without recoveries. *)

LEMMA NoneRecovers ==
    ASSUME StoreTypeOK, NoRecovery
    PROVE  ~Use("recover")
BY DEF StoreTypeOK, NoRecovery, Use, Budgets

\* A request waits for the gate.
Entry(e) == \E i \in DOMAIN queue : queue[i] = e

\* The gate takes the first request and leaves the others.
LEMMA TailEntries ==
    ASSUME queue \in Seq(Request), queue # << >>, queue' = Tail(queue)
    PROVE  /\ Entry(Head(queue))
           /\ \A e : Entry(e)' => Entry(e)
<1>1. 1 \in DOMAIN queue /\ Head(queue) = queue[1]
    OBVIOUS
<1>2. \A i \in DOMAIN queue' : i + 1 \in DOMAIN queue /\ queue'[i] = queue[i + 1]
    OBVIOUS
<1>3. QED
    BY <1>1, <1>2 DEF Entry

\* A request is added to those that wait.
LEMMA AddedEntry ==
    ASSUME queue \in Seq(Request), NEW by, NEW r, NEW version, NEW ack,
           Enqueue(by, r, version, ack)
    PROVE  \A e : Entry(e)' =>
              Entry(e) \/ (e.by = by /\ e.run = r /\ e.version = version)
<1> DEFINE new == [by |-> by, run |-> r, version |-> version, ack |-> ack]
<1>1. queue' = Append(queue, new)
    BY DEF Enqueue
<1>2. \A i \in DOMAIN queue' :
         \/ i \in DOMAIN queue /\ queue'[i] = queue[i]
         \/ queue'[i] = new
    BY <1>1
<1>3. new.by = by /\ new.run = r /\ new.version = version
    OBVIOUS
<1>4. QED
    BY <1>2, <1>3 DEF Entry

\* The tick returns at once, or looks at a run that awaits its destination.
LEMMA TickBegins ==
    ASSUME TickStart
    PROVE  /\ waiting' \subseteq waiting /\ rows' = rows
           /\ \/ op' = Idle
              \/ \E r \in waiting :
                    /\ Visible(r) /\ rows[r].status = "awaiting_destination"
                    /\ op'.by = "tick" /\ op'.run = r
                    /\ op'.at \in {"look", "result"}
                    /\ op'.result \in {"none", "cancelled", "held"}
                    /\ op'.at = "result" => op'.result # "none"
                    /\ waiting' = waiting
<1>1. waiting' \subseteq waiting /\ rows' = rows /\ Granted("tick")
    BY DEF TickStart
<1>2. CASE ~Release
    <2>1. PICK r \in waiting :
             /\ Visible(r) /\ rows[r].status = "awaiting_destination"
             /\ op' \in {[Opened("look") EXCEPT !.run = r],
                         [Opened("look") EXCEPT !.run = r, !.at = "result",
                                                !.result = "cancelled"],
                         [Opened("look") EXCEPT !.run = r, !.at = "result",
                                                !.result = "held"]}
             /\ waiting' = waiting
        BY <1>2 DEF TickStart, Opened, Idle
    <2>2. /\ op'.by = "tick" /\ op'.run = r /\ op'.at \in {"look", "result"}
          /\ op'.result \in {"none", "cancelled", "held"}
          /\ op'.at = "result" => op'.result # "none"
        BY <1>1, <2>1 DEF Opened, Idle, Granted
    <2>3. QED
        BY <1>1, <2>1, <2>2
<1>3. QED
    BY <1>1, <1>2 DEF Release

LEMMA NeverRecoveredInit == Init => NeverRecovered
BY DEF Init, NeverRecovered, NoTask, ProtocolInit, Idle, Working

\* No step makes a recovery where the limits have none.
LEMMA NeverRecoveredStep ==
    ASSUME TypeOK, NoRecovery, NeverRecovered, Next
    PROVE  NeverRecovered'
<1> DEFINE Ordinary == \A e : Entry(e) => e.by # "explicit"
           Own == \A r \in Runs : /\ task[r].kind = "process"
                                  /\ task[r].at # "start"
                                  /\ pend[r] = "none" /\ orphan[r] = "none"
<1>1. NeverRecovered <=> Own /\ op.by # "explicit" /\ Ordinary
    BY DEF NeverRecovered, Entry
<1>2. NeverRecovered' <=> Own' /\ op'.by # "explicit" /\ Ordinary'
    BY DEF NeverRecovered, Entry
<1>3. /\ queue \in Seq(Request) /\ task \in [Runs -> Task]
      /\ pend \in [Runs -> Kinds \cup {"none"}]
      /\ orphan \in [Runs -> Kinds \cup {"none"}]
      /\ ~Use("recover")
    BY NoneRecovers DEF TypeOK, ControlTypeOK
<1>4. ASSUME queue' = queue PROVE Ordinary'
    BY <1>1, <1>4 DEF Entry
<1>5. ASSUME NEW by \in {"auto", "cancel", "tick"}, NEW r, NEW version, NEW ack,
             Enqueue(by, r, version, ack)
      PROVE  Ordinary'
    BY <1>1, <1>3, <1>5, AddedEntry
<1>6. CASE Gate
    <2>1. ~ExplicitStart
        <3>1. ASSUME Granted("explicit") PROVE FALSE
            BY <1>1, <1>3, <3>1, TailEntries DEF Granted
        <3>2. QED
            BY <3>1 DEF ExplicitStart
    <2>2. ASSUME NEW by, Granted(by), by # "explicit"
          PROVE  Ordinary' /\ \A at : Opened(at).by # "explicit"
        <3>1. Ordinary'
            BY <1>1, <1>3, <2>2, TailEntries DEF Granted
        <3>2. \A at : Opened(at).by = by
            BY <2>2, OpenedFields
        <3>3. QED
            BY <2>2, <3>1, <3>2
    <2>3. ~ExplicitApply /\ ~ExplicitReturns
        BY <1>1 DEF ExplicitApply, ExplicitReturns
    <2>4. Idle.by # "explicit"
        BY DEF Idle
    <2>5. CASE AutoStart \/ CancelStart
        <3>1. Ordinary'
            BY <2>2, <2>5 DEF AutoStart, CancelStart
        <3>2. \A at : Opened(at).by # "explicit"
            BY <2>2, <2>5 DEF AutoStart, CancelStart
        <3>3. op'.by # "explicit"
            <4>1. [Opened("cancel_write") EXCEPT
                      !.version = rows[Head(queue).run].version].by # "explicit"
                BY <3>2 DEF Opened, Idle
            <4>2. QED
                BY <2>4, <2>5, <3>2, <4>1 DEF AutoStart, CancelStart, Release
        <3>4. Own'
            BY <1>1, <1>3, <2>5
            DEF AutoStart, CancelStart, Phase, gateRest, cancelRest, Task
        <3>5. QED
            BY <1>2, <3>1, <3>3, <3>4
    <2>6. CASE TickStart
        <3>1. Ordinary' /\ \A at : Opened(at).by # "explicit"
            BY <2>2, <2>6 DEF TickStart
        <3>2. op'.by # "explicit"
            BY <2>6, <2>4, TickBegins
        <3>4. QED
            BY <1>1, <1>2, <2>6, <3>1, <3>2 DEF TickStart, tickRest
    <2>7. CASE AutoApply
        <3>1. op \in Operation
            BY <2>7, BusyType DEF AutoApply, TypeOK
        <3>2. op'.by # "explicit"
            BY <1>1, <2>4, <2>7, <3>1 DEF AutoApply, Release, Operation
        <3>3. QED
            BY <1>1, <1>2, <1>3, <1>4, <2>7, <3>2
            DEF AutoApply, gateRest, Phase, Task
    <2>8. CASE AutoSettle
        BY <1>1, <1>2, <1>3, <1>4, <2>4, <2>8
        DEF AutoSettle, Release, gateRest, Phase, Task
    <2>9. CASE TickApply \/ CancelWrite
        BY <1>1, <1>2, <1>4, <2>4, <2>9
        DEF TickApply, CancelWrite, Release, gateRest, tickRest, cancelRest
    <2>10. QED
        BY <1>6, <2>1, <2>3, <2>5, <2>6, <2>7, <2>8, <2>9 DEF Gate
<1>7. CASE Deliver
    <2>1. queue' = queue /\ task' = task /\ pend' = pend /\ orphan' = orphan
        BY <1>7 DEF Deliver, control
    <2>2. op'.by = op.by
        <3>1. ASSUME op \in Operation PROVE op'.by = op.by
            BY <1>7, <3>1
            DEF Deliver, ProtocolStep, Look, VerifyFirst, ClaimAttempt, Recheck,
                Reverify, Dispatch, Confirm, Resolve, Restore, Return, ResolveAs,
                Begin, Operation
        <3>2. op.at # "idle"
            BY <1>7 DEF Deliver, ProtocolStep, Look, VerifyFirst, ClaimAttempt,
                        Recheck, Reverify, Dispatch, Confirm, Resolve, Restore
        <3>3. QED
            BY <3>1, <3>2, BusyType DEF TypeOK
    <2>3. QED
        BY <1>1, <1>2, <1>4, <2>1, <2>2
<1>8. CASE TickDue
    BY <1>1, <1>2, <1>5, <1>8 DEF TickDue, protocol
<1>9. CASE Startup
    BY <1>1, <1>2, <1>4, <1>9
    DEF Startup, RecoverOnStartup, Serve, FailInterrupted, startupRest, protocol
<1>10. CASE Crash
    BY <1>10 DEF Crash, NeverRecovered, NoTask, Idle, Working
<1>11. ASSUME NEW r \in Runs,
              Work(r) \/ User(r) \/ Environment(r) \/ Background(r)
       PROVE  NeverRecovered'
    <2>1. op' = op
        BY <1>11, RunStepShape
    <2>2. /\ ~UseOriginal(r) /\ ~RetryCleanup(r) /\ ~OrphanClose(r)
          /\ ~RecoverLaunch(r)
          /\ \A ack : ~RecoverInsert(r, ack)
          /\ \A action : ~RecoverCommit(r, action)
        BY <1>1, <1>3
        DEF UseOriginal, RetryCleanup, OrphanClose, RecoverLaunch,
            RecoverInsert, RecoverCommit, Proceeds
    <2>3. CASE SelectAdjusted(r) \/ CleanupSettles(r)
        BY <1>1, <1>2, <1>3, <1>5, <2>1, <2>3
        DEF SelectAdjusted, CleanupSettles, Select, Reached, workRest, Task
    <2>4. CASE \/ TaskStops(r) \/ TaskCancels(r) \/ NoSpeech(r) \/ StoreText(r)
               \/ CleanupFails(r) \/ StaleWrite(r) \/ Failed(r) \/ Close(r)
               \/ EndRecording(r)
        BY <1>1, <1>2, <1>3, <1>4, <2>1, <2>4
        DEF TaskStops, TaskCancels, NoSpeech, StoreText, CleanupFails,
            StaleWrite, Failed, Close, EndRecording, Phase, Reached, workRest,
            closeRest, Task
    <2>5. CASE Start(r) \/ TaskFault(r) \/ CloseFault(r)
        <3>1. Ordinary'
            BY <1>4, <2>5 DEF Start, TaskFault, CloseFault, closeRest
        <3>2. CASE Start(r)
            <4>1. /\ task' = [task EXCEPT ![r] = [kind |-> "process",
                                 at |-> "recording", version |-> 1]]
                  /\ pend' = pend /\ orphan' = orphan
                BY <3>2 DEF Start
            <4>2. QED
                BY <1>1, <1>2, <1>3, <2>1, <3>1, <4>1
        <3>3. CASE TaskFault(r) \/ CloseFault(r)
            BY <1>1, <1>2, <1>3, <2>1, <3>1, <3>3
            DEF TaskFault, CloseFault, Phase, closeRest, Task
        <3>4. QED
            BY <2>5, <3>2, <3>3
    <2>6. CASE Cancel(r)
        BY <1>1, <1>2, <1>4, <1>5, <2>1, <2>6 DEF Cancel
    <2>7. CASE \/ Delete(r) \/ Expire(r) \/ Age(r) \/ RemoveRow(r) \/ Retire(r)
               \/ Evicted(r)
        BY <1>1, <1>2, <1>4, <2>1, <2>7
        DEF Delete, Expire, Age, RemoveRow, Retire, Evicted, abortRest
    <2>8. CASE WaitLimit(r)
        BY <1>1, <1>2, <1>4, <2>1, <2>8 DEF WaitLimit
    <2>9. QED
        BY <1>11, <2>2, <2>3, <2>4, <2>5, <2>6, <2>7, <2>8
        DEF Work, User, Environment, Background
<1>12. QED
    BY <1>6, <1>7, <1>8, <1>9, <1>10, <1>11 DEF Next

-----------------------------------------------------------------------------
(* What a step may do to the marks of a run. *)

\* The coroutine of q, its entries and its flags.
KeepsMarks(q) ==
    /\ TaskActive(q)' => TaskActive(q) \/ rows[q].status = "absent"
    /\ Visible(q)' => Visible(q) \/ rows[q].status = "absent"
    /\ q \in aborted => q \in aborted' \/ ~TaskActive(q)'
    /\ q \in waiting' =>
          \/ q \in waiting
          \/ q \notin aborted /\ op.by = "auto" /\ op.run = q
    /\ q \in flagged =>
          \/ q \in flagged' \/ rows[q].status = "absent" \/ CancelAsked(q)
          \/ /\ ~TaskActive(q)'
             /\ q \in waiting' => q \in waiting
             /\ ~Visible(q) \/ rows[q].status \in Terminal
    /\ CancelAsked(q)' =>
          \/ CancelAsked(q)
          \/ /\ ~TaskActive(q)' /\ q \notin waiting'
             /\ rows[q].status # "absent"
    /\ q \in deleting' =>
          \/ q \in deleting
          \/ /\ Present(q) /\ q \notin waiting'
             /\ TaskActive(q)' => q \in aborted'
    /\ q \in cancelWanted' =>
          \/ q \in cancelWanted
          \/ /\ rows[q].status # "absent" /\ q \notin waiting'
             /\ TaskActive(q)' => q \in flagged'
             /\ op' = op /\ ~Dispatching(q)

\* The operation that delivers q.
KeepsDelivery(q) ==
    /\ op'.run = q /\ op'.by = "tick" =>
          \/ /\ op.run = q /\ op.by = "tick"
             /\ rows'[q] = rows[q] \/ rows'[q].status = "deleted"
          \/ rows'[q].status = "awaiting_destination"
    /\ op'.run = q /\ op'.at \in {"recheck", "reverify"} =>
          \/ rows'[q].status # "deleted"
          \/ /\ op.run = q /\ op.by = op'.by
             /\ op.at \in {"recheck", "reverify"}
             /\ rows[q].status = "deleted" \/ q \in deleting
    /\ op'.run = q /\ op'.at = "dispatch" =>
          \/ op' = op
          \/ /\ op.run = q /\ op.at = "reverify" /\ ~OpCancelled
             /\ op'.by = op.by /\ rows' = rows /\ cancelWanted' = cancelWanted

MarksOf(r) ==
    CancelRests(r) /\ TickRow(r) /\ DeletedIsMarked(r) /\ CancelIsMarked(r)

\* With no more than that the marks stay.
LEMMA MarksFollow ==
    ASSUME TypeInvariant, TypeInvariant', ClaimInvariant, RouteInvariant,
           RouteInvariant', NeverRecovered, NEW q \in Runs, MarksOf(q),
           RowEvolves(q), KeepsMarks(q), KeepsDelivery(q)
    PROVE  MarksOf(q)'
<1>1. /\ rows[q].status # "absent" => rows'[q].status # "absent"
      /\ rows[q].status = "cancelled" =>
            rows'[q].status \in {"cancelled", "deleted"}
      /\ rows'[q].status = "deleted" => ~Visible(q)'
    <2>1. op.by # "explicit"
        BY DEF NeverRecovered
    <2>2. QED
        BY <2>1 DEF RowEvolves, Reopened, Present, Visible, Status,
                    Dispatchable, Terminal
<1>2. /\ op.run = q /\ op.by = "auto" => TaskActive(q)
      /\ op'.run = q /\ op'.by = "auto" => TaskActive(q)'
    BY DEF RouteInvariant, RouteOf, OneCoroutine, TaskActive
<1>3. CancelRests(q)'
    <2>1. SUFFICES ASSUME CancelAsked(q)'
                   PROVE  ~TaskActive(q)' /\ q \notin waiting'
                          /\ rows'[q].status # "absent"
        BY DEF CancelRests
    <2>2. CASE CancelAsked(q)
        BY <1>1, <1>2, <2>2 DEF MarksOf, CancelRests, KeepsMarks
    <2>3. CASE ~CancelAsked(q)
        BY <1>1, <2>1, <2>3 DEF KeepsMarks
    <2>4. QED
        BY <2>2, <2>3
<1>4. TickRow(q)'
    BY DEF MarksOf, TickRow, KeepsDelivery
<1>5. DeletedIsMarked(q)'
    <2>1. ASSUME q \in deleting'
          PROVE  /\ rows'[q].status # "absent" /\ q \notin waiting'
                 /\ TaskActive(q)' => q \in aborted'
        <3>1. CASE q \in deleting
            BY <1>1, <1>2, <3>1 DEF MarksOf, DeletedIsMarked, KeepsMarks
        <3>2. CASE q \notin deleting
            BY <1>1, <2>1, <3>2
            DEF KeepsMarks, Present, Status, Dispatchable, Terminal
        <3>3. QED
            BY <3>1, <3>2
    <2>2. ASSUME rows'[q].status = "deleted", op'.run = q,
                 op'.at \in {"recheck", "reverify"}
          PROVE  /\ op'.by = "auto" => q \in aborted'
                 /\ op'.by = "tick" => q \notin waiting'
        <3>1. /\ op.run = q /\ op.by = op'.by
              /\ op.at \in {"recheck", "reverify"}
              /\ rows[q].status = "deleted" \/ q \in deleting
            BY <2>2 DEF KeepsDelivery
        <3>2. /\ op.by = "auto" => q \in aborted
              /\ op.by = "tick" => q \notin waiting
            BY <1>2, <3>1 DEF MarksOf, DeletedIsMarked
        <3>3. QED
            BY <1>2, <2>2, <3>1, <3>2 DEF KeepsMarks
    <2>3. QED
        BY <2>1, <2>2 DEF DeletedIsMarked
<1>6. CancelIsMarked(q)'
    <2>1. SUFFICES ASSUME q \in cancelWanted'
                   PROVE  /\ rows'[q].status # "absent"
                          /\ TaskActive(q)' => q \in flagged'
                          /\ q \in waiting' =>
                                \/ q \in flagged' \/ ~Visible(q)'
                                \/ rows'[q].status = "cancelled"
                          /\ ~(op'.run = q /\ op'.at = "dispatch")
        BY DEF CancelIsMarked
    <2>2. CASE q \in cancelWanted
        <3>1. /\ rows[q].status # "absent"
              /\ TaskActive(q) => q \in flagged
              /\ q \in waiting => \/ q \in flagged \/ ~Visible(q)
                                  \/ rows[q].status = "cancelled"
              /\ ~(op.run = q /\ op.at = "dispatch")
            BY <2>2 DEF MarksOf, CancelIsMarked
        <3>2. TaskActive(q)' => q \in flagged'
            BY <3>1 DEF KeepsMarks, MarksOf, CancelRests
        <3>3. ASSUME q \in waiting'
              PROVE  \/ q \in flagged' \/ ~Visible(q)'
                     \/ rows'[q].status = "cancelled"
            <4>1. q \in waiting \/ q \in flagged
                BY <1>2, <3>1, <3>3 DEF KeepsMarks
            <4>2. CASE q \in flagged /\ q \notin flagged'
                <5>1. ~CancelAsked(q)
                    BY <1>2, <3>3 DEF KeepsMarks, MarksOf, CancelRests
                <5>2. /\ q \in waiting
                      /\ ~Visible(q) \/ rows[q].status \in Terminal
                    BY <3>1, <3>3, <4>2, <5>1 DEF KeepsMarks
                <5>3. rows[q].status \in Waits
                    BY <5>2 DEF RouteInvariant, RouteOf, WaitingRow
                <5>4. QED
                    BY <1>1, <3>1, <5>2, <5>3 DEF KeepsMarks, Waits, Terminal
            <4>3. QED
                BY <1>1, <3>1, <4>1, <4>2 DEF KeepsMarks
        <3>4. ASSUME op'.run = q, op'.at = "dispatch"
              PROVE  FALSE
            <4>1. /\ op.run = q /\ op.at = "reverify" /\ ~OpCancelled
                BY <3>1, <3>4 DEF KeepsDelivery
            <4>2. /\ q \notin flagged /\ q \notin aborted
                  /\ op.by = "tick" => q \in waiting
                BY <4>1 DEF OpCancelled, Cancelled
            <4>3. op.by = "tick"
                <5>1. op.by \in {"auto", "tick", "explicit"}
                    BY <4>1, ClaimedDelivers
                    DEF TypeInvariant, TypeOK, RouteInvariant, Claimed, Delivering
                <5>2. QED
                    BY <1>2, <3>1, <4>1, <4>2, <5>1 DEF NeverRecovered
            <4>4. rows[q].status = "awaiting_destination" /\ ~Visible(q)
                BY <3>1, <4>1, <4>2, <4>3
                DEF MarksOf, TickRow, DeletedIsMarked
            <4>5. Present(q)
                BY <4>4 DEF Present, Status, Dispatchable
            <4>6. HasAttempt(q, "in_flight")
                BY <4>1, <4>5
                DEF ClaimInvariant, ClaimInFlight, Claimed, HasAttempt
            <4>7. QED
                BY <4>4, <4>5, <4>6 DEF Visible
        <3>5. QED
            BY <1>1, <3>1, <3>2, <3>3, <3>4
    <2>3. CASE q \notin cancelWanted
        <3>1. /\ rows[q].status # "absent" /\ q \notin waiting'
              /\ TaskActive(q)' => q \in flagged'
              /\ op' = op /\ ~Dispatching(q)
            BY <2>1, <2>3 DEF KeepsMarks
        <3>2. op.at = "dispatch" => op.by # "cancel"
            BY DEF RouteInvariant, OperationRoute
        <3>3. QED
            BY <1>1, <3>1, <3>2 DEF Dispatching
    <2>4. QED
        BY <2>2, <2>3
<1>7. QED
    BY <1>3, <1>4, <1>5, <1>6 DEF MarksOf

-----------------------------------------------------------------------------
(* Every step keeps to it. *)

\* What asks for the gate is an entry, or the holder.
LEMMA AskedByEntry ==
    ASSUME NEW q
    PROVE  CancelAsked(q) <=>
              \/ op.run = q /\ op.by = "cancel"
              \/ \E e : Entry(e) /\ e.by = "cancel" /\ e.run = q
BY DEF CancelAsked, Entry

LEMMA AskedByEntryNext ==
    ASSUME NEW q
    PROVE  CancelAsked(q)' <=>
              \/ op'.run = q /\ op'.by = "cancel"
              \/ \E e : Entry(e)' /\ e.by = "cancel" /\ e.run = q
BY DEF CancelAsked, Entry

\* A row comes into sight only with its run.
LEMMA SightStays ==
    ASSUME NEW q, RowEvolves(q),
           attempts'[q] = attempts[q] \/ ~HasAttempt(q, "in_flight")'
           \/ Visible(q) \/ ~Present(q)',
           q \in aged => q \in aged' \/ ~Present(q)'
    PROVE  Visible(q)' => Visible(q) \/ rows[q].status = "absent"
<1>1. Present(q)' => Present(q) \/ rows[q].status = "absent"
    BY DEF RowEvolves, Present, Status, Dispatchable, Terminal
<1>2. attempts'[q] = attempts[q] =>
         (HasAttempt(q, "in_flight")' <=> HasAttempt(q, "in_flight"))
    BY DEF HasAttempt
<1>3. QED
    BY <1>1, <1>2 DEF Visible

\* The protocol: a dispatch follows a look at the flags.
LEMMA DeliverKeepsMarks ==
    ASSUME TypeInvariant, ClaimInvariant, RouteInvariant, Next, Deliver,
           NEW q \in Runs
    PROVE  KeepsMarks(q) /\ KeepsDelivery(q)
<1>1. ProtocolStep(OpCancelled) /\ OpSteps
    BY ProtocolOp DEF Deliver, TypeInvariant, TypeOK, RouteInvariant
<1>2. /\ op \in Operation /\ op.run \in Runs
      /\ op'.by = op.by /\ op'.run = op.run
    BY <1>1 DEF OpSteps
<1>3. UNCHANGED control /\ RowEvolves(q)
    BY RowsEvolve DEF Deliver, TypeInvariant
<1>4. rows' = rows \/ DeleteRow(op.run)
    BY <1>1, <1>2, ProtocolStore DEF TypeInvariant, TypeOK
<1>5. DeleteRow(op.run) => rows'[op.run].status = "deleted"
    BY <1>1, <1>2, ProtocolStore DEF TypeInvariant, TypeOK
<1>6. Visible(q)' => Visible(q) \/ rows[q].status = "absent"
    <2>1. aged' = aged \/ DeleteRow(op.run)
        BY <1>1
        DEF ProtocolStep, Look, VerifyFirst, ClaimAttempt, Recheck, Reverify,
            Dispatch, Confirm, Resolve, Restore, storeRest, RetentionDelete
    <2>2. CASE DeleteRow(op.run)
        <3>1. \/ q = op.run /\ ~Present(q)'
              \/ attempts'[q] = attempts[q] /\ (q \in aged => q \in aged')
            BY <1>2, <1>5, <2>2
            DEF DeleteRow, TypeInvariant, TypeOK, StoreTypeOK, Present, Status,
                Dispatchable, Terminal
        <3>2. QED
            BY <1>3, <3>1, SightStays
    <2>3. CASE ~DeleteRow(op.run)
        <3>1. CASE q # op.run
            BY <1>1, <1>2, <1>3, <2>1, <2>3, <3>1, ProtocolStore, SightStays
            DEF TypeInvariant, TypeOK
        <3>2. CASE q = op.run
            <4>1. \/ attempts'[q] = attempts[q]
                  \/ Visible(q)
                  \/ /\ op.at = "resolve" /\ Resolvable(q, op.attempt)
                     /\ SetOutcome(q, op.attempt, op.outcome)
                BY <1>1, <2>3, <3>2
                DEF ProtocolStep, Look, VerifyFirst, ClaimAttempt, Recheck,
                    Reverify, Dispatch, Confirm, Resolve, Restore,
                    RetentionDelete
            <4>2. CASE /\ op.at = "resolve" /\ Resolvable(q, op.attempt)
                <5>1. HasAttempt(q, "in_flight")
                    BY <4>2 DEF Resolvable, HasAttempt
                <5>2. rows' = rows
                    BY <1>4, <2>3
                <5>3. QED
                    BY <5>1, <5>2 DEF Visible, Present
            <4>3. QED
                BY <1>3, <2>1, <2>3, <4>1, <4>2, SightStays
        <3>3. QED
            BY <3>1, <3>2
    <2>4. QED
        BY <2>2, <2>3
<1>7. KeepsMarks(q)
    <2>1. /\ TaskActive(q)' <=> TaskActive(q)
          /\ CancelAsked(q)' <=> CancelAsked(q)
        BY <1>2, <1>3 DEF control, TaskActive, CancelAsked
    <2>2. QED
        BY <1>3, <1>6, <2>1 DEF KeepsMarks, control
<1>8. KeepsDelivery(q)
    <2>1. op.run = q => rows'[q] = rows[q] \/ rows'[q].status = "deleted"
        BY <1>4, <1>5
    <2>2. ASSUME op'.run = q, op'.at \in {"recheck", "reverify"}
          PROVE  rows'[q].status # "deleted"
        <3>1. Visible(op.run) /\ rows' = rows
            BY <1>1, <1>2, <2>2
            DEF ProtocolStep, Look, VerifyFirst, ClaimAttempt, Recheck, Reverify,
                Dispatch, Confirm, Resolve, Restore, Return, ResolveAs, Begin,
                Operation, storeRest
        <3>2. QED
            BY <1>2, <2>2, <3>1
            DEF Visible, Present, Status, Dispatchable, Terminal
    <2>3. ASSUME op'.run = q, op'.at = "dispatch"
          PROVE  op.at = "reverify" /\ ~OpCancelled /\ rows' = rows
        BY <1>1, <1>2, <2>3
        DEF ProtocolStep, Look, VerifyFirst, ClaimAttempt, Recheck, Reverify,
            Dispatch, Confirm, Resolve, Restore, Return, ResolveAs, Begin,
            Operation
    <2>4. QED
        BY <1>2, <1>3, <2>1, <2>2, <2>3 DEF KeepsDelivery, control
<1>9. QED
    BY <1>7, <1>8

\* The operation after a step of the gate that is not the tick's.
LEMMA OpAfter ==
    ASSUME TypeOK
    PROVE  /\ AutoStart =>
                 \/ op' = Idle
                 \/ /\ op'.by = "auto" /\ op'.run = Head(queue).run
                    /\ op'.at = "verify" /\ op'.result = "none"
                    /\ op'.version = Head(queue).version
           /\ AutoApply =>
                 \/ op' = Idle
                 \/ /\ op'.by = "auto" /\ op'.run = op.run
                    /\ op'.at = "applied" /\ op'.result \in {op.result, "none"}
                    /\ op'.version = op.version
           /\ CancelStart =>
                 \/ op' = Idle
                 \/ /\ op'.by = "cancel" /\ op'.run = Head(queue).run
                    /\ op'.at = "cancel_write" /\ op'.result = "none"
<1>1. ASSUME AutoStart, op' # Idle
      PROVE  /\ op'.by = "auto" /\ op'.run = Head(queue).run
             /\ op'.at = "verify" /\ op'.result = "none"
             /\ op'.version = Head(queue).version
    <2>1. Granted("auto") /\ op' = Opened("verify")
        BY <1>1 DEF AutoStart, Release
    <2>2. QED
        BY <2>1, OpenedFields
<1>2. ASSUME AutoApply, op' # Idle
      PROVE  /\ op'.by = "auto" /\ op'.run = op.run
             /\ op'.at = "applied" /\ op'.result \in {op.result, "none"}
             /\ op'.version = op.version
    <2>1. op \in Operation /\ op.by = "auto"
        BY <1>2, BusyType DEF AutoApply, TypeOK
    <2>2. \/ op' = [op EXCEPT !.at = "applied", !.result = "none"]
          \/ op' = [op EXCEPT !.at = "applied"]
        BY <1>2 DEF AutoApply, Release
    <2>3. QED
        BY <2>1, <2>2 DEF Operation
<1>3. ASSUME CancelStart, op' # Idle
      PROVE  /\ op'.by = "cancel" /\ op'.run = Head(queue).run
             /\ op'.at = "cancel_write" /\ op'.result = "none"
    <2>1. /\ Granted("cancel")
          /\ op' = [Opened("cancel_write") EXCEPT
                       !.version = rows[Head(queue).run].version]
        BY <1>3 DEF CancelStart, Release
    <2>2. QED
        BY <2>1 DEF Granted, Opened, Idle
<1>4. QED
    BY <1>1, <1>2, <1>3

\* An operation that begins or ends one: no coroutine starts, and a flag goes
\* only with a cancel that asked for the gate.
LEMMA GateKeepsMarks ==
    ASSUME TypeInvariant, RouteInvariant, NeverRecovered, NeverRecovered',
           Next, Gate, NEW q \in Runs
    PROVE  KeepsMarks(q) /\ KeepsDelivery(q)
<1>1. /\ aborted' = aborted /\ deleting' = deleting
      /\ cancelWanted' = cancelWanted /\ attempts' = attempts /\ aged' = aged
    BY DEF Gate, AutoStart, AutoApply, AutoSettle, TickStart, TickApply,
           ExplicitStart, ExplicitApply, ExplicitReturns, CancelStart,
           CancelWrite, gateRest, tickRest, explicitRest, cancelRest
<1>2. Visible(q)' => Visible(q) \/ rows[q].status = "absent"
    BY <1>1, RowsEvolve, SightStays DEF TypeInvariant
<1>3. /\ queue \in Seq(Request) /\ task \in [Runs -> Task]
    BY DEF TypeInvariant, TypeOK, ControlTypeOK
<1>4. ~ExplicitStart /\ ~ExplicitApply /\ ~ExplicitReturns
    <2>1. ASSUME Granted("explicit") PROVE FALSE
        BY <1>3, <2>1, TailEntries DEF Granted, NeverRecovered, Entry
    <2>2. QED
        BY <2>1 DEF ExplicitStart, ExplicitApply, ExplicitReturns, NeverRecovered
<1>5. op'.at \notin Claimed
    <2>1. op.at \notin Claimed \cup {"claim"}
        BY DEF Gate, AutoStart, AutoApply, AutoSettle, TickStart, TickApply,
               ExplicitStart, ExplicitApply, ExplicitReturns, CancelStart,
               CancelWrite, Granted, Claimed
    <2>2. QED
        BY <2>1, OpEvolution DEF OpEvolves, Claimed, TypeInvariant
<1>6. KeepsDelivery(q)
    <2>1. ASSUME op'.run = q, op'.by = "tick"
          PROVE  rows'[q].status = "awaiting_destination"
        <3>1. CASE TickStart
            BY <2>1, <3>1, TickBegins DEF Idle
        <3>2. CASE AutoStart \/ CancelStart
            <4>1. op'.by \in {"auto", "cancel", "none"}
                BY <3>2, OpAfter DEF Idle, TypeInvariant
            <4>2. QED
                BY <2>1, <4>1
        <3>3. CASE AutoApply
            BY <2>1, <3>3, OpAfter DEF Idle, TypeInvariant
        <3>4. QED
            BY <1>4, <2>1, <3>1, <3>2, <3>3
            DEF Gate, AutoSettle, TickApply, CancelWrite, Release, Idle
    <2>2. QED
        BY <1>5, <2>1 DEF KeepsDelivery, Claimed
<1>7. /\ TaskActive(q)' => TaskActive(q)
      /\ q \in waiting' =>
            \/ q \in waiting
            \/ q \notin aborted /\ op.by = "auto" /\ op.run = q
      /\ q \in flagged => q \in flagged' \/ CancelAsked(q)
      /\ CancelAsked(q)' => CancelAsked(q)
    <2>1. ASSUME NEW r, Requested(r) \/ (op.by = "auto" /\ op.run = r),
                 r = q, task'[q].at \notin {"none", "done"}
          PROVE  TaskActive(q)
        BY <2>1 DEF RouteInvariant, RouteOf, OneCoroutine, TaskActive
    <2>2. ASSUME NEW by, Granted(by)
          PROVE  /\ op = Idle /\ Entry(Head(queue)) /\ Head(queue).by = by
                 /\ \A e : Entry(e)' => Entry(e)
                 /\ by = "auto" => Requested(Head(queue).run)
        BY <1>3, <2>2, TailEntries, GrantedQueue DEF Granted, TypeInvariant
    <2>3. ASSUME queue' = queue PROVE \A e : Entry(e)' <=> Entry(e)
        BY <2>3 DEF Entry
    <2>4. CASE AutoStart
        <3>1. /\ op = Idle /\ \A e : Entry(e)' => Entry(e)
              /\ Requested(Head(queue).run)
            BY <2>2, <2>4 DEF AutoStart
        <3>2. op'.by \in {"auto", "none"}
            BY <2>4, OpAfter DEF Idle, TypeInvariant
        <3>3. CancelAsked(q)' => CancelAsked(q)
            BY <3>1, <3>2, AskedByEntry, AskedByEntryNext
        <3>4. task' = task \/ Phase(Head(queue).run, "closing")
            BY <2>4 DEF AutoStart
        <3>5. TaskActive(q)' => TaskActive(q)
            BY <1>3, <2>1, <3>1, <3>4 DEF Phase, TaskActive
        <3>6. QED
            BY <2>4, <3>3, <3>5 DEF AutoStart, gateRest
    <2>5. CASE AutoApply
        <3>2. op'.by \in {"auto", "none"}
            BY <2>5, OpAfter DEF Idle, TypeInvariant
        <3>3. CancelAsked(q)' => CancelAsked(q)
            BY <2>3, <2>5, <3>2, AskedByEntry, AskedByEntryNext DEF AutoApply
        <3>4. task' = task \/ Phase(op.run, "closing") \/ Phase(op.run, "failed")
            BY <2>5 DEF AutoApply
        <3>5. TaskActive(q)' => TaskActive(q)
            BY <1>3, <2>1, <2>5, <3>4 DEF AutoApply, Phase, TaskActive
        <3>6. QED
            BY <2>5, <3>3, <3>5 DEF AutoApply
    <2>6. CASE AutoSettle
        <3>1. CancelAsked(q)' => CancelAsked(q)
            BY <2>3, <2>6, AskedByEntry, AskedByEntryNext
            DEF AutoSettle, Release, Idle
        <3>2. op.run \in Runs /\ task[op.run].kind = "process"
            BY <2>6, BusyType
            DEF AutoSettle, NeverRecovered, TypeInvariant, TypeOK
        <3>3. Phase(op.run, "closing") /\ flagged' = flagged
            BY <2>6, <3>2 DEF AutoSettle, RecoveryKinds
        <3>4. TaskActive(q)' => TaskActive(q)
            BY <1>3, <2>1, <2>6, <3>3 DEF AutoSettle, Phase, TaskActive
        <3>5. QED
            BY <2>6, <3>1, <3>3, <3>4 DEF AutoSettle
    <2>7. CASE TickStart
        <3>1. op = Idle /\ \A e : Entry(e)' => Entry(e)
            BY <2>2, <2>7 DEF TickStart
        <3>2. op'.by # "cancel" /\ waiting' \subseteq waiting
            BY <2>7, TickBegins DEF Idle
        <3>3. CancelAsked(q)' => CancelAsked(q)
            BY <3>1, <3>2, AskedByEntry, AskedByEntryNext
        <3>4. QED
            BY <2>7, <3>2, <3>3 DEF TickStart, tickRest, TaskActive
    <2>8. CASE TickApply
        <3>1. CancelAsked(q)' => CancelAsked(q)
            BY <2>3, <2>8, AskedByEntry, AskedByEntryNext
            DEF TickApply, Release, Idle
        <3>2. QED
            BY <2>8, <3>1 DEF TickApply, tickRest, TaskActive
    <2>9. CASE CancelStart
        <3>1. /\ op = Idle /\ \A e : Entry(e)' => Entry(e)
              /\ Entry(Head(queue)) /\ Head(queue).by = "cancel"
            BY <2>2, <2>9 DEF CancelStart
        <3>2. CancelAsked(Head(queue).run)
            BY <3>1, AskedByEntry
        <3>3. op'.by = "cancel" => op'.run = Head(queue).run
            BY <2>9, OpAfter DEF Idle, TypeInvariant
        <3>4. CancelAsked(q)' => CancelAsked(q)
            BY <3>1, <3>2, <3>3, AskedByEntry, AskedByEntryNext
        <3>5. flagged' = flagged \/ flagged' = flagged \ {Head(queue).run}
            BY <2>9 DEF CancelStart
        <3>6. QED
            BY <2>9, <3>2, <3>4, <3>5 DEF CancelStart, cancelRest, TaskActive
    <2>10. CASE CancelWrite
        <3>1. CancelAsked(op.run)
            BY <2>10 DEF CancelWrite, CancelAsked, RouteInvariant, OperationRoute
        <3>2. CancelAsked(q)' => CancelAsked(q)
            BY <2>3, <2>10, AskedByEntry, AskedByEntryNext
            DEF CancelWrite, Release, Idle
        <3>3. flagged' = flagged \/ flagged' = flagged \ {op.run}
            BY <2>10 DEF CancelWrite
        <3>4. QED
            BY <2>10, <3>1, <3>2, <3>3 DEF CancelWrite, cancelRest, TaskActive
    <2>11. QED
        BY <1>4, <2>4, <2>5, <2>6, <2>7, <2>8, <2>9, <2>10 DEF Gate
<1>8. KeepsMarks(q)
    BY <1>1, <1>2, <1>7 DEF KeepsMarks
<1>9. QED
    BY <1>6, <1>8

\* What a step that leaves the operation may do to a row.
RowAside(q) ==
    \/ rows'[q] = rows[q]
    \/ task[q].at \in Working \cup {"failed"}
    \/ rows[q].status = "absent"
    \/ /\ rows'[q].status = "deleted"
       /\ q \in deleting \/ ~HasAttempt(q, "in_flight")

\* The row of a run that is being delivered is left alone, or deleted on the
\* user's word.
LEMMA AsideKeepsDelivery ==
    ASSUME ClaimInvariant, RouteInvariant, TypeInvariant, NeverRecovered,
           NEW q \in Runs, op' = op, RowAside(q)
    PROVE  KeepsDelivery(q)
<1>1. CASE op.run # q
    BY <1>1 DEF KeepsDelivery
<1>2. CASE op.run = q
    <2>1. op.at \in Claimed => op.by \in {"auto", "tick"}
        BY <1>2, ClaimedDelivers
        DEF TypeInvariant, TypeOK, RouteInvariant, NeverRecovered, Delivering
    <2>2. op.by \in {"auto", "tick"} =>
             task[q].at \notin Working \cup {"failed"}
        BY <1>2 DEF RouteInvariant, RouteOf, OneCoroutine, WaitersRest, Underway,
                    Working
    <2>3. op.by = "tick" => rows[q].status \in Waits
        BY <1>2 DEF RouteInvariant, RouteOf, WaitingRow
    <2>4. op.at \in Claimed => rows[q].status # "absent"
        BY <1>2 DEF ClaimInvariant, NothingBeforeStart
    <2>5. op.at \in Claimed /\ ~HasAttempt(q, "in_flight") => ~Present(q)
        BY <1>2 DEF ClaimInvariant, ClaimInFlight, HasAttempt
    <2>6. ~Present(q) => rows[q].status \in {"absent", "deleted"}
        BY DEF TypeInvariant, TypeOK, StoreTypeOK, Row, Present
    <2>7. ASSUME op.by = "tick"
          PROVE  rows'[q] = rows[q] \/ rows'[q].status = "deleted"
        BY <2>2, <2>3, <2>7 DEF RowAside, Waits
    <2>8. ASSUME op.at \in {"recheck", "reverify"}, rows'[q].status = "deleted"
          PROVE  rows[q].status = "deleted" \/ q \in deleting
        BY <2>1, <2>2, <2>4, <2>5, <2>6, <2>8 DEF RowAside, Claimed
    <2>9. QED
        BY <1>2, <2>7, <2>8 DEF KeepsDelivery
<1>3. QED
    BY <1>1, <1>2

\* What the coroutine of r does to q.
Works(r, q) ==
    /\ UNCHANGED <<op, attempts, aged, waiting, deleting, cancelWanted>>
    /\ q # r => task'[q] = task[q]
    /\ TaskActive(r)
    /\ rows'[q] = rows[q] \/ (q = r /\ task[r].at \in Working \cup {"failed"})
    /\ \/ aborted' = aborted
       \/ aborted' = aborted \ {r} /\ ~TaskActive(r)'
    /\ \/ flagged' = flagged
       \/ /\ flagged' = flagged \ {r} /\ ~TaskActive(r)'
          /\ ~Visible(r) \/ rows[r].status \in Terminal
    /\ \/ queue' = queue
       \/ \E version : Enqueue("auto", r, version, FALSE)

LEMMA WorkShape ==
    ASSUME TypeInvariant, NeverRecovered, NEW r \in Runs,
           Work(r) \/ EndRecording(r) \/ TaskFault(r) \/ CloseFault(r),
           NEW q \in Runs
    PROVE  Works(r, q)
<1>1. /\ task \in [Runs -> Task] /\ rows \in [Runs -> Row]
      /\ task[r].kind = "process" /\ task[r].at # "start"
      /\ pend[r] = "none" /\ orphan[r] = "none"
    BY DEF TypeInvariant, TypeOK, ControlTypeOK, StoreTypeOK, NeverRecovered
<1>2. ~UseOriginal(r) /\ ~RetryCleanup(r) /\ ~OrphanClose(r) /\ ~RecoverLaunch(r)
    BY <1>1 DEF UseOriginal, RetryCleanup, OrphanClose, RecoverLaunch, Proceeds
<1>3. CASE \/ TaskStops(r) \/ TaskCancels(r) \/ NoSpeech(r) \/ StoreText(r)
           \/ SelectAdjusted(r) \/ CleanupSettles(r) \/ CleanupFails(r)
           \/ StaleWrite(r) \/ Failed(r) \/ EndRecording(r)
    <2>1. /\ UNCHANGED <<op, attempts, aged, waiting, deleting, cancelWanted,
                         aborted, flagged>>
        BY <1>3
        DEF TaskStops, TaskCancels, NoSpeech, StoreText, SelectAdjusted,
            CleanupSettles, CleanupFails, StaleWrite, Failed, EndRecording,
            Select, workRest, protocol
    <2>2. task[r].at \in Working \cup {"failed"}
        BY <1>3
        DEF TaskStops, TaskCancels, NoSpeech, StoreText, SelectAdjusted,
            CleanupSettles, CleanupFails, StaleWrite, Failed, EndRecording,
            Proceeds, Working
    <2>3. q # r => task'[q] = task[q] /\ rows'[q] = rows[q]
        BY <1>1, <1>3
        DEF TaskStops, TaskCancels, NoSpeech, StoreText, SelectAdjusted,
            CleanupSettles, CleanupFails, StaleWrite, Failed, EndRecording,
            Select, Phase, Reached, Write
    <2>4. \/ queue' = queue
          \/ \E version : Enqueue("auto", r, version, FALSE)
        BY <1>3
        DEF TaskStops, TaskCancels, NoSpeech, StoreText, SelectAdjusted,
            CleanupSettles, CleanupFails, StaleWrite, Failed, EndRecording,
            Select
    <2>5. QED
        BY <2>1, <2>2, <2>3, <2>4 DEF Works, TaskActive, Working
<1>4. CASE Close(r) \/ CloseFault(r)
    <2>1. /\ UNCHANGED <<op, attempts, aged, waiting, deleting, cancelWanted,
                         queue, rows>>
        BY <1>1, <1>4 DEF Close, CloseFault, Finally, closeRest, protocol
    <2>2. task[r].at = "closing" /\ task' = [task EXCEPT ![r].at = "done"]
        BY <1>4 DEF Close, CloseFault, Phase
    <2>3. aborted' = aborted \/ aborted' = aborted \ {r}
        BY <1>4 DEF Close, CloseFault, Finally
    <2>4. \/ flagged' = flagged
          \/ /\ flagged' = flagged \ {r}
             /\ ~Visible(r) \/ rows[r].status \in Terminal
        BY <1>1, <1>4 DEF Close, CloseFault, Finally
    <2>5. QED
        BY <1>1, <2>1, <2>2, <2>3, <2>4 DEF Works, TaskActive, Task
<1>5. CASE TaskFault(r)
    BY <1>1, <1>5
    DEF TaskFault, Works, Phase, TaskActive, Working, Task, store, protocol
<1>6. QED
    BY <1>2, <1>3, <1>4, <1>5 DEF Work

\* The coroutine keeps the marks of its run.
LEMMA WorkKeepsMarks ==
    ASSUME TypeInvariant, ClaimInvariant, RouteInvariant, NeverRecovered, Next,
           NEW r \in Runs,
           Work(r) \/ EndRecording(r) \/ TaskFault(r) \/ CloseFault(r),
           NEW q \in Runs
    PROVE  KeepsMarks(q) /\ KeepsDelivery(q)
<1>1. Works(r, q) /\ RowEvolves(q)
    BY WorkShape, RowsEvolve DEF TypeInvariant
<1>2. Visible(q)' => Visible(q) \/ rows[q].status = "absent"
    BY <1>1, SightStays DEF Works
<1>3. CancelAsked(q)' => CancelAsked(q)
    <2>1. \A e : Entry(e)' => Entry(e) \/ e.by = "auto"
        <3>1. CASE queue' = queue
            BY <3>1 DEF Entry
        <3>2. ASSUME NEW version, Enqueue("auto", r, version, FALSE)
              PROVE  \A e : Entry(e)' => Entry(e) \/ e.by = "auto"
            <4>1. queue \in Seq(Request)
                BY DEF TypeInvariant, TypeOK, ControlTypeOK
            <4>2. QED
                BY <3>2, <4>1, AddedEntry
        <3>3. QED
            BY <1>1, <3>1, <3>2 DEF Works
    <2>2. QED
        BY <1>1, <2>1, AskedByEntry, AskedByEntryNext DEF Works
<1>4. TaskActive(q)' => TaskActive(q)
    BY <1>1 DEF Works, TaskActive
<1>5. KeepsMarks(q)
    BY <1>1, <1>2, <1>3, <1>4 DEF Works, KeepsMarks
<1>6. KeepsDelivery(q)
    BY <1>1, AsideKeepsDelivery DEF Works, RowAside
<1>7. QED
    BY <1>5, <1>6

\* A cancel marks the work of its run, or asks for the gate if there is none.
LEMMA CancelKeepsMarks ==
    ASSUME TypeInvariant, NEW r \in Runs, Cancel(r), NEW q \in Runs,
           RowEvolves(q)
    PROVE  KeepsMarks(q)
<1>1. /\ UNCHANGED <<op, rows, attempts, aged, task, aborted, deleting>>
      /\ rows[r].status # "absent"
      /\ flagged' = flagged \cup {r} /\ waiting' = waiting \ {r}
      /\ \/ cancelWanted' = cancelWanted
         \/ cancelWanted' = cancelWanted \cup {r} /\ ~Dispatching(r)
      /\ \/ queue' = queue
         \/ ~TaskActive(r) /\ Enqueue("cancel", r, 0, FALSE)
    <2>1. \/ cancelWanted' = cancelWanted
          \/ cancelWanted' = cancelWanted \cup {r} /\ ~Dispatching(r)
        BY DEF Cancel
    <2>2. queue' = queue \/ (~TaskActive(r) /\ Enqueue("cancel", r, 0, FALSE))
        BY DEF Cancel
    <2>3. QED
        BY <2>1, <2>2 DEF Cancel, store, protocol
<1>2. /\ TaskActive(q)' <=> TaskActive(q)
      /\ Visible(q)' => Visible(q) \/ rows[q].status = "absent"
    BY <1>1, SightStays DEF TaskActive
<1>3. CancelAsked(q)' => CancelAsked(q) \/ (q = r /\ ~TaskActive(r))
    <2>1. CASE queue' = queue
        BY <1>1, <2>1 DEF CancelAsked
    <2>2. CASE ~TaskActive(r) /\ Enqueue("cancel", r, 0, FALSE)
        <3>1. queue \in Seq(Request)
            BY DEF TypeInvariant, TypeOK, ControlTypeOK
        <3>2. \A e : Entry(e)' => Entry(e) \/ e.run = r
            BY <2>2, <3>1, AddedEntry
        <3>3. QED
            BY <1>1, <2>2, <3>2, AskedByEntry, AskedByEntryNext
    <2>3. QED
        BY <1>1, <2>1, <2>2
<1>4. QED
    BY <1>1, <1>2, <1>3 DEF KeepsMarks

\* The deletions, and the age and the wait limit of a run.
LEMMA RemovalKeepsMarks ==
    ASSUME TypeInvariant, NEW r \in Runs,
           \/ Delete(r) \/ RemoveRow(r) \/ Expire(r) \/ Age(r) \/ Retire(r)
           \/ Evicted(r) \/ WaitLimit(r),
           NEW q \in Runs, RowEvolves(q)
    PROVE  KeepsMarks(q) /\ RowAside(q)
<1>1. UNCHANGED <<op, queue, task, flagged, cancelWanted>>
    BY DEF Delete, RemoveRow, Expire, Age, Retire, Evicted, WaitLimit,
           abortRest, protocol
<1>2. /\ waiting' \subseteq waiting
      /\ \A s \in aborted : s \in aborted'
      /\ \/ deleting' \subseteq deleting
         \/ Delete(r) /\ deleting' = deleting \cup {r}
    BY DEF Delete, RemoveRow, Expire, Age, Retire, Evicted, WaitLimit,
           abortRest, Abort
<1>3. \/ rows' = rows /\ attempts' = attempts /\ aged \subseteq aged'
      \/ /\ DeleteRow(r)
         /\ r \in deleting \/ ~HasAttempt(r, "in_flight")
    BY DEF Delete, RemoveRow, Expire, Age, Retire, Evicted, WaitLimit,
           RetentionDelete, store
<1>4. DeleteRow(r) => /\ rows'[r].status = "deleted"
                      /\ q # r => /\ rows'[q] = rows[q]
                                  /\ attempts'[q] = attempts[q]
                                  /\ q \in aged => q \in aged'
    BY DEF DeleteRow, Tombstone, TypeInvariant, TypeOK, StoreTypeOK
<1>5. Visible(q)' => Visible(q) \/ rows[q].status = "absent"
    <2>1. DeleteRow(r) /\ q = r => ~Present(q)'
        BY <1>4 DEF Present, Status, Dispatchable, Terminal
    <2>2. QED
        BY <1>3, <1>4, <2>1, SightStays
<1>6. /\ TaskActive(q)' <=> TaskActive(q)
      /\ CancelAsked(q)' <=> CancelAsked(q)
    BY <1>1 DEF TaskActive, CancelAsked
<1>7. Delete(r) => /\ Present(r) /\ r \notin waiting'
                   /\ TaskActive(r)' => r \in aborted'
    BY <1>1 DEF Delete, Abort, TaskActive
<1>8. KeepsMarks(q)
    BY <1>1, <1>2, <1>5, <1>6, <1>7 DEF KeepsMarks
<1>9. RowAside(q)
    BY <1>3, <1>4 DEF RowAside
<1>10. QED
    BY <1>8, <1>9

\* A new run, and the request of the tick.
LEMMA StartKeepsMarks ==
    ASSUME TypeInvariant, NEW r \in Runs, Start(r), NEW q \in Runs,
           RowEvolves(q)
    PROVE  KeepsMarks(q) /\ RowAside(q)
<1>1. /\ UNCHANGED <<op, queue, attempts, aged, aborted, waiting, deleting,
                     cancelWanted>>
      /\ flagged' = flagged \ {r} /\ rows[r].status = "absent"
      /\ q # r => task'[q] = task[q] /\ rows'[q] = rows[q]
    BY DEF Start, CreateRow, protocol, TypeInvariant, TypeOK, ControlTypeOK,
           StoreTypeOK
<1>2. /\ Visible(q)' => Visible(q) \/ rows[q].status = "absent"
      /\ q # r => (TaskActive(q)' <=> TaskActive(q))
      /\ CancelAsked(q)' <=> CancelAsked(q)
    BY <1>1, SightStays DEF TaskActive, CancelAsked
<1>3. QED
    BY <1>1, <1>2 DEF KeepsMarks, RowAside

LEMMA TickDueKeepsMarks ==
    ASSUME TypeInvariant, TickDue, NEW q \in Runs
    PROVE  KeepsMarks(q) /\ RowAside(q) /\ op' = op
<1>1. /\ UNCHANGED <<op, rows, attempts, aged, task, flagged, aborted, waiting,
                     deleting, cancelWanted>>
      /\ Enqueue("tick", NoRun, 0, FALSE)
    BY DEF TickDue, store, protocol
<1>2. queue \in Seq(Request)
    BY DEF TypeInvariant, TypeOK, ControlTypeOK
<1>3. \A e : Entry(e)' => Entry(e) \/ e.by = "tick"
    BY <1>1, <1>2, AddedEntry
<1>4. CancelAsked(q)' => CancelAsked(q)
    BY <1>1, <1>3, AskedByEntry, AskedByEntryNext
<1>5. /\ TaskActive(q)' <=> TaskActive(q)
      /\ Visible(q)' <=> Visible(q)
    BY <1>1 DEF TaskActive, Visible, Present, HasAttempt
<1>6. QED
    BY <1>1, <1>4, <1>5 DEF KeepsMarks, RowAside

-----------------------------------------------------------------------------
(* The marks, over every step. *)

\* Where nothing runs there is nothing to mark.
LEMMA StillHasMarks ==
    ASSUME op = Idle, queue = << >>, NEW r \in Runs,
           r \in deleting \cup cancelWanted =>
              /\ ~TaskActive(r) /\ r \notin waiting
              /\ rows[r].status # "absent"
    PROVE  MarksOf(r)
<1>1. op.run # r
    BY RunsAssumption DEF Idle
<1>2. QED
    BY <1>1 DEF MarksOf, CancelRests, CancelAsked, TickRow, DeletedIsMarked,
                CancelIsMarked

\* The same after a step.
LEMMA StillNext ==
    ASSUME op' = Idle, queue' = << >>, NEW r \in Runs,
           r \in deleting' \cup cancelWanted' =>
              /\ ~TaskActive(r)' /\ r \notin waiting'
              /\ rows'[r].status # "absent"
    PROVE  MarksOf(r)'
<1>1. op'.run # r
    BY RunsAssumption DEF Idle
<1>2. QED
    BY <1>1 DEF MarksOf, CancelRests, CancelAsked, TickRow, DeletedIsMarked,
                CancelIsMarked

LEMMA MarksInit == Init => MarksInvariant
<1> SUFFICES ASSUME Init PROVE MarksInvariant
    OBVIOUS
<1>1. op = Idle /\ queue = << >> /\ deleting = {} /\ cancelWanted = {}
    BY DEF Init, ProtocolInit
<1>2. QED
    BY <1>1, NeverRecoveredInit, StillHasMarks DEF MarksInvariant, MarksOf

\* After a crash there is nothing to mark, and the startup marks nothing.
LEMMA RestartKeepsMarks ==
    ASSUME TypeInvariant, RouteInvariant, Next, Crash \/ Startup,
           NEW q \in Runs, MarksOf(q)
    PROVE  MarksOf(q)'
<1>1. CASE Crash
    <2>1. /\ op' = Idle /\ queue' = << >> /\ deleting' = {}
          /\ cancelWanted' = {}
        BY <1>1 DEF Crash
    <2>2. QED
        BY <2>1, StillNext
<1>2. CASE Startup
    <2>1. UNCHANGED startupRest /\ up # "up"
        BY <1>2 DEF Startup, RecoverOnStartup, Serve, FailInterrupted
    <2>2. /\ op' = Idle /\ queue' = << >> /\ waiting' = {}
          /\ ~TaskActive(q)'
        BY <2>1 DEF startupRest, protocol, RouteInvariant, DownIsStill, TaskActive
    <2>3. rows[q].status # "absent" => rows'[q].status # "absent"
        BY RowsEvolve
        DEF TypeInvariant, RowEvolves, Status, Dispatchable, Terminal
    <2>4. q \in deleting' \cup cancelWanted' => rows'[q].status # "absent"
        BY <2>1, <2>3
        DEF startupRest, MarksOf, DeletedIsMarked, CancelIsMarked
    <2>5. QED
        BY <2>2, <2>4, StillNext
<1>3. QED
    BY <1>1, <1>2

\* Every step keeps the marks.
LEMMA MarksStep ==
    ASSUME NoRecovery, TypeInvariant, TypeInvariant', ClaimInvariant,
           RouteInvariant, RouteInvariant', MarksInvariant, Next
    PROVE  MarksInvariant'
<1>1. NeverRecovered /\ NeverRecovered'
    BY NeverRecoveredStep DEF MarksInvariant, TypeInvariant
<1>2. ASSUME NEW q \in Runs
      PROVE  MarksOf(q)'
    <2>1. MarksOf(q) /\ RowEvolves(q)
        BY RowsEvolve DEF MarksInvariant, MarksOf, TypeInvariant
    <2>2. CASE Crash \/ Startup
        BY <2>1, <2>2, RestartKeepsMarks
    <2>3. ASSUME KeepsMarks(q), KeepsDelivery(q)
          PROVE  MarksOf(q)'
        BY <1>1, <2>1, <2>3, MarksFollow
    <2>4. CASE Deliver
        BY <2>3, <2>4, DeliverKeepsMarks
    <2>5. CASE Gate
        BY <1>1, <2>3, <2>5, GateKeepsMarks
    <2>6. CASE TickDue
        BY <1>1, <2>3, <2>6, TickDueKeepsMarks, AsideKeepsDelivery
    <2>7. ASSUME NEW r \in Runs,
                 Work(r) \/ User(r) \/ Environment(r) \/ Background(r)
          PROVE  MarksOf(q)'
        <3>1. op' = op
            BY <2>7, RunStepShape
        <3>2. /\ \A ack : ~RecoverInsert(r, ack)
              /\ \A action : ~RecoverCommit(r, action)
            BY NoneRecovers DEF RecoverInsert, RecoverCommit, TypeInvariant, TypeOK
        <3>3. CASE Work(r) \/ EndRecording(r) \/ TaskFault(r) \/ CloseFault(r)
            BY <1>1, <2>3, <3>3, WorkKeepsMarks
        <3>4. CASE Start(r)
            BY <1>1, <2>1, <2>3, <3>1, <3>4, StartKeepsMarks, AsideKeepsDelivery
        <3>5. CASE Cancel(r)
            <4>1. RowAside(q)
                BY <3>5 DEF Cancel, store, RowAside
            <4>2. QED
                BY <1>1, <2>1, <2>3, <3>1, <3>5, <4>1, CancelKeepsMarks,
                   AsideKeepsDelivery
        <3>6. CASE \/ Delete(r) \/ RemoveRow(r) \/ Expire(r) \/ Age(r)
                   \/ Retire(r) \/ Evicted(r) \/ WaitLimit(r)
            BY <1>1, <2>1, <2>3, <3>1, <3>6, RemovalKeepsMarks,
               AsideKeepsDelivery
        <3>7. QED
            BY <2>7, <3>2, <3>3, <3>4, <3>5, <3>6
            DEF User, Environment, Background
    <2>8. QED
        BY <2>2, <2>4, <2>5, <2>6, <2>7 DEF Next
<1>3. QED
    BY <1>1, <1>2 DEF MarksInvariant, MarksOf

LEMMA MarksStutter ==
    ASSUME MarksInvariant, UNCHANGED vars
    PROVE  MarksInvariant'
<1>1. UNCHANGED <<rows, attempts, aged, op, queue, task, orphan, pend, flagged,
                  aborted, waiting, deleting, cancelWanted>>
    BY DEF vars, store, protocol, control
<1>2. /\ \A r \in Runs : /\ TaskActive(r)' <=> TaskActive(r)
                         /\ CancelAsked(r)' <=> CancelAsked(r)
                         /\ Visible(r)' <=> Visible(r)
    BY <1>1 DEF TaskActive, CancelAsked, Visible, Present, HasAttempt
<1>3. QED
    BY <1>1, <1>2
    DEF MarksInvariant, NeverRecovered, CancelRests, TickRow, DeletedIsMarked,
        CancelIsMarked

\* The marks hold as long as nobody asks for a recovery.
THEOREM MarksAreKept == ASSUME NoRecovery PROVE Spec => []MarksInvariant
<1>1. /\ TypeInvariant /\ TypeInvariant' /\ ClaimInvariant
      /\ RouteInvariant /\ RouteInvariant' /\ MarksInvariant /\ [Next]_vars
      => MarksInvariant'
    BY MarksStep, MarksStutter
<1>2. QED
    BY MarksInit, TypesInvariant, ClaimsInvariant, RouteIsSafe, <1>1, PTL
    DEF Spec

\* Only the protocol reaches a dispatch.
LEMMA DispatchIsLooked ==
    ASSUME TypeInvariant, ClaimInvariant, RouteInvariant, Next,
           op.at # "dispatch", op'.at = "dispatch", op.run \in Runs
    PROVE  KeepsDelivery(op.run)
<1>1. CASE Deliver
    BY <1>1, DeliverKeepsMarks
<1>2. CASE Gate
    <2>1. op.at \notin Claimed \cup {"claim"}
        BY <1>2
        DEF Gate, AutoStart, AutoApply, AutoSettle, TickStart, TickApply,
            ExplicitStart, ExplicitApply, ExplicitReturns, CancelStart,
            CancelWrite, Granted, Claimed
    <2>2. QED
        BY <2>1, OpEvolution DEF OpEvolves, Claimed, TypeInvariant
<1>3. CASE TickDue \/ Crash \/ Startup
    <2>1. op' = op \/ op' = Idle
        BY <1>3 DEF TickDue, Crash, Startup, RecoverOnStartup, Serve,
                    FailInterrupted, startupRest, protocol
    <2>2. QED
        BY <2>1 DEF Idle
<1>4. QED
    BY <1>1, <1>2, <1>3, RunStepShape DEF Next

\* A delivery the application began by itself does not reach its dispatch
\* once the run is deleted, if nobody recovers a run.
THEOREM DeletedIsNotDelivered ==
    ASSUME NoRecovery PROVE Spec => DeletedNotDelivered
<1>1. TypeInvariant /\ ClaimInvariant /\ RouteInvariant /\ MarksInvariant
      /\ [Next]_vars =>
         [op.at # "dispatch" /\ op'.at = "dispatch" /\ op.by # "explicit" =>
             Present(op.run)]_vars
    <2> SUFFICES ASSUME TypeInvariant, ClaimInvariant, RouteInvariant,
                        MarksInvariant, Next, op.at # "dispatch",
                        op'.at = "dispatch"
                 PROVE  Present(op.run)
        BY DEF vars, protocol
    <2>1. op'.at \in Claimed /\ op' # op
        BY DEF Claimed
    <2>2. op.at \in Claimed \cup {"claim"} /\ op'.run = op.run
        BY <2>1, OpEvolution DEF OpEvolves, TypeInvariant, Claimed
    <2>3. op \in Operation /\ op.run \in Runs
        BY <2>2, BusyType DEF TypeInvariant, TypeOK, Claimed
    <2>4. KeepsDelivery(op.run)
        BY <2>1, <2>2, <2>3, DispatchIsLooked
    <2>5. op.at = "reverify" /\ ~OpCancelled /\ op'.by = op.by
        BY <2>1, <2>2, <2>4 DEF KeepsDelivery
    <2>6. op.by \in {"auto", "tick"}
        BY <2>2, <2>3, <2>5, ClaimedDelivers
        DEF TypeInvariant, TypeOK, RouteInvariant, MarksInvariant,
            NeverRecovered, Claimed, Delivering
    <2>7. rows[op.run].status # "deleted"
        BY <2>3, <2>5, <2>6
        DEF OpCancelled, Cancelled, MarksInvariant, DeletedIsMarked
    <2>8. rows[op.run].status # "absent"
        BY <2>2, <2>3, <2>5 DEF ClaimInvariant, NothingBeforeStart, Claimed
    <2>9. QED
        BY <2>3, <2>7, <2>8
        DEF TypeInvariant, TypeOK, StoreTypeOK, Row, Present
<1>2. QED
    BY MarksAreKept, TypesInvariant, ClaimsInvariant, RouteIsSafe, <1>1, PTL
    DEF Spec, DeletedNotDelivered

\* A cancellation processed before the dispatch suppresses it, if nobody
\* recovers a run.
THEOREM CancelSuppresses ==
    ASSUME NoRecovery PROVE Spec => CancelSuppressesDispatch
<1>1. TypeInvariant /\ MarksInvariant /\ [Next]_vars =>
         [\A r \in Runs : typed'[r] > typed[r] => r \notin cancelWanted]_vars
    <2> SUFFICES ASSUME TypeInvariant, MarksInvariant, Next, NEW r \in Runs,
                        typed'[r] > typed[r]
                 PROVE  r \notin cancelWanted
        BY DEF vars, protocol
    <2>1. typed \in [Runs -> Nat]
        BY DEF TypeInvariant, TypeOK, ProtocolTypeOK
    <2>2. op.at = "dispatch" /\ op.run = r
        BY <2>1, OnlyDispatchTypes DEF TypeInvariant
    <2>3. QED
        BY <2>2 DEF MarksInvariant, CancelIsMarked
<1>2. QED
    BY MarksAreKept, TypesInvariant, <1>1, PTL DEF Spec, CancelSuppressesDispatch

-----------------------------------------------------------------------------
(* What a step may do to a run where nothing fails either. *)

\* The operation delivers q on its own account.
Automatic(q) == op.run = q /\ op.by \in {"auto", "tick"}

\* Who may change the status of q.
Written(q) ==
    \/ rows'[q].status \in {rows[q].status, "deleted"}
    \/ rows[q].status = "absent"
    \/ task[q].at \in Working \cup {"failed"} \/ Requested(q)
    \/ /\ Automatic(q) /\ op.at = "result"
       /\ op.result \in {"inserted", "uncertain"} =>
             rows'[q].status \in {"done", "uncertain"}
    \/ /\ rows'[q].status = "cancelled"
       /\ Visible(q) /\ Accepts(rows[q].status, "cancel") /\ ~Automatic(q)

\* A result that need not be told, or was told.
Told(q) ==
    \/ ~Visible(q)' \/ q \in aborted
    \/ op.result \notin {"inserted", "uncertain"}
    \/ rows'[q].status \in {"done", "uncertain"}

KeepsCalm(q) ==
    /\ task'[q].at \in Working \cup {"failed"} =>
          task[q].at \in Working \cup {"failed"} \/ rows[q].status = "absent"
    /\ Requested(q)' => Requested(q) \/ task[q].at \in Working
    /\ q \in waiting' /\ ~(op'.run = q /\ op'.by = "tick") =>
          \/ q \in waiting /\ ~(op.run = q /\ op.by = "tick")
          \/ /\ Automatic(q) /\ op.at \in {"result", "applied"}
             /\ op.result \notin {"inserted", "uncertain", "none"}
    /\ q \in aborted' => q \in aborted \/ q \in deleting' \/ q \in deferred
    /\ q \in deferred' => q \in deferred \/ rows'[q].status = "deleted"
    /\ q \in deleting => q \in deleting' \/ rows'[q].status = "deleted"
    /\ Written(q)
    /\ \/ typed'[q] = typed[q]
       \/ /\ Automatic(q) /\ op.at = "dispatch" /\ rows' = rows
          /\ op'.run = q /\ op'.by = op.by /\ op'.at \in {"confirm", "resolve"}
    /\ Automatic(q) /\ op.at # "applied" =>
          \/ op'.run = q /\ op'.by = op.by /\ op'.at # "applied"
          \/ op.at = "result" /\ Told(q)

CalmOf(r) ==
    /\ OnlyWriter(r) /\ TypedIsReported(r) /\ UndeliveredIsUntyped(r)
    /\ AbortedIsDeleted(r) /\ TypedIsOver(r)
    /\ r \notin deleting /\ rows[r].status = "cancelled" => typed[r] = 0

LEMMA CancelAccepted ==
    ASSUME NEW s \in Status
    PROVE  Accepts(s, "cancel") <=>
              s \in {"recording", "processing", "awaiting_cleanup_choice",
                     "awaiting_destination"}
BY DEF Accepts, Moves, Status, Dispatchable, Terminal

\* With no more than that a run that was typed is reported so.
LEMMA CalmFollows ==
    ASSUME TypeInvariant, TypeInvariant', ClaimInvariant, RouteInvariant,
           MarksInvariant, NEW q \in Runs, CalmOf(q), RowEvolves(q),
           Visible(q)' => Visible(q) \/ rows[q].status = "absent", KeepsCalm(q)
    PROVE  /\ UndeliveredIsUntyped(q)' /\ AbortedIsDeleted(q)' /\ TypedIsOver(q)'
           /\ q \notin deleting' /\ rows'[q].status = "cancelled" =>
                 typed'[q] = 0
<1>1. /\ rows[q] \in Row /\ rows'[q] \in Row
      /\ typed[q] \in Nat /\ typed'[q] \in Nat
    BY DEF TypeInvariant, TypeOK, StoreTypeOK, ProtocolTypeOK
<1>2. /\ rows[q].status = "absent" => typed[q] = 0
      /\ rows[q].status = "absent" => ~(Automatic(q) /\ op.at = "dispatch")
    BY DEF ClaimInvariant, NothingBeforeStart, Claimed, Automatic
<1>3. ASSUME Automatic(q), op.at = "dispatch"
      PROVE  /\ task[q].at \notin Working \cup {"failed"} /\ ~Requested(q)
             /\ q \in waiting => op.by = "tick"
             /\ rows[q].status # "cancelled"
    <2>1. CASE op.by = "auto"
        <3>1. task[q].at = "gate" /\ ~Requested(q) /\ q \notin waiting
            BY <1>3, <2>1
            DEF Automatic, RouteInvariant, RouteOf, OneCoroutine, WaitersRest,
                Underway
        <3>2. Present(q) => rows[q].status = "processing"
            BY <1>3, <3>1 DEF CalmOf, OnlyWriter
        <3>3. QED
            BY <3>1, <3>2
            DEF Present, Status, Dispatchable, Terminal, Working
    <2>2. CASE op.by = "tick"
        <3>1. ~Underway(q) /\ ~Requested(q)
            BY <1>3, <2>2, AtRest DEF Automatic
        <3>2. rows[q].status \in {"awaiting_destination", "deleted"}
            BY <1>3, <2>2 DEF Automatic, MarksInvariant, TickRow
        <3>3. QED
            BY <2>2, <3>1, <3>2 DEF Underway
    <2>3. QED
        BY <1>3, <2>1, <2>2 DEF Automatic
<1>4. UndeliveredIsUntyped(q)'
    <2>1. SUFFICES ASSUME \/ task'[q].at \in Working \cup {"failed"}
                          \/ Requested(q)'
                          \/ q \in waiting' /\ ~(op'.by = "tick" /\ op'.run = q)
                   PROVE  typed'[q] = 0
        BY DEF UndeliveredIsUntyped
    <2>2. typed[q] = 0
        <3>1. \/ task[q].at \in Working \cup {"failed"} \/ Requested(q)
              \/ q \in waiting /\ ~(op.by = "tick" /\ op.run = q)
              => typed[q] = 0
            BY DEF CalmOf, UndeliveredIsUntyped
        <3>2. ASSUME Automatic(q), op.at \in {"result", "applied"},
                     op.result \notin {"inserted", "uncertain", "none"}
              PROVE  typed[q] = 0
            BY <1>1, <3>2 DEF CalmOf, TypedIsReported, Automatic
        <3>3. QED
            BY <1>2, <2>1, <3>1, <3>2 DEF KeepsCalm
    <2>3. typed'[q] = typed[q]
        <3>1. SUFFICES ASSUME typed'[q] # typed[q] PROVE FALSE
            OBVIOUS
        <3>2. /\ Automatic(q) /\ op.at = "dispatch" /\ op'.run = q
              /\ op'.by = op.by
            BY <3>1 DEF KeepsCalm
        <3>3. task'[q].at \notin Working \cup {"failed"} /\ ~Requested(q)'
            BY <1>2, <1>3, <3>2 DEF KeepsCalm
        <3>4. q \in waiting' => op'.by = "tick"
            BY <1>3, <3>2 DEF KeepsCalm
        <3>5. QED
            BY <2>1, <3>2, <3>3, <3>4
    <2>4. QED
        BY <2>2, <2>3
<1>5. AbortedIsDeleted(q)'
    <2>1. rows[q].status = "deleted" => rows'[q].status = "deleted"
        BY DEF RowEvolves, Present, Status, Dispatchable, Terminal
    <2>2. QED
        BY <2>1 DEF CalmOf, AbortedIsDeleted, KeepsCalm
<1>6. /\ rows'[q].status = "deleted" => ~Visible(q)'
      /\ rows[q].status = "deleted" => ~Visible(q)
    BY DEF Visible, Present, Status, Dispatchable, Terminal
<1>7. ASSUME typed'[q] = typed[q], typed[q] > 0
      PROVE  /\ rows[q].status # "absent"
             /\ task[q].at \notin Working \cup {"failed"} /\ ~Requested(q)
             /\ Automatic(q) /\ op.at = "result" =>
                   op.result \in {"inserted", "uncertain"}
    BY <1>1, <1>2, <1>7
    DEF CalmOf, UndeliveredIsUntyped, TypedIsReported, Automatic
<1>8. TypedIsOver(q)'
    <2>1. SUFFICES ASSUME Visible(q)', q \notin deleting', typed'[q] > 0,
                          Accepts(rows'[q].status, "cancel")
                   PROVE  /\ op'.run = q /\ op'.by \in {"auto", "tick"}
                          /\ op'.at # "applied"
        BY DEF TypedIsOver
    <2>2. CASE typed'[q] # typed[q]
        BY <2>2 DEF KeepsCalm, Automatic
    <2>3. CASE typed'[q] = typed[q]
        <3>1. /\ rows[q].status # "absent" /\ Visible(q) /\ q \notin deleting
              /\ task[q].at \notin Working \cup {"failed"} /\ ~Requested(q)
            BY <1>6, <1>7, <2>1, <2>3 DEF KeepsCalm
        <3>2. rows'[q].status \in {"recording", "processing",
                         "awaiting_cleanup_choice", "awaiting_destination"}
            BY <2>1, CancelAccepted DEF Visible, Present
        <3>3. rows'[q].status = rows[q].status
            BY <1>7, <2>1, <2>3, <3>1, <3>2 DEF KeepsCalm, Written
        <3>4. Automatic(q) /\ op.at # "applied"
            BY <2>1, <2>3, <3>1, <3>3 DEF CalmOf, TypedIsOver, Automatic
        <3>5. q \notin aborted
            BY <1>6, <3>1 DEF CalmOf, AbortedIsDeleted
        <3>6. ~(op.at = "result" /\ Told(q))
            BY <1>7, <2>1, <2>3, <3>2, <3>4, <3>5 DEF Told
        <3>7. QED
            BY <3>4, <3>6 DEF KeepsCalm, Automatic
    <2>4. QED
        BY <2>2, <2>3
<1>9. ASSUME q \notin deleting', rows'[q].status = "cancelled"
      PROVE  typed'[q] = 0
    <2>1. q \notin deleting
        BY <1>9 DEF KeepsCalm
    <2>2. typed'[q] = typed[q]
        BY <1>3, <1>9 DEF KeepsCalm
    <2>3. CASE rows[q].status = "cancelled"
        BY <2>1, <2>2, <2>3 DEF CalmOf
    <2>4. CASE rows[q].status # "cancelled"
        <3>1. SUFFICES ASSUME typed[q] > 0 PROVE FALSE
            BY <1>1, <2>2
        <3>2. /\ Visible(q) /\ Accepts(rows[q].status, "cancel")
              /\ ~Automatic(q)
            BY <1>7, <1>9, <2>2, <2>4, <3>1 DEF KeepsCalm, Written
        <3>3. QED
            BY <2>1, <3>1, <3>2 DEF CalmOf, TypedIsOver, Automatic
    <2>5. QED
        BY <2>3, <2>4
<1>10. QED
    BY <1>4, <1>5, <1>8, <1>9

\* The requests of a run for an automatic delivery carry the version its
\* coroutine wrote.
LEMMA WriterByEntry ==
    ASSUME NEW q
    PROVE  OnlyWriter(q) <=>
       /\ task[q].at = "recording" /\ Present(q) => rows[q].status = "recording"
       /\ /\ task[q].at \in {"stt", "stored", "cleaning", "gate"} /\ Present(q)
          /\ ~(op.run = q /\ op.at = "applied")
          => rows[q].status = "processing"
       /\ /\ task[q].at \in {"stored", "cleaning", "gate"} /\ Present(q)
          /\ ~(op.run = q /\ op.at = "applied")
          => rows[q].version = task[q].version
       /\ \A e : Entry(e) /\ e.by = "auto" /\ e.run = q =>
             e.version = task[q].version
       /\ op.by = "auto" /\ op.run = q => op.version = task[q].version
BY DEF OnlyWriter, Entry

LEMMA WriterByEntryNext ==
    ASSUME NEW q
    PROVE  OnlyWriter(q)' <=>
       /\ task'[q].at = "recording" /\ Present(q)' =>
             rows'[q].status = "recording"
       /\ /\ task'[q].at \in {"stt", "stored", "cleaning", "gate"} /\ Present(q)'
          /\ ~(op'.run = q /\ op'.at = "applied")
          => rows'[q].status = "processing"
       /\ /\ task'[q].at \in {"stored", "cleaning", "gate"} /\ Present(q)'
          /\ ~(op'.run = q /\ op'.at = "applied")
          => rows'[q].version = task'[q].version
       /\ \A e : Entry(e)' /\ e.by = "auto" /\ e.run = q =>
             e.version = task'[q].version
       /\ op'.by = "auto" /\ op'.run = q => op'.version = task'[q].version
BY DEF OnlyWriter, Entry

\* A step that leaves the coroutine of q leaves the row it writes.
LEMMA StillWriter ==
    ASSUME NEW q, OnlyWriter(q), task'[q] = task[q],
           \/ rows'[q] = rows[q] \/ ~Present(q)'
           \/ task[q].at \notin {"recording", "stt", "stored", "cleaning", "gate"}
           \/ op'.run = q /\ op'.at = "applied",
           \A e : Entry(e)' /\ e.by = "auto" /\ e.run = q => Entry(e),
           \/ op' = op
           \/ /\ op.run = q /\ op.at = "applied" =>
                    op'.run = q /\ op'.at = "applied"
              /\ op'.run = q /\ op'.at = "applied" => task[q].at # "recording"
              /\ op'.by = "auto" /\ op'.run = q =>
                    op'.version = task[q].version,
           op.run = q /\ op.at = "applied" => task[q].at # "recording"
    PROVE  OnlyWriter(q)'
<1>1. rows'[q] = rows[q] => (Present(q)' <=> Present(q))
    BY DEF Present
<1>2. /\ op'.by = "auto" /\ op'.run = q => op'.version = task'[q].version
      /\ \A e : Entry(e)' /\ e.by = "auto" /\ e.run = q =>
            e.version = task'[q].version
    BY WriterByEntry
<1>3. task'[q].at = "recording" /\ Present(q)' => rows'[q].status = "recording"
    BY <1>1, WriterByEntry
<1>4. /\ task'[q].at \in {"stt", "stored", "cleaning", "gate"} /\ Present(q)'
      /\ ~(op'.run = q /\ op'.at = "applied")
      => /\ rows'[q].status = "processing"
         /\ task'[q].at # "stt" => rows'[q].version = task'[q].version
    BY <1>1, WriterByEntry
<1>5. QED
    BY <1>2, <1>3, <1>4, WriterByEntryNext

\* What the coroutine of r writes, and where it goes on.
WritesAndGoes(r) ==
    \/ /\ task[r].at # "gate" /\ task'[r].at \in {"closing", "failed", "done"}
       /\ task'[r].at = "failed" => task[r].at \in Working
       /\ queue' = queue
    \/ /\ task[r].at = "recording" /\ task'[r].at = "stt" /\ queue' = queue
       /\ rows'[r].status = "processing"
    \/ /\ task[r].at \in {"stt", "stored", "cleaning"} /\ Present(r)
       /\ task'[r].at \in {"stored", "cleaning", "gate"}
       /\ rows'[r].status = rows[r].status
       /\ task'[r].version = rows'[r].version
       /\ \/ queue' = queue
          \/ Enqueue("auto", r, rows'[r].version, FALSE)

LEMMA WorkGoes ==
    ASSUME TypeInvariant, NeverRecovered, NEW r \in Runs,
           Work(r) \/ EndRecording(r)
    PROVE  WritesAndGoes(r)
<1>1. /\ task \in [Runs -> Task] /\ rows \in [Runs -> Row] /\ rows[r] \in Row
      /\ task[r].kind = "process" /\ task[r].at # "start"
      /\ pend[r] = "none" /\ orphan[r] = "none" /\ task[r] \in Task
    BY DEF TypeInvariant, TypeOK, ControlTypeOK, StoreTypeOK, NeverRecovered
<1>2. ~UseOriginal(r) /\ ~RetryCleanup(r) /\ ~OrphanClose(r) /\ ~RecoverLaunch(r)
    BY <1>1 DEF UseOriginal, RetryCleanup, OrphanClose, RecoverLaunch, Proceeds
<1>3. ASSUME NEW at, Phase(r, at) PROVE task'[r].at = at
    BY <1>1, <1>3 DEF Phase, Task
<1>4. ASSUME NEW at, Reached(r, at)
      PROVE  task'[r].at = at /\ task'[r].version = rows'[r].version
    BY <1>1, <1>4 DEF Reached, Task
<1>5. ASSUME NEW row, Write(r, row), row.status = rows[r].status, row \in Row
      PROVE  rows'[r].status = rows[r].status
    BY <1>1, <1>5 DEF Write, Row
<1>6. CASE \/ TaskStops(r) \/ TaskCancels(r) \/ CleanupFails(r)
           \/ StaleWrite(r) \/ Failed(r) \/ Close(r) \/ NoSpeech(r)
    BY <1>3, <1>6
    DEF TaskStops, TaskCancels, CleanupFails, StaleWrite, Failed, Close,
        NoSpeech, Proceeds, closeRest, Working, WritesAndGoes
<1>7. CASE EndRecording(r)
    <2>1. CASE Phase(r, "failed")
        BY <1>3, <1>7, <2>1 DEF EndRecording, Proceeds, Working, WritesAndGoes
    <2>2. CASE /\ Accepts(rows[r].status, "stop") /\ Write(r, Moved(r, "stop"))
               /\ Reached(r, "stt")
        <3>1. Present(r)
            BY <1>7 DEF EndRecording, Proceeds, Visible
        <3>2. rows'[r].status = Moves[rows[r].status]["stop"]
            BY <2>2, <3>1, MovedRow DEF TypeInvariant, TypeOK
        <3>3. rows'[r].status = "processing"
            BY <2>2, <3>1, <3>2, EventMoves DEF Present
        <3>4. QED
            BY <1>4, <1>7, <2>2, <3>3
            DEF EndRecording, Proceeds, WritesAndGoes
    <2>3. QED
        BY <1>7, <2>1, <2>2 DEF EndRecording
<1>8. ASSUME NEW text \in Texts, NEW cleanup \in Cleanups
      PROVE  LET row == [rows[r] EXCEPT !.text = text, !.cleanup = cleanup]
             IN  row \in Row /\ row.status = rows[r].status
    BY <1>1 DEF Row
<1>9. CASE StoreText(r)
    <2>1. /\ task[r].at = "stt" /\ Present(r) /\ queue' = queue
          /\ \/ Write(r, [rows[r] EXCEPT !.text = "original",
                                         !.cleanup = "pending"])
             \/ Write(r, [rows[r] EXCEPT !.text = "original"])
          /\ Reached(r, "cleaning") \/ Reached(r, "stored")
        BY <1>9 DEF StoreText, Proceeds, Visible
    <2>2. rows'[r].status = rows[r].status
        BY <1>1, <2>1 DEF Write, Row
    <2>3. QED
        BY <1>4, <2>1, <2>2 DEF WritesAndGoes
<1>10. CASE SelectAdjusted(r) \/ CleanupSettles(r)
    <2>1. /\ task[r].at \in {"stored", "cleaning"} /\ Present(r)
          /\ \E cleanup \in {"off", "settled"} : Select(r, cleanup)
        BY <1>10 DEF SelectAdjusted, CleanupSettles, Proceeds, Visible
    <2>2. /\ \E cleanup : Write(r, [rows[r] EXCEPT !.text = "selected",
                                                   !.cleanup = cleanup])
          /\ Reached(r, "gate") /\ Enqueue("auto", r, rows'[r].version, FALSE)
        BY <2>1 DEF Select
    <2>3. rows'[r].status = rows[r].status
        BY <1>1, <2>2 DEF Write, Row
    <2>4. QED
        BY <1>4, <2>1, <2>2, <2>3 DEF WritesAndGoes
<1>11. QED
    BY <1>2, <1>6, <1>7, <1>9, <1>10 DEF Work

-----------------------------------------------------------------------------
(* Every step keeps to that. *)

StaysCalm(q) == KeepsCalm(q) /\ OnlyWriter(q)' /\ TypedIsReported(q)'

\* What a step that leaves the operation may do.
AsideCalm(q) ==
    /\ task'[q].at \in Working \cup {"failed"} =>
          task[q].at \in Working \cup {"failed"} \/ rows[q].status = "absent"
    /\ Requested(q)' => Requested(q) \/ task[q].at \in Working
    /\ q \in waiting' => q \in waiting
    /\ q \in aborted' => q \in aborted \/ q \in deleting' \/ q \in deferred
    /\ q \in deferred' => q \in deferred \/ rows'[q].status = "deleted"
    /\ q \in deleting => q \in deleting' \/ rows'[q].status = "deleted"

LEMMA AsideIsCalm ==
    ASSUME NEW q \in Runs, op' = op, typed' = typed, TypedIsReported(q),
           AsideCalm(q), Written(q), OnlyWriter(q)'
    PROVE  StaysCalm(q)
<1>1. TypedIsReported(q)'
    BY DEF TypedIsReported
<1>2. KeepsCalm(q)
    BY DEF KeepsCalm, AsideCalm, Automatic
<1>3. QED
    BY <1>1, <1>2 DEF StaysCalm

\* Nothing but the limits makes a call fail.
LEMMA NothingFails ==
    ASSUME StoreTypeOK, Undisturbed
    PROVE  ~Use("fault") /\ ~Use("crash")
BY DEF StoreTypeOK, Undisturbed, Use, Budgets

\* A finished operation is a run's automatic one.
LEMMA AppliedIsAutomatic ==
    ASSUME RouteInvariant, NEW q \in Runs, op.run = q, op.at = "applied"
    PROVE  op.by = "auto" /\ task[q].at = "gate"
BY DEF RouteInvariant, OperationRoute, RouteOf, OneCoroutine

LEMMA WorkIsCalm ==
    ASSUME TypeInvariant, RouteInvariant, NeverRecovered, NEW r \in Runs,
           Work(r) \/ EndRecording(r), NEW q \in Runs, CalmOf(q)
    PROVE  StaysCalm(q)
<1>1. Works(r, q) /\ WritesAndGoes(r)
    BY WorkShape, WorkGoes
<1>2. typed' = typed /\ deferred' = deferred /\ op' = op
    <2>1. deferred' = deferred
        BY DEF Work, TaskStops, TaskCancels, NoSpeech, StoreText,
               SelectAdjusted, UseOriginal, RetryCleanup, CleanupSettles,
               CleanupFails, StaleWrite, Failed, Close, OrphanClose,
               RecoverLaunch, EndRecording, Select, workRest, closeRest, store
    <2>2. QED
        BY <2>1, RunStepShape DEF User
<1>3. queue \in Seq(Request)
    BY DEF TypeInvariant, TypeOK, ControlTypeOK
<1>4. \A e : Entry(e)' =>
         \/ Entry(e)
         \/ /\ e.by = "auto" /\ e.run = r /\ e.version = task'[r].version
            /\ task[r].at \in {"stt", "stored", "cleaning"}
    <2>1. CASE queue' = queue
        BY <2>1 DEF Entry
    <2>2. ASSUME NEW version, version = task'[r].version,
                 task[r].at \in {"stt", "stored", "cleaning"},
                 Enqueue("auto", r, version, FALSE)
          PROVE  \A e : Entry(e)' =>
                    \/ Entry(e)
                    \/ /\ e.by = "auto" /\ e.run = r
                       /\ e.version = task'[r].version
        BY <1>3, <2>2, AddedEntry
    <2>3. QED
        BY <1>1, <2>1, <2>2 DEF WritesAndGoes
<1>5. Requested(q)' => Requested(q) \/ task[q].at \in Working
    <2>1. /\ Requested(q)' <=> \E e : Entry(e)' /\ e.by = "auto" /\ e.run = q
          /\ Requested(q) <=> \E e : Entry(e) /\ e.by = "auto" /\ e.run = q
        BY DEF Requested, Entry
    <2>2. QED
        BY <1>4, <2>1 DEF Working
<1>6. OnlyWriter(q) /\ TypedIsReported(q)
    BY DEF CalmOf
<1>7. OnlyWriter(q)'
    <2>1. CASE q # r
        <3>1. /\ \A e : Entry(e)' /\ e.by = "auto" /\ e.run = q => Entry(e)
              /\ task'[q] = task[q] /\ rows'[q] = rows[q]
            BY <1>1, <1>4, <2>1 DEF Works
        <3>2. op.run = q /\ op.at = "applied" => task[q].at # "recording"
            BY AppliedIsAutomatic
        <3>3. QED
            BY <1>2, <1>6, <3>1, <3>2, StillWriter
    <2>2. CASE q = r
        <3>1. task[r].at # "gate"
            BY <1>1 DEF WritesAndGoes
        <3>2. /\ \A e : Entry(e) => ~(e.by = "auto" /\ e.run = r)
              /\ ~(op.by = "auto" /\ op.run = r)
              /\ ~(op.run = r /\ op.at = "applied")
            BY <3>1, AppliedIsAutomatic
            DEF Entry, RouteInvariant, RouteOf, OneCoroutine, Requested
        <3>3. \A e : Entry(e)' /\ e.by = "auto" /\ e.run = r =>
                 e.version = task'[r].version
            BY <1>4, <3>2
        <3>4. CASE task'[r].at \in {"closing", "failed", "done"}
            BY <1>2, <2>2, <3>2, <3>3, <3>4, WriterByEntryNext
        <3>5. CASE task'[r].at = "stt" /\ rows'[r].status = "processing"
            BY <1>2, <2>2, <3>2, <3>3, <3>5, WriterByEntryNext
        <3>6. CASE /\ task[r].at \in {"stt", "stored", "cleaning"} /\ Present(r)
                   /\ task'[r].at \in {"stored", "cleaning", "gate"}
                   /\ rows'[r].status = rows[r].status
                   /\ task'[r].version = rows'[r].version
            <4>1. rows'[r].status = "processing"
                BY <1>6, <2>2, <3>2, <3>6 DEF OnlyWriter
            <4>2. QED
                BY <1>2, <2>2, <3>2, <3>3, <3>6, <4>1, WriterByEntryNext
        <3>7. QED
            BY <1>1, <3>4, <3>5, <3>6 DEF WritesAndGoes
    <2>3. QED
        BY <2>1, <2>2
<1>8. AsideCalm(q) /\ Written(q)
    <2>1. task'[q].at \in Working \cup {"failed"} =>
             task[q].at \in Working \cup {"failed"}
        BY <1>1 DEF Works, WritesAndGoes, Working
    <2>2. QED
        BY <1>1, <1>2, <1>5, <2>1 DEF Works, AsideCalm, Written
<1>9. QED
    BY <1>2, <1>6, <1>7, <1>8, AsideIsCalm

\* A new run.
LEMMA StartIsCalm ==
    ASSUME TypeInvariant, RouteInvariant, NEW r \in Runs, Start(r),
           NEW q \in Runs, CalmOf(q)
    PROVE  StaysCalm(q)
<1>1. /\ UNCHANGED <<op, typed, queue, attempts, aged, aborted, waiting,
                     deferred, deleting>>
      /\ rows[r].status = "absent"
      /\ q # r => task'[q] = task[q] /\ rows'[q] = rows[q]
      /\ task'[r].at = "recording" /\ rows'[r].status = "recording"
    BY DEF Start, CreateRow, protocol, TypeInvariant, TypeOK, ControlTypeOK,
           StoreTypeOK
<1>2. OnlyWriter(q) /\ TypedIsReported(q)
    BY DEF CalmOf
<1>3. (\A e : Entry(e)' <=> Entry(e)) /\ (Requested(q)' <=> Requested(q))
    BY <1>1 DEF Entry, Requested
<1>4. OnlyWriter(q)'
    <2>1. CASE q # r
        <3>1. op.run = q /\ op.at = "applied" => task[q].at # "recording"
            BY AppliedIsAutomatic
        <3>2. QED
            BY <1>1, <1>2, <1>3, <2>1, <3>1, StillWriter
    <2>2. CASE q = r
        <3>1. Untouched(r)
            BY <1>1
            DEF RouteInvariant, RouteOf, ChoosingIsSafe, Unchosen
        <3>2. /\ \A e : Entry(e) => ~(e.by = "auto" /\ e.run = r)
              /\ ~(op.by = "auto" /\ op.run = r)
            BY <3>1 DEF Untouched, Requested, Delivering, Entry
        <3>3. QED
            BY <1>1, <1>3, <2>2, <3>2, WriterByEntryNext
    <2>3. QED
        BY <2>1, <2>2
<1>5. AsideCalm(q) /\ Written(q)
    BY <1>1, <1>3 DEF AsideCalm, Written
<1>6. QED
    BY <1>1, <1>2, <1>4, <1>5, AsideIsCalm

\* A cancel and the tick ask for the gate.
LEMMA RequestIsCalm ==
    ASSUME TypeInvariant, RouteInvariant,
           TickDue \/ \E r \in Runs : Cancel(r),
           NEW q \in Runs, CalmOf(q)
    PROVE  StaysCalm(q)
<1>1. /\ UNCHANGED <<op, typed, rows, task, aborted, deferred, deleting>>
      /\ waiting' \subseteq waiting
      /\ \/ queue' = queue
         \/ \E by \in {"tick", "cancel"} : \E r : Enqueue(by, r, 0, FALSE)
    BY DEF TickDue, Cancel, store, protocol
<1>2. OnlyWriter(q) /\ TypedIsReported(q)
    BY DEF CalmOf
<1>3. \A e : Entry(e)' /\ e.by = "auto" => Entry(e)
    <2>1. queue \in Seq(Request)
        BY DEF TypeInvariant, TypeOK, ControlTypeOK
    <2>2. CASE queue' = queue
        BY <2>2 DEF Entry
    <2>3. ASSUME NEW by \in {"tick", "cancel"}, NEW r, Enqueue(by, r, 0, FALSE)
          PROVE  \A e : Entry(e)' /\ e.by = "auto" => Entry(e)
        BY <2>1, <2>3, AddedEntry
    <2>4. QED
        BY <1>1, <2>2, <2>3
<1>4. Requested(q)' => Requested(q)
    <2>1. /\ Requested(q)' <=> \E e : Entry(e)' /\ e.by = "auto" /\ e.run = q
          /\ Requested(q) <=> \E e : Entry(e) /\ e.by = "auto" /\ e.run = q
        BY DEF Requested, Entry
    <2>2. QED
        BY <1>3, <2>1
<1>5. OnlyWriter(q)'
    <2>1. op.run = q /\ op.at = "applied" => task[q].at # "recording"
        BY AppliedIsAutomatic
    <2>2. QED
        BY <1>1, <1>2, <1>3, <2>1, StillWriter
<1>6. AsideCalm(q) /\ Written(q)
    BY <1>1, <1>4 DEF AsideCalm, Written
<1>7. QED
    BY <1>1, <1>2, <1>5, <1>6, AsideIsCalm

\* The deletions, and the age and the wait limit of a run.
LEMMA RemovalIsCalm ==
    ASSUME TypeInvariant, RouteInvariant, Undisturbed, NEW r \in Runs,
           \/ Delete(r) \/ RemoveRow(r) \/ Expire(r) \/ Age(r) \/ Retire(r)
           \/ Evicted(r) \/ WaitLimit(r),
           NEW q \in Runs, CalmOf(q)
    PROVE  StaysCalm(q)
<1>1. /\ UNCHANGED <<op, typed, queue, task>> /\ waiting' \subseteq waiting
    BY DEF Delete, RemoveRow, Expire, Age, Retire, Evicted, WaitLimit,
           Abort, abortRest, protocol
<1>2. /\ rows' = rows \/ DeleteRow(r)
      /\ \/ deferred' \subseteq deferred
         \/ deferred' = deferred \cup {r} /\ DeleteRow(r)
      /\ \/ aborted' = aborted
         \/ aborted' = aborted \cup {r} /\ (r \in deleting' \/ r \in deferred)
      /\ \/ \A s \in deleting : s \in deleting'
         \/ deleting' = deleting \ {r} /\ DeleteRow(r)
    <2>1. ~Use("fault")
        BY NothingFails DEF TypeInvariant, TypeOK
    <2>2. CASE Delete(r) \/ Evicted(r)
        BY <2>2 DEF Delete, Evicted, Abort, store
    <2>3. CASE RemoveRow(r)
        BY <2>1, <2>3 DEF RemoveRow
    <2>4. CASE Expire(r) \/ Age(r) \/ Retire(r) \/ WaitLimit(r)
        BY <2>4 DEF Expire, Age, Retire, WaitLimit, RetentionDelete, store
    <2>5. QED
        BY <2>2, <2>3, <2>4
<1>3. DeleteRow(r) => /\ rows'[r].status = "deleted"
                      /\ q # r => rows'[q] = rows[q]
    BY DEF DeleteRow, Tombstone, TypeInvariant, TypeOK, StoreTypeOK
<1>4. OnlyWriter(q) /\ TypedIsReported(q)
    BY DEF CalmOf
<1>5. OnlyWriter(q)'
    <2>1. rows'[q] = rows[q] \/ ~Present(q)'
        BY <1>2, <1>3 DEF Present, Status, Dispatchable, Terminal
    <2>2. op.run = q /\ op.at = "applied" => task[q].at # "recording"
        BY AppliedIsAutomatic
    <2>3. \A e : Entry(e)' => Entry(e)
        BY <1>1 DEF Entry
    <2>4. QED
        BY <1>1, <1>4, <2>1, <2>2, <2>3, StillWriter
<1>6. AsideCalm(q) /\ Written(q)
    <2>1. Requested(q)' <=> Requested(q)
        BY <1>1 DEF Requested
    <2>2. QED
        BY <1>1, <1>2, <1>3, <2>1 DEF AsideCalm, Written
<1>7. QED
    BY <1>1, <1>4, <1>5, <1>6, AsideIsCalm

\* The gate is granted to the coroutine of a run.
LEMMA AutoStartIsCalm ==
    ASSUME TypeInvariant, RouteInvariant, AutoStart, NEW q \in Runs, CalmOf(q)
    PROVE  StaysCalm(q)
<1> DEFINE r == Head(queue).run
<1>1. /\ UNCHANGED <<typed, aborted, waiting, deferred, deleting>>
      /\ Granted("auto")
    BY DEF AutoStart, gateRest
<1>2. /\ op = Idle /\ Requested(r) /\ r \in Runs
      /\ \A s : Requested(s)' => Requested(s) /\ s # r
    BY <1>1, GrantedQueue, GrantedType DEF TypeInvariant, TypeOK, Callers
<1>3. /\ queue \in Seq(Request) /\ task \in [Runs -> Task]
      /\ rows \in [Runs -> Row] /\ typed \in [Runs -> Nat]
    BY DEF TypeInvariant, TypeOK, ControlTypeOK, StoreTypeOK, ProtocolTypeOK
<1>4. /\ \A e : Entry(e)' => Entry(e)
      /\ Entry(Head(queue)) /\ Head(queue).by = "auto"
      /\ \A e : Entry(e)' /\ e.by = "auto" => e.run # r
    <2>1. \A e : Entry(e)' /\ e.by = "auto" => Requested(e.run)'
        BY DEF Entry, Requested
    <2>2. QED
        BY <1>1, <1>2, <1>3, <2>1, TailEntries DEF Granted
<1>5. \/ op' = Idle /\ Phase(r, "closing")
      \/ /\ op'.by = "auto" /\ op'.run = r /\ op'.at = "verify"
         /\ op'.version = Head(queue).version /\ task' = task /\ rows' = rows
    <2>1. \/ op' = Idle /\ Phase(r, "closing")
          \/ op' # Idle /\ task' = task /\ rows' = rows
        <3>1. Opened("verify").by # Idle.by
            <4>1. Opened("verify").by = "auto"
                BY <1>1, OpenedFields
            <4>2. Idle.by = "none"
                BY DEF Idle
            <4>3. QED
                BY <4>1, <4>2
        <3>2. QED
            BY <3>1 DEF AutoStart, Release
    <2>2. QED
        BY <2>1, OpAfter DEF TypeInvariant
<1>6. q # r => task'[q] = task[q] /\ rows'[q] = rows[q]
    BY <1>1, <1>3, <1>5 DEF AutoStart, Phase, Write
<1>7. ~(op.run = q) /\ op.by = "none"
    BY <1>2, RunsAssumption DEF Idle
<1>8. OnlyWriter(q) /\ UndeliveredIsUntyped(q)
    BY DEF CalmOf
<1>9. OnlyWriter(q)'
    <2>1. CASE op' = Idle /\ Phase(r, "closing") /\ q = r
        <3>1. task'[r].at = "closing"
            BY <1>2, <1>3, <2>1 DEF Phase, Task
        <3>2. op'.by = "none"
            BY <2>1 DEF Idle
        <3>3. QED
            BY <1>4, <2>1, <3>1, <3>2, WriterByEntryNext
    <2>2. CASE op' = Idle /\ q # r
        <3>1. op'.run # q /\ op'.by = "none"
            BY <2>2, RunsAssumption DEF Idle
        <3>2. QED
            BY <1>4, <1>6, <1>7, <1>8, <2>2, <3>1, StillWriter
    <2>3. CASE /\ op'.by = "auto" /\ op'.run = r /\ op'.at = "verify"
               /\ op'.version = Head(queue).version
               /\ task' = task /\ rows' = rows
        <3>1. op'.run = q => op'.version = task[q].version
            BY <1>4, <1>8, <2>3, WriterByEntry
        <3>2. QED
            BY <1>4, <1>7, <1>8, <2>3, <3>1, StillWriter
    <2>4. QED
        BY <1>5, <2>1, <2>2, <2>3
<1>10. TypedIsReported(q)'
    <2>1. SUFFICES ASSUME op'.run = q, op'.by \in {"auto", "tick"}
                   PROVE  typed[q] = 0
        BY <1>1, <1>3 DEF TypedIsReported
    <2>2. q = r
        BY <1>5, <2>1 DEF Idle
    <2>3. QED
        BY <1>2, <1>8, <2>2 DEF UndeliveredIsUntyped
<1>11. KeepsCalm(q)
    <2>1. task'[q].at \in Working \cup {"failed"} =>
             task[q].at \in Working \cup {"failed"}
        BY <1>2, <1>3, <1>5, <1>6 DEF Phase, Task, Working
    <2>2. Written(q)
        BY <1>2, <1>6 DEF Written
    <2>3. QED
        BY <1>1, <1>2, <1>7, <2>1, <2>2 DEF KeepsCalm, Automatic
<1>12. QED
    BY <1>9, <1>10, <1>11 DEF StaysCalm

\* A text that reached the field is told so.
LEMMA AppliedTells ==
    ASSUME StoreTypeOK, NEW r \in Runs, Present(r),
           NEW result \in {"inserted", "uncertain"}, Write(r, Applied(r, result))
    PROVE  rows'[r].status \in {"done", "uncertain"}
<1>1. rows[r] \in Row /\ rows \in [Runs -> Row]
    BY DEF StoreTypeOK
<1>2. Applied(r, result) = [rows[r] EXCEPT !.status = OutcomeMove[result]]
    BY DEF Applied, DispatchResults
<1>3. /\ OutcomeMove[result] \in {"done", "uncertain"}
      /\ Applied(r, result).status = OutcomeMove[result]
    BY <1>1, <1>2 DEF OutcomeMove, Row
<1>4. [Applied(r, result) EXCEPT !.version = rows[r].version + 1].status
      = Applied(r, result).status
    BY <1>1, <1>2 DEF Row
<1>5. rows'[r] = [Applied(r, result) EXCEPT !.version = rows[r].version + 1]
    BY <1>1 DEF Write
<1>6. QED
    BY <1>3, <1>4, <1>5

\* A run in processing, and one that waits, takes every result but one that
\* leaves it where it is.
LEMMA TakesResult ==
    ASSUME NEW s \in {"processing", "awaiting_destination"},
           NEW result \in Results \ {"none", "abandoned", "duplicate"},
           result = "awaiting" => s = "processing"
    PROVE  Applies(s, result)
BY DEF Applies, Accepts, Moves, EventOf, Results, DispatchResults

\* The result is written to the row its coroutine wrote last.
LEMMA AutoApplyIsCalm ==
    ASSUME TypeInvariant, RouteInvariant, Undisturbed, ResultIsKnown,
           AutoApply, NEW q \in Runs, CalmOf(q), CalmOf(op.run)
    PROVE  StaysCalm(q)
<1>1. PICK r \in Runs :
         /\ r = op.run /\ op \in Operation
         /\ UNCHANGED <<typed, aborted, waiting, deferred, deleting, queue,
                        attempts, aged>>
         /\ op.by = "auto" /\ op.at = "result" /\ op.result # "none"
    BY BusyType
    DEF AutoApply, gateRest, ResultIsKnown, TypeInvariant, TypeOK
<1>2. /\ task \in [Runs -> Task] /\ rows \in [Runs -> Row]
      /\ typed \in [Runs -> Nat] /\ ~Use("fault")
    BY NothingFails
    DEF TypeInvariant, TypeOK, ControlTypeOK, StoreTypeOK, ProtocolTypeOK
<1>3. task[r].at = "gate" /\ ~Requested(r)
    BY <1>1 DEF RouteInvariant, RouteOf, OneCoroutine
<1>4. ASSUME Visible(r)
      PROVE  rows[r].status = "processing" /\ rows[r].version = op.version
    BY <1>1, <1>3, <1>4 DEF CalmOf, OnlyWriter, Visible
<1>5. op.result \in {"abandoned", "duplicate"} \/ Applies("processing", op.result)
    BY <1>1, TakesResult DEF Operation
<1>6. \/ /\ op' # Idle /\ task' = task
         /\ \/ /\ r \in aborted \/ op.result \in {"abandoned", "duplicate"}
               /\ rows' = rows
            \/ /\ Present(r)
               /\ \E n \in Nat :
                     \/ Write(r, Applied(r, op.result))
                     \/ /\ op.result = "awaiting"
                        /\ Write(r, [Applied(r, op.result) EXCEPT !.since = n])
      \/ /\ op' = Idle /\ Phase(r, "closing") /\ ~Visible(r) /\ rows' = rows
    <2>1. [op EXCEPT !.at = "applied"] # Idle
          /\ [op EXCEPT !.at = "applied", !.result = "none"] # Idle
        BY <1>1 DEF Idle, Operation
    <2>2. \A s \in Runs : rows[s].since + 1 \in Nat
        BY <1>2 DEF Row
    <2>3. QED
        BY <1>1, <1>2, <1>4, <1>5, <2>1, <2>2
        DEF AutoApply, Release, NextSince, Visible
<1>7. op' # Idle =>
         /\ op'.by = "auto" /\ op'.run = r /\ op'.at = "applied"
         /\ op'.result \in {op.result, "none"} /\ op'.version = op.version
    BY <1>1, OpAfter DEF TypeInvariant
<1>8. q # r => task'[q] = task[q] /\ rows'[q] = rows[q]
    BY <1>2, <1>6 DEF Phase, Write
<1>9. Visible(r)' /\ r \notin aborted
      /\ op.result \in {"inserted", "uncertain"} =>
         rows'[r].status \in {"done", "uncertain"}
    <2>1. rows' = rows => (Visible(r)' <=> Visible(r))
        BY <1>1 DEF Visible, Present, HasAttempt
    <2>2. QED
        BY <1>1, <1>6, <2>1, AppliedTells DEF TypeInvariant, TypeOK
<1>10. (\A e : Entry(e)' <=> Entry(e)) /\ (Requested(q)' <=> Requested(q))
    BY <1>1 DEF Entry, Requested
<1>11. OnlyWriter(q) /\ TypedIsReported(q)
    BY DEF CalmOf
<1>12. OnlyWriter(q)'
    <2>1. CASE op' # Idle
        <3>1. op'.version = task[r].version
            BY <1>1, <1>7, <2>1 DEF CalmOf, OnlyWriter
        <3>2. task'[q] = task[q]
            BY <1>6, <2>1
        <3>3. QED
            BY <1>1, <1>3, <1>7, <1>8, <1>10, <1>11, <2>1, <3>1, <3>2,
               StillWriter
    <2>2. CASE op' = Idle
        <3>1. op'.by = "none" /\ op'.run # q
            BY <2>2, RunsAssumption DEF Idle
        <3>2. CASE q # r
            BY <1>1, <1>8, <1>10, <1>11, <3>1, <3>2, StillWriter
        <3>3. CASE q = r
            <4>1. task'[q].at = "closing"
                BY <1>2, <1>6, <2>2, <3>3 DEF Phase, Task
            <4>2. \A e : Entry(e) => ~(e.by = "auto" /\ e.run = q)
                BY <1>3, <3>3 DEF Entry, Requested
            <4>3. QED
                BY <1>10, <3>1, <4>1, <4>2, WriterByEntryNext
        <3>4. QED
            BY <3>2, <3>3
    <2>3. QED
        BY <2>1, <2>2
<1>13. TypedIsReported(q)'
    <2>1. SUFFICES ASSUME op'.run = q, op'.by \in {"auto", "tick"},
                          typed[q] > 0
                   PROVE  /\ op'.at = "applied"
                          /\ op'.result \in {"inserted", "uncertain", "none"}
        BY <1>1 DEF TypedIsReported
    <2>2. op' # Idle
        BY <2>1 DEF Idle
    <2>3. QED
        BY <1>1, <1>7, <1>11, <2>1, <2>2 DEF TypedIsReported
<1>14. KeepsCalm(q)
    <2>1. task'[q].at \in Working \cup {"failed"} =>
             task[q].at \in Working \cup {"failed"}
        BY <1>1, <1>2, <1>6, <1>8 DEF Phase, Task, Working
    <2>2. Written(q)
        <3>1. q = r /\ op.result \in {"inserted", "uncertain"} =>
                 rows'[q].status \in {rows[q].status, "done", "uncertain"}
            BY <1>1, <1>6, AppliedTells DEF TypeInvariant, TypeOK
        <3>2. QED
            BY <1>1, <1>8, <3>1 DEF Written, Automatic
    <2>3. Automatic(q) => op.at = "result" /\ Told(q)
        BY <1>1, <1>9 DEF Automatic, Told
    <2>4. QED
        BY <1>1, <1>10, <2>1, <2>2, <2>3 DEF KeepsCalm
<1>15. QED
    BY <1>12, <1>13, <1>14 DEF StaysCalm

\* Back from that write, the run may be made to wait.
LEMMA AutoSettleIsCalm ==
    ASSUME TypeInvariant, RouteInvariant, NeverRecovered, AutoSettle,
           NEW q \in Runs, CalmOf(q)
    PROVE  StaysCalm(q)
<1>1. PICK r \in Runs :
         /\ r = op.run /\ op \in Operation
         /\ UNCHANGED <<rows, typed, aborted, deferred, deleting, queue>>
         /\ op.by = "auto" /\ op.at = "applied" /\ op' = Idle
         /\ waiting' = IF op.result = "awaiting" /\ r \notin aborted
                       THEN waiting \cup {r} ELSE waiting
         /\ Phase(r, "closing")
    <2>1. op \in Operation /\ op.run \in Runs
        BY BusyType DEF AutoSettle, TypeInvariant, TypeOK
    <2>2. task[op.run].kind = "process"
        BY <2>1 DEF NeverRecovered
    <2>3. QED
        BY <2>1, <2>2 DEF AutoSettle, gateRest, Release, RecoveryKinds
<1>2. task \in [Runs -> Task]
    BY DEF TypeInvariant, TypeOK, ControlTypeOK
<1>3. ~Requested(r)
    BY <1>1 DEF RouteInvariant, RouteOf, OneCoroutine
<1>4. op'.run # q /\ op'.by = "none"
    BY <1>1, RunsAssumption DEF Idle
<1>5. /\ q # r => task'[q] = task[q]
      /\ task'[r].at = "closing"
    BY <1>1, <1>2 DEF Phase, Task
<1>6. (\A e : Entry(e)' <=> Entry(e)) /\ (Requested(q)' <=> Requested(q))
    BY <1>1 DEF Entry, Requested
<1>7. OnlyWriter(q)
    BY DEF CalmOf
<1>8. OnlyWriter(q)'
    <2>1. CASE q # r
        BY <1>1, <1>4, <1>5, <1>6, <1>7, <2>1, StillWriter
    <2>2. CASE q = r
        <3>1. \A e : Entry(e) => ~(e.by = "auto" /\ e.run = q)
            BY <1>3, <2>2 DEF Entry, Requested
        <3>2. QED
            BY <1>4, <1>5, <1>6, <2>2, <3>1, WriterByEntryNext
    <2>3. QED
        BY <2>1, <2>2
<1>9. TypedIsReported(q)'
    BY <1>4 DEF TypedIsReported
<1>10. KeepsCalm(q)
    <2>1. task'[q].at \in Working \cup {"failed"} =>
             task[q].at \in Working \cup {"failed"}
        BY <1>5 DEF Working
    <2>2. q \in waiting' /\ q \notin waiting =>
             op.run = q /\ op.result = "awaiting"
        BY <1>1
    <2>3. QED
        BY <1>1, <1>6, <2>1, <2>2 DEF KeepsCalm, Written, Automatic
<1>11. QED
    BY <1>8, <1>9, <1>10 DEF StaysCalm

\* A tick, and a cancel, that begins.
LEMMA BeginningIsCalm ==
    ASSUME TypeInvariant, RouteInvariant, TickStart \/ CancelStart,
           NEW q \in Runs, CalmOf(q)
    PROVE  StaysCalm(q)
<1>1. /\ UNCHANGED <<rows, task, typed, aborted, deferred, deleting>>
      /\ waiting' \subseteq waiting
      /\ \E by \in {"tick", "cancel"} : Granted(by)
    BY DEF TickStart, CancelStart, tickRest, cancelRest, gateRest
<1>2. /\ op = Idle /\ \A s : Requested(s)' => Requested(s)
      /\ \A e : Entry(e)' => Entry(e)
    BY <1>1, GrantedQueue, TailEntries
    DEF Granted, TypeInvariant, TypeOK, ControlTypeOK
<1>3. /\ op'.by \in {"none", "tick", "cancel"} /\ op'.at # "applied"
      /\ op'.by = "tick" => op'.run \in waiting
    <2>1. CASE TickStart
        <3>1. \/ op' = Idle
              \/ \E r \in waiting : /\ op'.by = "tick" /\ op'.run = r
                                    /\ op'.at \in {"look", "result"}
            BY <2>1, TickBegins
        <3>2. QED
            BY <3>1 DEF Idle
    <2>2. CASE CancelStart
        <3>1. op' = Idle \/ (op'.by = "cancel" /\ op'.at = "cancel_write")
            BY <2>2, OpAfter DEF TypeInvariant
        <3>2. QED
            BY <3>1 DEF Idle
    <2>3. QED
        BY <2>1, <2>2
<1>4. op.run # q /\ op.by = "none"
    BY <1>2, RunsAssumption DEF Idle
<1>5. OnlyWriter(q) /\ UndeliveredIsUntyped(q)
    BY DEF CalmOf
<1>6. OnlyWriter(q)'
    BY <1>1, <1>2, <1>3, <1>4, <1>5, StillWriter
<1>7. TypedIsReported(q)'
    <2>1. SUFFICES ASSUME op'.run = q, op'.by = "tick", typed[q] > 0
                   PROVE  FALSE
        BY <1>1, <1>3 DEF TypedIsReported
    <2>2. typed[q] = 0
        BY <1>3, <1>4, <1>5, <2>1 DEF UndeliveredIsUntyped
    <2>3. QED
        BY <2>1, <2>2
<1>8. KeepsCalm(q)
    BY <1>1, <1>2, <1>4 DEF KeepsCalm, Written, Automatic
<1>9. QED
    BY <1>6, <1>7, <1>8 DEF StaysCalm

\* The result of a tick is written to a run that awaits its destination, or
\* that has gone.
LEMMA TickApplyIsCalm ==
    ASSUME TypeInvariant, RouteInvariant, MarksInvariant, Undisturbed,
           ResultIsKnown, TickApply, NEW q \in Runs, CalmOf(q)
    PROVE  StaysCalm(q)
<1>1. PICK r \in Runs :
         /\ r = op.run /\ op \in Operation
         /\ UNCHANGED <<typed, aborted, deferred, deleting, queue, attempts,
                        aged, task>>
         /\ op.by = "tick" /\ op.at = "result" /\ op.result # "none"
         /\ op' = Idle
    BY BusyType
    DEF TickApply, tickRest, ResultIsKnown, TypeInvariant, TypeOK, Release
<1>2. rows \in [Runs -> Row] /\ ~Use("fault")
    BY NothingFails DEF TypeInvariant, TypeOK, StoreTypeOK
<1>3. Visible(r) => rows[r].status = "awaiting_destination"
    BY <1>1
    DEF MarksInvariant, TickRow, Visible, Present, Status, Dispatchable, Terminal
<1>4. op.result \in Decisive => Applies("awaiting_destination", op.result)
    BY TakesResult DEF Decisive, DispatchResults, Results
<1>5. /\ \/ op.result = "awaiting" /\ waiting' = waiting
         \/ waiting' = waiting \ {r}
      /\ \/ rows' = rows /\ ~(/\ op.result \in {"inserted", "uncertain"}
                             /\ Visible(r) /\ r \notin aborted)
         \/ Present(r) /\ Write(r, Applied(r, op.result))
    BY <1>1, <1>2, <1>3, <1>4
    DEF TickApply, Visible, Decisive, DispatchResults
<1>6. op'.run # q /\ op'.by = "none"
    BY <1>1, RunsAssumption DEF Idle
<1>7. q # r => rows'[q] = rows[q]
    BY <1>2, <1>5 DEF Write
<1>8. Visible(r)' /\ r \notin aborted
      /\ op.result \in {"inserted", "uncertain"} =>
         rows'[r].status \in {"done", "uncertain"}
    <2>1. rows' = rows => (Visible(r)' <=> Visible(r))
        BY <1>1 DEF Visible, Present, HasAttempt
    <2>2. QED
        BY <1>5, <2>1, AppliedTells DEF TypeInvariant, TypeOK
<1>9. (\A e : Entry(e)' <=> Entry(e)) /\ (Requested(q)' <=> Requested(q))
    BY <1>1 DEF Entry, Requested
<1>10. OnlyWriter(q)
    BY DEF CalmOf
<1>11. OnlyWriter(q)'
    <2>1. task[r].at \notin {"recording", "stt", "stored", "cleaning", "gate"}
        <3>1. ~Underway(r)
            BY <1>1, AtRest
        <3>2. QED
            BY <3>1 DEF Underway, Working
    <2>2. QED
        BY <1>1, <1>6, <1>7, <1>9, <1>10, <2>1, StillWriter
<1>12. TypedIsReported(q)'
    BY <1>6 DEF TypedIsReported
<1>13. KeepsCalm(q)
    <2>1. Written(q)
        <3>1. op.result \in {"inserted", "uncertain"} =>
                 rows'[r].status \in {rows[r].status, "done", "uncertain"}
            BY <1>5, AppliedTells DEF TypeInvariant, TypeOK
        <3>2. QED
            BY <1>1, <1>7, <3>1 DEF Written, Automatic
    <2>2. Automatic(q) => op.at = "result" /\ Told(q)
        BY <1>1, <1>8 DEF Automatic, Told
    <2>3. q \in waiting' =>
             q \in waiting /\ (q = r => op.result = "awaiting")
        BY <1>5
    <2>4. QED
        BY <1>1, <1>9, <2>1, <2>2, <2>3 DEF KeepsCalm, Automatic
<1>14. QED
    BY <1>11, <1>12, <1>13 DEF StaysCalm

\* A cancel is written to the row it read.
LEMMA CancelWriteIsCalm ==
    ASSUME TypeInvariant, RouteInvariant, MarksInvariant, CancelWrite,
           NEW q \in Runs, CalmOf(q)
    PROVE  StaysCalm(q)
<1>1. PICK r \in Runs :
         /\ r = op.run /\ op.by = "cancel" /\ op.at = "cancel_write"
         /\ UNCHANGED <<typed, aborted, waiting, deferred, deleting, queue,
                        task>>
         /\ op' = Idle
    <2>1. op \in Operation /\ op.run \in Runs /\ op.at = "cancel_write"
        BY BusyType DEF CancelWrite, TypeInvariant, TypeOK
    <2>2. op.by = "cancel"
        BY <2>1 DEF RouteInvariant, OperationRoute
    <2>3. QED
        BY <2>1, <2>2 DEF CancelWrite, cancelRest, gateRest, Release
<1>2. rows \in [Runs -> Row]
    BY DEF TypeInvariant, TypeOK, StoreTypeOK
<1>3. \/ rows' = rows
      \/ /\ Visible(r) /\ Accepts(rows[r].status, "cancel")
         /\ Write(r, Ended(Moved(r, "cancel")))
    BY <1>1 DEF CancelWrite, CancelRead, TypeInvariant, Visible
<1>4. /\ q # r => rows'[q] = rows[q]
      /\ \/ rows'[r] = rows[r]
         \/ /\ rows'[r].status = "cancelled"
            /\ Visible(r) /\ Accepts(rows[r].status, "cancel")
    <2>1. CASE rows' = rows
        BY <2>1
    <2>2. CASE /\ Visible(r) /\ Accepts(rows[r].status, "cancel")
               /\ Write(r, Ended(Moved(r, "cancel")))
        <3>1. Present(r) /\ rows[r].status \in Status
            BY <2>2 DEF Visible, Present
        <3>2. /\ rows'[r].status = Moves[rows[r].status]["cancel"]
              /\ \A s \in Runs \ {r} : rows'[s] = rows[s]
            BY <2>2, <3>1, MovedRow DEF TypeInvariant, TypeOK
        <3>3. Moves[rows[r].status]["cancel"] = "cancelled"
            BY <2>2, <3>1, EventMoves
        <3>4. QED
            BY <2>2, <3>2, <3>3
    <2>3. QED
        BY <1>3, <2>1, <2>2
<1>5. op'.run # q /\ op'.by = "none"
    BY <1>1, RunsAssumption DEF Idle
<1>6. (\A e : Entry(e)' <=> Entry(e)) /\ (Requested(q)' <=> Requested(q))
    BY <1>1 DEF Entry, Requested
<1>7. OnlyWriter(q)
    BY DEF CalmOf
<1>8. OnlyWriter(q)'
    <2>1. task[r].at \in {"none", "done"}
        BY <1>1 DEF MarksInvariant, CancelRests, CancelAsked, TaskActive
    <2>2. QED
        BY <1>1, <1>4, <1>5, <1>6, <1>7, <2>1, StillWriter
<1>9. TypedIsReported(q)'
    BY <1>5 DEF TypedIsReported
<1>10. KeepsCalm(q)
    BY <1>1, <1>4, <1>6 DEF KeepsCalm, Written, Automatic
<1>11. QED
    BY <1>8, <1>9, <1>10 DEF StaysCalm

\* The protocol carries its result through; without faults nothing loses it.
LEMMA DeliverKnows ==
    ASSUME TypeInvariant, RouteInvariant, Undisturbed, ResultIsKnown, Deliver
    PROVE  ResultIsKnown'
<1>1. ProtocolStep(OpCancelled) /\ OpSteps
    BY ProtocolOp DEF Deliver, TypeInvariant, TypeOK, RouteInvariant
<1>2. op \in Operation /\ ~Use("fault")
    BY <1>1, NothingFails DEF OpSteps, TypeInvariant, TypeOK
<1>3. op.at = "resolve" => op.result # "none"
    BY <1>2 DEF RouteInvariant, OperationRoute, Operation, Outcomes
<1>4. QED
    BY <1>1, <1>2, <1>3
    DEF ProtocolStep, Look, VerifyFirst, ClaimAttempt, Recheck, Reverify,
        Dispatch, Confirm, Resolve, Restore, Return, ResolveAs, Begin,
        Operation, ResultIsKnown

LEMMA DeliverTells ==
    ASSUME TypeInvariant, RouteInvariant, Undisturbed, Deliver,
           NEW q \in Runs, TypedIsReported(q)
    PROVE  TypedIsReported(q)'
<1>1. ProtocolStep(OpCancelled) /\ OpSteps
    BY ProtocolOp DEF Deliver, TypeInvariant, TypeOK, RouteInvariant
<1>2. /\ op \in Operation /\ op.run \in Runs /\ ~Use("fault")
      /\ typed \in [Runs -> Nat]
      /\ op'.by = op.by /\ op'.run = op.run
    BY <1>1, NothingFails DEF OpSteps, TypeInvariant, TypeOK, ProtocolTypeOK
<1>3. SUFFICES ASSUME typed'[q] > 0, op.run = q, op.by \in {"auto", "tick"}
               PROVE  \/ op'.at = "confirm"
                      \/ /\ op'.at \in {"resolve", "restore", "result"}
                         /\ op'.result \in {"inserted", "uncertain"}
    BY <1>2 DEF TypedIsReported
<1>4. CASE Dispatch
    <2>1. CASE typed' = typed
        BY <1>3, <1>4, <2>1 DEF Dispatch, TypedIsReported
    <2>2. CASE typed' # typed
        BY <1>2, <1>4, <2>2 DEF Dispatch, ResolveAs, Operation
    <2>3. QED
        BY <2>1, <2>2
<1>5. CASE ~Dispatch
    <2>1. typed' = typed
        BY <1>1, <1>5
        DEF ProtocolStep, Look, VerifyFirst, ClaimAttempt, Recheck, Reverify,
            Confirm, Resolve, Restore, protocolRest
    <2>2. \/ op.at = "confirm"
          \/ /\ op.at \in {"resolve", "restore"}
             /\ op.result \in {"inserted", "uncertain"}
        BY <1>1, <1>3, <2>1 DEF TypedIsReported, OpSteps
    <2>3. QED
        BY <1>1, <1>2, <2>2
        DEF ProtocolStep, Look, VerifyFirst, ClaimAttempt, Recheck, Reverify,
            Dispatch, Confirm, Resolve, Restore, Return, ResolveAs, Operation
<1>6. QED
    BY <1>4, <1>5

LEMMA DeliverIsCalm ==
    ASSUME TypeInvariant, RouteInvariant, NeverRecovered, Undisturbed, Next,
           Deliver, NEW q \in Runs, CalmOf(q)
    PROVE  StaysCalm(q)
<1>1. ProtocolStep(OpCancelled) /\ OpSteps
    BY ProtocolOp DEF Deliver, TypeInvariant, TypeOK, RouteInvariant
<1>2. /\ op.run \in Runs /\ op'.by = op.by /\ op'.run = op.run
      /\ op'.version = op.version
      /\ op.at # "applied" /\ op'.at # "applied"
    BY <1>1 DEF OpSteps
<1>3. UNCHANGED <<queue, task, aborted, waiting, deleting>>
    BY DEF Deliver, control
<1>4. /\ rows' = rows \/ DeleteRow(op.run)
      /\ \A s \in Runs \ {op.run} : rows'[s] = rows[s]
      /\ DeleteRow(op.run) => rows'[op.run].status = "deleted"
    BY <1>1, <1>2, ProtocolStore DEF TypeInvariant, TypeOK
<1>5. rows'[q] = rows[q] \/ rows'[q].status = "deleted"
    BY <1>4
<1>6. \/ deferred' = deferred
      \/ deferred' = deferred \cup {op.run} /\ DeleteRow(op.run)
    BY <1>1
    DEF ProtocolStep, Look, VerifyFirst, ClaimAttempt, Recheck, Reverify,
        Dispatch, Confirm, Resolve, Restore, RetentionDelete, storeRest
<1>7. (\A e : Entry(e)' <=> Entry(e)) /\ (Requested(q)' <=> Requested(q))
    BY <1>3 DEF Entry, Requested
<1>8. OnlyWriter(q) /\ TypedIsReported(q)
    BY DEF CalmOf
<1>9. OnlyWriter(q)'
    <2>1. rows'[q] = rows[q] \/ ~Present(q)'
        BY <1>5 DEF Present, Status, Dispatchable, Terminal
    <2>2. op'.by = "auto" /\ op'.run = q => op'.version = task[q].version
        BY <1>2, <1>8 DEF OnlyWriter
    <2>3. QED
        BY <1>2, <1>3, <1>7, <1>8, <2>1, <2>2, StillWriter
<1>10. TypedIsReported(q)'
    BY <1>8, DeliverTells
<1>11. \/ typed'[q] = typed[q]
       \/ /\ Automatic(q) /\ op.at = "dispatch" /\ rows' = rows
          /\ op'.run = q /\ op'.by = op.by /\ op'.at \in {"confirm", "resolve"}
    <2>1. SUFFICES ASSUME typed'[q] # typed[q]
                   PROVE  /\ Automatic(q) /\ op.at = "dispatch" /\ rows' = rows
                          /\ op'.at \in {"confirm", "resolve"} /\ op'.run = q
        BY <1>2
    <2>2. op.at = "dispatch" /\ op.run = q
        BY <2>1, OnlyDispatchTypes
        DEF TypeInvariant, TypeOK, ProtocolTypeOK
    <2>3. op.by \in {"auto", "tick"}
        BY <2>2, ClaimedDelivers
        DEF TypeInvariant, TypeOK, RouteInvariant, Claimed, Delivering,
            NeverRecovered
    <2>4. Dispatch /\ op \in Operation
        BY <1>1, <2>2
        DEF ProtocolStep, Look, VerifyFirst, ClaimAttempt, Recheck, Reverify,
            Confirm, Resolve, Restore, OpSteps
    <2>5. QED
        BY <1>2, <2>2, <2>3, <2>4
        DEF Dispatch, ResolveAs, Operation, Automatic
<1>12. KeepsCalm(q)
    BY <1>2, <1>3, <1>4, <1>5, <1>6, <1>7, <1>11
    DEF KeepsCalm, Written, Automatic
<1>13. QED
    BY <1>9, <1>10, <1>12 DEF StaysCalm

\* The gate begins with a result only where it decides one.
LEMMA GateKnows ==
    ASSUME TypeInvariant, RouteInvariant, NeverRecovered, Gate
    PROVE  ResultIsKnown'
<1>1. ~ExplicitStart /\ ~ExplicitApply /\ ~ExplicitReturns
    <2>1. queue \in Seq(Request)
        BY DEF TypeInvariant, TypeOK, ControlTypeOK
    <2>2. ASSUME Granted("explicit") PROVE FALSE
        BY <2>1, <2>2, TailEntries DEF Granted, NeverRecovered, Entry
    <2>3. QED
        BY <2>2 DEF ExplicitStart, ExplicitApply, ExplicitReturns, NeverRecovered
<1>2. CASE TickStart
    BY <1>2, TickBegins DEF ResultIsKnown, Idle
<1>3. CASE AutoStart \/ AutoApply \/ CancelStart
    BY <1>3, OpAfter DEF ResultIsKnown, Idle, TypeInvariant
<1>4. CASE AutoSettle \/ TickApply \/ CancelWrite
    BY <1>4
    DEF AutoSettle, TickApply, CancelWrite, Release, ResultIsKnown, Idle
<1>5. QED
    BY <1>1, <1>2, <1>3, <1>4 DEF Gate

LEMMA GateIsCalm ==
    ASSUME TypeInvariant, RouteInvariant, MarksInvariant, Undisturbed,
           ResultIsKnown, \A r \in Runs : CalmOf(r), Gate, NEW q \in Runs
    PROVE  StaysCalm(q)
<1>1. CalmOf(q) /\ NeverRecovered
    BY DEF MarksInvariant
<1>2. CASE AutoApply
    <2>1. op.run \in Runs
        BY <1>2, BusyType DEF AutoApply, TypeInvariant, TypeOK
    <2>2. QED
        BY <1>1, <1>2, <2>1, AutoApplyIsCalm
<1>3. ~ExplicitStart /\ ~ExplicitApply /\ ~ExplicitReturns
    <2>1. queue \in Seq(Request)
        BY DEF TypeInvariant, TypeOK, ControlTypeOK
    <2>2. ASSUME Granted("explicit") PROVE FALSE
        BY <1>1, <2>1, <2>2, TailEntries DEF Granted, NeverRecovered, Entry
    <2>3. QED
        BY <1>1, <2>2
        DEF ExplicitStart, ExplicitApply, ExplicitReturns, NeverRecovered
<1>4. QED
    BY <1>1, <1>2, <1>3, AutoStartIsCalm, AutoSettleIsCalm, BeginningIsCalm,
       TickApplyIsCalm, CancelWriteIsCalm
    DEF Gate

-----------------------------------------------------------------------------
(* The calm, over every step. *)

Calm == up = "up" /\ ResultIsKnown /\ \A r \in Runs : CalmOf(r)

LEMMA CalmIsInvariant == CalmInvariant <=> Calm
BY DEF Calm, CalmInvariant, CalmOf, CancelledNeverTyped

LEMMA CalmInit == Init => CalmInvariant
<1> SUFFICES ASSUME Init PROVE Calm
    BY CalmIsInvariant
<1>1. /\ op = Idle /\ queue = << >> /\ up = "up" /\ aborted = {}
      /\ waiting = {} /\ deferred = {}
    BY DEF Init, ProtocolInit, StoreInit
<1>2. ASSUME NEW r \in Runs PROVE CalmOf(r)
    <2>1. /\ typed[r] = 0 /\ task[r].at = "none"
          /\ rows[r].status = "absent"
        BY DEF Init, ProtocolInit, StoreInit, NoTask
    <2>2. op.run # r
        BY <1>1, RunsAssumption DEF Idle
    <2>3. ~Present(r)
        BY <2>1 DEF Present, Status, Dispatchable, Terminal
    <2>4. QED
        BY <1>1, <2>1, <2>2, <2>3
        DEF CalmOf, OnlyWriter, TypedIsReported, UndeliveredIsUntyped,
            AbortedIsDeleted, TypedIsOver, Visible, Working
<1>3. QED
    BY <1>1, <1>2 DEF Calm, ResultIsKnown, Idle

LEMMA CalmStep ==
    ASSUME Undisturbed, TypeInvariant, TypeInvariant', ClaimInvariant,
           RouteInvariant, MarksInvariant, CalmInvariant, Next
    PROVE  CalmInvariant'
<1>1. /\ Calm /\ NeverRecovered /\ NeverRecovered'
    BY CalmIsInvariant, NeverRecoveredStep
    DEF MarksInvariant, TypeInvariant, Undisturbed
<1>2. ~Crash /\ ~Startup
    <2>1. ~Use("crash") /\ up = "up"
        BY <1>1, NothingFails DEF TypeInvariant, TypeOK, Calm
    <2>2. QED
        BY <2>1
        DEF Crash, Startup, RecoverOnStartup, Serve, FailInterrupted
<1>3. up' = "up"
    BY <1>1, <1>2, UpSteps DEF TypeInvariant
<1>4. ResultIsKnown'
    <2>1. CASE op' = op
        BY <1>1, <2>1 DEF Calm, ResultIsKnown
    <2>2. TickDue => op' = op
        BY DEF TickDue, protocol
    <2>3. QED
        BY <1>1, <1>2, <2>1, <2>2, DeliverKnows, GateKnows, RunStepShape
        DEF Next, Calm
<1>5. ASSUME NEW q \in Runs
      PROVE  StaysCalm(q) /\ KeepsMarks(q)
    <2>1. CalmOf(q) /\ RowEvolves(q) /\ ResultIsKnown
          /\ \A r \in Runs : CalmOf(r)
        BY <1>1, RowsEvolve DEF Calm, TypeInvariant
    <2>2. CASE Deliver
        BY <1>1, <2>1, <2>2, DeliverIsCalm, DeliverKeepsMarks
    <2>3. CASE Gate
        BY <1>1, <2>1, <2>3, GateIsCalm, GateKeepsMarks
    <2>4. CASE TickDue
        BY <2>1, <2>4, RequestIsCalm, TickDueKeepsMarks
    <2>5. ASSUME NEW r \in Runs,
                 Work(r) \/ User(r) \/ Environment(r) \/ Background(r)
          PROVE  StaysCalm(q) /\ KeepsMarks(q)
        <3>1. /\ \A ack : ~RecoverInsert(r, ack)
              /\ \A action : ~RecoverCommit(r, action)
              /\ ~TaskFault(r) /\ ~CloseFault(r)
            BY NoneRecovers, NothingFails
            DEF RecoverInsert, RecoverCommit, TaskFault, CloseFault,
                TypeInvariant, TypeOK, Undisturbed
        <3>2. CASE Work(r) \/ EndRecording(r)
            BY <1>1, <2>1, <3>2, WorkIsCalm, WorkKeepsMarks
        <3>3. CASE Start(r)
            BY <2>1, <3>3, StartIsCalm, StartKeepsMarks
        <3>4. CASE Cancel(r)
            BY <2>1, <3>4, RequestIsCalm, CancelKeepsMarks
        <3>5. CASE \/ Delete(r) \/ RemoveRow(r) \/ Expire(r) \/ Age(r)
                   \/ Retire(r) \/ Evicted(r) \/ WaitLimit(r)
            BY <2>1, <3>5, RemovalIsCalm, RemovalKeepsMarks
        <3>6. QED
            BY <2>5, <3>1, <3>2, <3>3, <3>4, <3>5
            DEF User, Environment, Background
    <2>6. QED
        BY <1>2, <2>2, <2>3, <2>4, <2>5 DEF Next
<1>6. ASSUME NEW q \in Runs PROVE CalmOf(q)'
    <2>1. CalmOf(q) /\ RowEvolves(q)
        BY <1>1, RowsEvolve DEF Calm, TypeInvariant
    <2>2. /\ KeepsCalm(q) /\ OnlyWriter(q)' /\ TypedIsReported(q)'
          /\ Visible(q)' => Visible(q) \/ rows[q].status = "absent"
        BY <1>5 DEF StaysCalm, KeepsMarks
    <2>3. QED
        BY <2>1, <2>2, CalmFollows DEF CalmOf
<1>7. Calm'
    BY <1>3, <1>4, <1>6 DEF Calm
<1>8. QED
    BY <1>7 DEF Calm, CalmInvariant, CalmOf, CancelledNeverTyped

LEMMA CalmStutter ==
    ASSUME CalmInvariant, UNCHANGED vars
    PROVE  CalmInvariant'
<1>1. UNCHANGED <<rows, attempts, aged, deferred, op, typed, queue, task,
                  aborted, waiting, deleting, up>>
    BY DEF vars, store, protocol, control
<1>2. \A r \in Runs : /\ Requested(r)' <=> Requested(r)
                      /\ Present(r)' <=> Present(r)
                      /\ Visible(r)' <=> Visible(r)
    BY <1>1 DEF Requested, Visible, Present, HasAttempt
<1>3. QED
    BY <1>1, <1>2
    DEF CalmInvariant, ResultIsKnown, OnlyWriter, TypedIsReported,
        UndeliveredIsUntyped, AbortedIsDeleted, TypedIsOver,
        CancelledNeverTyped

\* Where nothing fails the coroutine of a run is the only writer of its row
\* until the delivery, and what was typed is reported so.
THEOREM CalmIsKept == ASSUME Undisturbed PROVE Spec => []CalmInvariant
<1>1. NoRecovery
    BY DEF Undisturbed
<1>2. /\ TypeInvariant /\ TypeInvariant' /\ ClaimInvariant /\ RouteInvariant
      /\ MarksInvariant /\ CalmInvariant /\ [Next]_vars
      => CalmInvariant'
    BY CalmStep, CalmStutter
<1>3. Spec => []MarksInvariant
    BY <1>1, MarksAreKept
<1>4. QED
    BY CalmInit, TypesInvariant, ClaimsInvariant, RouteIsSafe, <1>2, <1>3, PTL
    DEF Spec

\* A cancellation is obeyed, if nobody recovers a run and nothing fails: it
\* keeps the text out of the field, and a run that ends as cancelled has typed
\* nothing.
THEOREM CancellationIsObeyed == ASSUME Undisturbed PROVE Spec => CancelIsObeyed
<1>1. NoRecovery
    BY DEF Undisturbed
<1>2. Spec => CancelSuppressesDispatch
    BY <1>1, CancelSuppresses
<1>3. CalmInvariant => CancelledNeverTyped
    BY DEF CalmInvariant
<1>4. QED
    BY CalmIsKept, <1>2, <1>3, PTL DEF CancelIsObeyed

=============================================================================
