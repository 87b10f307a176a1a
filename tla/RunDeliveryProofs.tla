--------------------------- MODULE RunDeliveryProofs ---------------------------
(***************************************************************************)
(* What is claimed and dispatched for a run, for any set of runs and any   *)
(* limits: an automatic claim finds nothing typed, one attempt at most is  *)
(* open, a known insertion is final, and the attempts keep the promise of  *)
(* DeliveryLedger.                                                         *)
(*                                                                         *)
(* Only the steps of the protocol change an attempt or type a text; they   *)
(* are taken one by one, for the run of the operation.  Every other step   *)
(* leaves a run, deletes it, or opens or ends an operation.                *)
(***************************************************************************)
EXTENDS RunRouteProofs

-----------------------------------------------------------------------------
(* What holds of a run nobody delivers. *)

\* An operation between its claim and its outcome delivers its run.
LEMMA ClaimedDelivers ==
    ASSUME ProtocolTypeOK, OperationRoute, NEW r
    PROVE  /\ op.at \in Claimed /\ op.run = r => Delivering(r)
           /\ op.run = r /\ WillWait => Delivering(r)
BY DEF ProtocolTypeOK, Operation, Idle, Callers, OperationRoute, Claimed,
       Delivering, WillWait

\* The same after the step.
LEMMA ClaimedDeliversNext ==
    ASSUME ProtocolTypeOK', OperationRoute', NEW r
    PROVE  /\ op'.at \in Claimed /\ op'.run = r => Delivering(r)'
           /\ op'.run = r /\ WillWait' => Delivering(r)'
BY DEF ProtocolTypeOK, Operation, Idle, Callers, OperationRoute, Claimed,
       Delivering, WillWait

\* What the tables alone must keep.
AttemptsAreSound(r) ==
    /\ HasAttempt(r, "inserted") => ~HasAttempt(r, "in_flight")
    /\ NothingLoose(r) /\ OneAttempt(r)

\* Where nobody delivers r, only its waiting entry may lead to a claim.
LEMMA UndeliveredIsSafe ==
    ASSUME ProtocolTypeOK', OperationRoute', NEW r, ~Delivering(r)',
           r \in waiting' =>
              /\ Clear(r)'
              /\ HasLoose(r)' => r \in aged' \/ HasAutomatic(r)',
           AttemptsAreSound(r)'
    PROVE  DeliveryOf(r)'
<1>1. /\ ~(op'.run = r /\ op'.by \in {"auto", "tick", "explicit"})
      /\ ~(op'.run = r /\ op'.at \in Claimed)
      /\ ~(op'.run = r /\ WillWait')
    BY ClaimedDeliversNext DEF Delivering
<1>2. AutomaticIsClear(r)'
    BY <1>1 DEF AutomaticIsClear
<1>3. LooseIsStuck(r)'
    BY <1>1 DEF LooseIsStuck, Claimed
<1>4. InsertedIsFinal(r)' /\ ClaimIsOfKind(r)'
    BY <1>1 DEF InsertedIsFinal, ClaimIsOfKind, AttemptsAreSound
<1>5. QED
    BY <1>2, <1>3, <1>4 DEF DeliveryOf, AttemptsAreSound

\* A row that comes to be has nothing typed and nothing claimed.
FreshIsUntyped(r) ==
    Present(r)' /\ ~Present(r) =>
        typed[r] = 0 /\ ~(op.run = r /\ op.at \in Claimed)

LEMMA FreshRows ==
    ASSUME TypeInvariant, Next, NEW r \in Runs
    PROVE  FreshIsUntyped(r)
BY RowsEvolve DEF TypeInvariant, RowEvolves, FreshIsUntyped, NothingBeforeStart,
                  Present, Status, Dispatchable, Terminal

\* What a step that leaves the attempts and the field of r alone keeps.
FieldKept(r) ==
    /\ attempts'[r] = attempts[r] /\ typed'[r] = typed[r]
    /\ FreshIsUntyped(r)
    /\ r \in aged => r \in aged'
    /\ used'["fault"] = 0 => used["fault"] = 0
    /\ up' # "down" => up # "down"

LEMMA FieldKeepsClear ==
    ASSUME NEW r, FieldKept(r), Clear(r)
    PROVE  Clear(r)'
BY DEF FieldKept, FreshIsUntyped, Clear, HasAutomatic

\* A step that leaves the run, its field and its operation.
LEMMA QuietKeepsDelivery ==
    ASSUME TypeOK, TypeOK', OperationRoute, OperationRoute', NEW r \in Runs,
           DeliveryOf(r), FieldKept(r), OpKept(r), r \in waiting' => r \in waiting
    PROVE  DeliveryOf(r)'
<1>1. CASE op' = op
    <2>1. /\ HasLoose(r)' <=> HasLoose(r)
          /\ HasAutomatic(r)' <=> HasAutomatic(r)
          /\ \A o : HasAttempt(r, o)' <=> HasAttempt(r, o)
        BY <1>1 DEF FieldKept, HasLoose, Loose, HasAutomatic, HasAttempt
    <2>2. Clear(r) => Clear(r)'
        BY FieldKeepsClear
    <2>3. AutomaticIsClear(r)'
        BY <1>1, <2>2 DEF DeliveryOf, AutomaticIsClear, FieldKept, WillWait
    <2>4. LooseIsStuck(r)'
        BY <1>1, <2>1 DEF DeliveryOf, LooseIsStuck, FieldKept, WillWait
    <2>5. InsertedIsFinal(r)' /\ NothingLoose(r)' /\ OneAttempt(r)'
        BY <1>1, <2>1
        DEF DeliveryOf, InsertedIsFinal, NothingLoose, OneAttempt, FieldKept
    <2>6. ClaimIsOfKind(r)'
        BY <1>1 DEF DeliveryOf, ClaimIsOfKind, FieldKept, FreshIsUntyped, Kind
    <2>7. QED
        BY <2>3, <2>4, <2>5, <2>6 DEF DeliveryOf
<1>2. CASE ~Delivering(r) /\ ~Delivering(r)'
    <2>1. /\ ~(op.run = r /\ op.at \in Claimed)
          /\ ~(op'.run = r /\ op'.at \in Claimed)
        BY <1>2, ClaimedDelivers, ClaimedDeliversNext DEF TypeOK
    <2>2. /\ HasLoose(r)' <=> HasLoose(r)
          /\ HasAutomatic(r)' <=> HasAutomatic(r)
          /\ \A o : HasAttempt(r, o)' <=> HasAttempt(r, o)
        BY <2>1 DEF FieldKept, HasLoose, Loose, HasAutomatic, HasAttempt
    <2>3. AttemptsAreSound(r)'
        BY <2>2 DEF DeliveryOf, InsertedIsFinal, NothingLoose, OneAttempt,
                    FieldKept, AttemptsAreSound
    <2>4. r \in waiting' =>
             Clear(r)' /\ (HasLoose(r)' => r \in aged' \/ HasAutomatic(r)')
        BY <2>2, FieldKeepsClear
        DEF DeliveryOf, AutomaticIsClear, LooseIsStuck, FieldKept
    <2>5. QED
        BY <1>2, <2>3, <2>4, UndeliveredIsSafe DEF TypeOK
<1>3. QED
    BY <1>1, <1>2 DEF OpKept

-----------------------------------------------------------------------------
(* The steps outside the gate. *)

\* A deleted run has nothing to deliver.
LEMMA DeletionIsSafe ==
    ASSUME StoreTypeOK, NEW r \in Runs, DeliveryOf(r), DeleteRow(r), op' = op,
           typed'[r] = typed[r]
    PROVE  DeliveryOf(r)'
<1>1. ~Present(r)' /\ attempts'[r] = << >>
    BY DEF DeleteRow, StoreTypeOK, Tombstone, Present, Status, Dispatchable,
           Terminal
<1>2. /\ Clear(r)' /\ ~HasLoose(r)'
      /\ \A o : ~HasAttempt(r, o)'
    BY <1>1 DEF Clear, HasLoose, Loose, HasAttempt
<1>3. AutomaticIsClear(r)'
    BY <1>2 DEF DeliveryOf, AutomaticIsClear
<1>4. LooseIsStuck(r)'
    BY <1>1, <1>2 DEF LooseIsStuck
<1>5. InsertedIsFinal(r)' /\ NothingLoose(r)'
    BY <1>2 DEF InsertedIsFinal, NothingLoose
<1>6. ClaimIsOfKind(r)' /\ OneAttempt(r)'
    BY <1>1 DEF ClaimIsOfKind, OneAttempt
<1>7. QED
    BY <1>3, <1>4, <1>5, <1>6 DEF DeliveryOf

\* The counted steps are never uncounted.
FaultsKept == used' = used \/ \E k \in Budgets : Use(k)

LEMMA FaultsGrow ==
    ASSUME StoreTypeOK, FaultsKept
    PROVE  used'["fault"] = 0 => used["fault"] = 0
BY DEF StoreTypeOK, FaultsKept, Use, Budgets

\* A step of a run leaves the attempts, or deletes those of its run.
LEMMA RunStepShape ==
    ASSUME NEW r \in Runs,
           Work(r) \/ User(r) \/ Environment(r) \/ Background(r)
    PROVE  /\ op' = op /\ typed' = typed /\ up' = up
           /\ \A q \in Runs : q \in waiting' => q \in waiting
           /\ FaultsKept
           /\ \/ attempts' = attempts /\ \A q \in aged : q \in aged'
              \/ DeleteRow(r)
<1>1. CASE Work(r)
    BY <1>1
    DEF Work, TaskStops, TaskCancels, NoSpeech, StoreText, SelectAdjusted,
        UseOriginal, RetryCleanup, CleanupSettles, CleanupFails, StaleWrite,
        Failed, Close, OrphanClose, RecoverLaunch, Select, workRest, closeRest,
        store, protocol, FaultsKept
<1>2. CASE User(r)
    BY <1>2
    DEF User, Start, EndRecording, Cancel, Delete, RecoverInsert, RecoverCommit,
        Abort, abortRest, workRest, store, protocol, FaultsKept, Budgets
<1>3. CASE Environment(r)
    BY <1>3
    DEF Environment, TaskFault, CloseFault, Expire, Age, RetentionDelete,
        abortRest, workRest, closeRest, store, protocol, FaultsKept, Budgets
<1>4. CASE Background(r)
    BY <1>4
    DEF Background, WaitLimit, RemoveRow, Retire, Evicted, Abort,
        RetentionDelete, abortRest, store, protocol, FaultsKept, Budgets
<1>5. QED
    BY <1>1, <1>2, <1>3, <1>4

\* It keeps every delivery.
LEMMA RunStepKeepsDelivery ==
    ASSUME TypeInvariant, TypeOK', RouteInvariant, RouteInvariant', Next,
           NEW r \in Runs,
           Work(r) \/ User(r) \/ Environment(r) \/ Background(r),
           NEW q \in Runs, DeliveryOf(q)
    PROVE  DeliveryOf(q)'
<1>1. /\ op' = op /\ typed' = typed /\ up' = up
      /\ q \in waiting' => q \in waiting
      /\ used'["fault"] = 0 => used["fault"] = 0
      /\ \/ attempts' = attempts /\ (q \in aged => q \in aged')
         \/ DeleteRow(r)
    BY RunStepShape, FaultsGrow DEF TypeInvariant, TypeOK
<1>2. CASE DeleteRow(r) /\ q = r
    BY <1>1, <1>2, DeletionIsSafe DEF TypeInvariant, TypeOK
<1>3. CASE ~(DeleteRow(r) /\ q = r)
    <2>1. attempts'[q] = attempts[q] /\ (q \in aged => q \in aged')
        BY <1>1, <1>3 DEF DeleteRow, TypeInvariant, TypeOK, StoreTypeOK
    <2>2. FieldKept(q)
        BY <1>1, <2>1, FreshRows DEF FieldKept
    <2>3. QED
        BY <1>1, <2>2, QuietKeepsDelivery
        DEF OpKept, TypeInvariant, RouteInvariant
<1>4. QED
    BY <1>2, <1>3

\* The tick's request changes nothing.
LEMMA TickDueKeepsDelivery ==
    ASSUME TypeInvariant, TypeOK', RouteInvariant, RouteInvariant', Next,
           TickDue, NEW q \in Runs, DeliveryOf(q)
    PROVE  DeliveryOf(q)'
<1>1. FieldKept(q) /\ op' = op /\ waiting' = waiting
    BY FreshRows DEF TickDue, store, protocol, FieldKept
<1>2. QED
    BY <1>1, QuietKeepsDelivery DEF OpKept, TypeInvariant, RouteInvariant

\* A crash ends every operation.
LEMMA CrashKeepsDelivery ==
    ASSUME TypeInvariant, TypeOK', RouteInvariant', Crash,
           NEW q \in Runs, DeliveryOf(q)
    PROVE  DeliveryOf(q)'
<1>1. /\ op' = Idle /\ waiting' = {} /\ up' = "down" /\ attempts' = attempts
      /\ used'["fault"] = 0 => used["fault"] = 0
    BY FaultsGrow DEF Crash, FaultsKept, Budgets, TypeInvariant, TypeOK
<1>2. ~Delivering(q)'
    BY <1>1, RunsAssumption DEF Delivering, Idle
<1>3. AttemptsAreSound(q)'
    BY <1>1
    DEF DeliveryOf, AttemptsAreSound, InsertedIsFinal, HasAttempt, NothingLoose,
        OneAttempt
<1>4. QED
    BY <1>1, <1>2, <1>3, UndeliveredIsSafe DEF TypeOK, RouteInvariant

\* The startup gives up on every attempt in flight.
LEMMA StartupKeepsDelivery ==
    ASSUME TypeInvariant, TypeOK', RouteInvariant, RouteInvariant', Next,
           Startup, NEW q \in Runs, DeliveryOf(q)
    PROVE  DeliveryOf(q)'
<1>1. /\ op = Idle /\ op' = Idle /\ waiting = {} /\ waiting' = {}
      /\ typed' = typed /\ used' = used /\ up # "up"
    BY DEF Startup, RecoverOnStartup, Serve, FailInterrupted, startupRest,
           protocol, RouteInvariant, DownIsStill
<1>2. CASE RecoverOnStartup
    <2>1. ~Delivering(q)'
        BY <1>1, RunsAssumption DEF Delivering, Idle
    <2>2. /\ DOMAIN attempts'[q] \subseteq DOMAIN attempts[q]
          /\ \A a \in DOMAIN attempts'[q] :
                /\ attempts'[q][a].kind = attempts[q][a].kind
                /\ attempts'[q][a].outcome # "in_flight"
        <3>1. attempts'[q] = RecoveredAttempts(q)
            BY <1>2 DEF RecoverOnStartup, RecoverStore
        <3>2. \A a \in DOMAIN attempts[q] : attempts[q][a] \in Attempt
            BY DEF TypeInvariant, TypeOK, StoreTypeOK
        <3>3. ASSUME NEW t \in Attempt
              PROVE  GivenUp(t).kind = t.kind /\ GivenUp(t).outcome # "in_flight"
            BY DEF GivenUp, Attempt
        <3>4. CASE q \in aged
            BY <3>1, <3>4 DEF RecoveredAttempts
        <3>5. CASE q \notin aged
            BY <3>1, <3>2, <3>3, <3>5 DEF RecoveredAttempts
        <3>6. QED
            BY <3>4, <3>5
    <2>3. AttemptsAreSound(q)'
        BY <2>2
        DEF DeliveryOf, AttemptsAreSound, HasAttempt, NothingLoose, HasLoose,
            Loose, OneAttempt
    <2>4. QED
        BY <1>1, <2>1, <2>3, UndeliveredIsSafe DEF TypeOK, RouteInvariant
<1>3. CASE Serve \/ \E r \in Runs : FailInterrupted(r)
    <2>1. FieldKept(q)
        BY <1>1, <1>3, FreshRows DEF Serve, FailInterrupted, store, FieldKept
    <2>2. QED
        BY <1>1, <2>1, QuietKeepsDelivery
        DEF OpKept, TypeInvariant, RouteInvariant
<1>4. QED
    BY <1>2, <1>3 DEF Startup

-----------------------------------------------------------------------------
(* The operations of the gate. *)

\* An operation of the gate is never between a claim and its outcome, and it
\* leaves the field of every run.
LEMMA GateShape ==
    ASSUME TypeInvariant, Next, Gate, NEW q \in Runs
    PROVE  /\ op.at \notin Claimed /\ FieldKept(q)
           /\ used'["fault"] = 0 => used["fault"] = 0
<1>1. op.at \notin Claimed /\ FaultsKept
    BY DEF Gate, AutoStart, AutoApply, AutoSettle, TickStart, TickApply,
           ExplicitStart, ExplicitApply, ExplicitReturns, CancelStart,
           CancelWrite, Granted, Claimed, FaultsKept, Budgets
<1>2. used'["fault"] = 0 => used["fault"] = 0
    BY <1>1, FaultsGrow DEF TypeInvariant, TypeOK
<1>3. QED
    BY <1>1, <1>2, GateKeeps, FreshRows DEF FieldKept

\* An operation that ends leaves what the tables keep, and what may lead to
\* another claim: the entry that waits, or comes to wait, is clear.
LEMMA EndKeepsDelivery ==
    ASSUME TypeInvariant, TypeOK', RouteInvariant', Next, Gate,
           op' = Idle \/ (op'.by = "cancel" /\ op'.at \notin Claimed),
           NEW q \in Runs, DeliveryOf(q),
           q \in waiting' =>
              \/ q \in waiting
              \/ op.run = q /\ (op.by = "auto" \/ WillWait)
    PROVE  DeliveryOf(q)'
<1>1. op.at \notin Claimed /\ op'.at \notin Claimed /\ FieldKept(q)
    BY GateShape DEF Idle, Claimed
<1>2. ~Delivering(q)'
    BY RunsAssumption DEF Delivering, Idle
<1>3. /\ HasLoose(q)' <=> HasLoose(q)
      /\ HasAutomatic(q)' <=> HasAutomatic(q)
      /\ \A o : HasAttempt(q, o)' <=> HasAttempt(q, o)
    BY <1>1 DEF FieldKept, HasLoose, Loose, HasAutomatic, HasAttempt
<1>4. AttemptsAreSound(q)'
    BY <1>1, <1>3 DEF DeliveryOf, InsertedIsFinal, NothingLoose, OneAttempt,
                      FieldKept, AttemptsAreSound
<1>5. attempts[q] = << >> => ~HasLoose(q)
    BY DEF HasLoose, Loose
<1>6. q \in waiting' =>
         Clear(q)' /\ (HasLoose(q)' => q \in aged' \/ HasAutomatic(q)')
    BY <1>1, <1>3, <1>5, FieldKeepsClear
    DEF DeliveryOf, AutomaticIsClear, LooseIsStuck, FieldKept
<1>7. QED
    BY <1>2, <1>4, <1>6, UndeliveredIsSafe DEF TypeOK, RouteInvariant

\* The runs an operation of the gate is not about.
LEMMA OthersKeepDelivery ==
    ASSUME TypeInvariant, TypeOK', RouteInvariant, RouteInvariant', Next, Gate,
           NEW q \in Runs, DeliveryOf(q), op = Idle \/ op.run # q,
           op'.run # q, q \in waiting' => q \in waiting
    PROVE  DeliveryOf(q)'
<1>1. OpKept(q) /\ FieldKept(q)
    BY GateShape DEF OpKept, Delivering, Idle
<1>2. QED
    BY <1>1, QuietKeepsDelivery DEF TypeInvariant, RouteInvariant

\* The beginning of a delivery of r.
Begins(r, by) ==
    /\ op = Idle /\ op'.run = r /\ op'.by = by
    /\ op'.at \in {"look", "verify", "result"}
    /\ \A q \in Runs : q \in waiting' => q \in waiting

LEMMA BeginKeepsDelivery ==
    ASSUME TypeInvariant, TypeOK', RouteInvariant, RouteInvariant', Next, Gate,
           NEW r \in Runs, NEW by, Begins(r, by), NEW q \in Runs,
           DeliveryOf(q), DeliveryOf(r),
           \* automatic: nothing was claimed, nor typed
           by = "auto" => attempts[r] = << >> /\ Clear(r),
           \* a tick: the run waits
           by = "tick" => r \in waiting,
           \* explicit: an acknowledged doubt at most
           by = "explicit" =>
              /\ ~HasAttempt(r, "inserted") /\ ~HasAttempt(r, "in_flight")
              /\ op'.entry => r \in waiting
              /\ op'.ack \/ typed[r] = 0
    PROVE  DeliveryOf(q)'
<1>1. CASE q # r
    BY <1>1, OthersKeepDelivery DEF Begins
<1>2. CASE q = r
    <2>1. /\ op.at \notin Claimed /\ op'.at \notin Claimed \cup Undispatched
          /\ FieldKept(r)
        BY GateShape DEF Begins, Claimed, Undispatched
    <2>2. /\ HasLoose(r)' <=> HasLoose(r)
          /\ HasAutomatic(r)' <=> HasAutomatic(r)
          /\ \A o : HasAttempt(r, o)' <=> HasAttempt(r, o)
          /\ attempts[r] = << >> \/ ~HasAttempt(r, "in_flight") => ~HasLoose(r)
        BY <2>1 DEF FieldKept, HasLoose, Loose, HasAutomatic, HasAttempt
    <2>3. Clear(r) => Clear(r)'
        BY <2>1, FieldKeepsClear
    <2>4. r \in waiting' => r \in waiting
        BY DEF Begins
    <2>5. AutomaticIsClear(r)'
        BY <2>1, <2>3, <2>4
        DEF Begins, DeliveryOf, AutomaticIsClear, FieldKept, WillWait
    <2>6. LooseIsStuck(r)'
        BY <2>1, <2>2, <2>4
        DEF Begins, DeliveryOf, LooseIsStuck, FieldKept, WillWait, Claimed
    <2>7. InsertedIsFinal(r)' /\ ClaimIsOfKind(r)'
        BY <2>1, <2>2
        DEF Begins, DeliveryOf, InsertedIsFinal, ClaimIsOfKind
    <2>8. NothingLoose(r)' /\ OneAttempt(r)'
        BY <2>1, <2>2 DEF DeliveryOf, NothingLoose, OneAttempt, FieldKept
    <2>9. QED
        BY <1>2, <2>5, <2>6, <2>7, <2>8 DEF DeliveryOf
<1>3. QED
    BY <1>1, <1>2

\* A run with no claim that may have typed has typed nothing.
LEMMA NothingTyped ==
    ASSUME TypeInvariant, ClaimInvariant, NEW r \in Runs, Present(r),
           \A o \in {"in_flight", "inserted", "uncertain"} : ~HasAttempt(r, o)
    PROVE  typed[r] = 0
<1>1. typed[r] \in Nat
    BY DEF TypeInvariant, TypeOK, ProtocolTypeOK
<1>2. QED
    BY <1>1 DEF ClaimInvariant, TypedIsTold, HasAttempt

\* Every operation of the gate keeps every delivery.
LEMMA GateKeepsDelivery ==
    ASSUME TypeInvariant, TypeOK', ClaimInvariant, RouteInvariant,
           RouteInvariant', Next, Gate, DeliveryInvariant, NEW q \in Runs
    PROVE  DeliveryOf(q)'
<1> USE DEF DeliveryInvariant
<1>1. TypeOK /\ OperationRoute
    BY DEF TypeInvariant, RouteInvariant
<1>2. CASE AutoStart /\ op' # Idle
    <2>1. PICK r \in Runs : r = Head(queue).run /\ Granted("auto")
        BY <1>1, <1>2, GrantedType DEF AutoStart, TypeOK, Callers
    <2>2. op = Idle /\ Requested(r)
        BY <1>1, <2>1, GrantedQueue
    <2>3. op' = Opened("verify") /\ waiting' = waiting
        BY <1>2 DEF AutoStart, Release
    <2>4. Begins(r, "auto")
        BY <2>1, <2>2, <2>3, OpenedFields DEF Begins
    <2>5. attempts[r] = << >>
        BY <2>2 DEF RouteInvariant, RouteOf, NoStrayAttempts
    <2>6. Present(r) => typed[r] = 0
        BY <2>5, NothingTyped DEF HasAttempt
    <2>7. QED
        BY <2>4, <2>5, <2>6, BeginKeepsDelivery DEF Clear
<1>3. CASE TickStart /\ op' # Idle
    <2>1. op = Idle /\ Granted("tick")
        BY <1>1, <1>3, GrantedQueue DEF TickStart
    <2>2. PICK r \in waiting :
             /\ op' \in {[Opened("look") EXCEPT !.run = r],
                         [Opened("look") EXCEPT !.run = r, !.at = "result",
                                                !.result = "cancelled"],
                         [Opened("look") EXCEPT !.run = r, !.at = "result",
                                                !.result = "held"]}
             /\ waiting' = waiting
        BY <1>3 DEF TickStart, Release, Opened, Idle
    <2>3. r \in Runs
        BY <1>1, <2>2 DEF TypeOK, ControlTypeOK
    <2>4. Begins(r, "tick")
        BY <2>1, <2>2 DEF Begins, Opened, Idle, Granted
    <2>5. QED
        BY <2>2, <2>3, <2>4, BeginKeepsDelivery
<1>4. CASE ExplicitStart /\ op' # Idle
    <2>1. PICK r \in Runs : r = Head(queue).run /\ Granted("explicit")
        BY <1>1, <1>4, GrantedType DEF ExplicitStart, TypeOK, Callers
    <2> DEFINE o == [Opened("verify") EXCEPT !.entry = r \in waiting]
    <2>2. /\ MayInsert(r, Head(queue).version, Head(queue).ack)
          /\ waiting' = waiting \ {r} /\ op' = Begin(o, r \in aborted)
          /\ op = Idle
        BY <1>1, <1>4, <2>1, GrantedQueue DEF ExplicitStart, Release
    <2>3. /\ o.by = "explicit" /\ o.run = r /\ o.at = "verify"
          /\ o.jumped = FALSE /\ o.entry = (r \in waiting)
          /\ o.ack = Head(queue).ack
        BY <2>1 DEF Opened, Idle, Granted
    <2>4. /\ op'.by = o.by /\ op'.run = o.run
          /\ op'.at \in {"verify", "result"}
          /\ op'.entry = o.entry /\ op'.ack = o.ack
        <3>1. op' = [o EXCEPT !.at = "verify"]
              \/ op' = [o EXCEPT !.at = "result", !.result = "cancelled"]
            BY <2>2, <2>3 DEF Begin
        <3>2. Opened("verify") \in Operation
            BY <1>1, <2>1, GrantedType DEF TypeOK, Callers, Phases
        <3>3. ASSUME NEW entry \in BOOLEAN
              PROVE  [Opened("verify") EXCEPT !.entry = entry] \in Operation
            BY <3>2 DEF Operation
        <3>4. o \in Operation
            <4>1. (r \in waiting) \in BOOLEAN
                OBVIOUS
            <4>2. QED
                BY <3>3, <4>1
        <3>5. QED
            BY <3>1, <3>4 DEF Operation
    <2>5. Begins(r, "explicit")
        BY <2>2, <2>3, <2>4 DEF Begins
    <2>6. /\ ~HasAttempt(r, "inserted") /\ ~HasAttempt(r, "in_flight")
          /\ Head(queue).ack \/ ~HasAttempt(r, "uncertain")
          /\ Present(r)
        BY <2>2 DEF MayInsert, Visible
    <2>7. Head(queue).ack \/ typed[r] = 0
        BY <2>6, NothingTyped
    <2>8. QED
        BY <2>3, <2>4, <2>5, <2>6, <2>7, BeginKeepsDelivery
<1>5. CASE AutoApply /\ op' # Idle
    <2>1. PICK r \in Runs : /\ r = op.run /\ op \in Operation
                            /\ op.by = "auto" /\ op.at = "result"
        BY <1>1, <1>5, GateTypes DEF AutoApply
    <2>2. /\ op' \in {[op EXCEPT !.at = "applied", !.result = "none"],
                      [op EXCEPT !.at = "applied"]}
          /\ waiting' = waiting
        BY <1>5 DEF AutoApply, Release
    <2>3. op'.at = "applied" /\ op'.by = "auto" /\ op'.run = r
        BY <2>1, <2>2 DEF Operation
    <2>4. CASE q # r
        BY <2>1, <2>2, <2>3, <2>4, OthersKeepDelivery
    <2>5. CASE q = r
        <3>1. FieldKept(r)
            BY GateShape
        <3>2. /\ HasLoose(r)' <=> HasLoose(r)
              /\ HasAutomatic(r)' <=> HasAutomatic(r)
              /\ \A o : HasAttempt(r, o)' <=> HasAttempt(r, o)
            BY <2>1, <2>3, <3>1
            DEF FieldKept, HasLoose, Loose, HasAutomatic, HasAttempt, Claimed
        <3>3. AutomaticIsClear(r)'
            BY <2>1, <2>2, <2>3, <3>1, FieldKeepsClear
            DEF DeliveryOf, AutomaticIsClear, WillWait, Undispatched
        <3>4. LooseIsStuck(r)'
            BY <2>1, <2>2, <2>3, <3>1, <3>2
            DEF DeliveryOf, LooseIsStuck, FieldKept, WillWait, Claimed, Unclaimed
        <3>5. InsertedIsFinal(r)' /\ ClaimIsOfKind(r)'
            BY <2>3, <3>2
            DEF DeliveryOf, InsertedIsFinal, ClaimIsOfKind, Claimed
        <3>6. NothingLoose(r)' /\ OneAttempt(r)'
            BY <3>1, <3>2 DEF DeliveryOf, NothingLoose, OneAttempt, FieldKept
        <3>7. QED
            BY <2>5, <3>3, <3>4, <3>5, <3>6 DEF DeliveryOf
    <2>6. QED
        BY <2>4, <2>5
<1>6. CASE CancelStart /\ op' # Idle
    <2>1. /\ op' = [Opened("cancel_write") EXCEPT
                       !.version = rows[Head(queue).run].version]
          /\ Granted("cancel") /\ waiting' = waiting
        BY <1>6 DEF CancelStart, Release, cancelRest
    <2>2. op'.by = "cancel" /\ op'.at = "cancel_write"
        BY <2>1 DEF Opened, Idle, Granted
    <2>3. QED
        BY <2>1, <2>2, EndKeepsDelivery DEF Claimed
<1>7. CASE op' = Idle
    <2>1. q \in waiting' =>
             \/ q \in waiting
             \/ op.run = q /\ (op.by = "auto" \/ WillWait)
        <3>1. CASE AutoSettle
            BY <3>1 DEF AutoSettle
        <3>2. CASE ExplicitReturns
            BY <3>2 DEF ExplicitReturns, WillWait
        <3>3. CASE ~AutoSettle /\ ~ExplicitReturns
            BY <3>3
            DEF Gate, AutoStart, AutoApply, TickStart, TickApply, ExplicitStart,
                ExplicitApply, CancelStart, CancelWrite, cancelRest
        <3>4. QED
            BY <3>1, <3>2, <3>3
    <2>2. QED
        BY <1>7, <2>1, EndKeepsDelivery
<1>8. CASE op' # Idle
    BY <1>2, <1>3, <1>4, <1>5, <1>6, <1>8
    DEF Gate, AutoSettle, TickApply, ExplicitApply, ExplicitReturns,
        CancelWrite, Release
<1>9. QED
    BY <1>7, <1>8

-----------------------------------------------------------------------------
(* The steps of the protocol. *)

\* A waiting entry an explicit operation will give back was its to give.
LEMMA WillWaitStays ==
    ASSUME ProtocolTypeOK, OperationRoute, NEW cancelled, ProtocolStep(cancelled)
    PROVE  WillWait' => WillWait
<1>1. OpSteps
    BY ProtocolOp
<1>2. CASE op.at \notin {"confirm", "resolve", "restore"}
    <2>1. op.at # "confirm" /\ op.result = "none"
        BY <1>2
        DEF OperationRoute, ProtocolStep, Look, VerifyFirst, ClaimAttempt,
            Recheck, Reverify, Dispatch, Confirm, Resolve, Restore
    <2>2. QED
        BY <1>1, <2>1 DEF OpSteps, WillWait, DispatchResults
<1>3. CASE op.at = "confirm"
    <2>1. op'.result \in DispatchResults
        BY <1>1, <1>3
        DEF OpSteps, ProtocolStep, Look, VerifyFirst, ClaimAttempt, Recheck,
            Reverify, Dispatch, Confirm, Resolve, Restore, ResolveAs,
            DispatchResults, Operation
    <2>2. QED
        BY <2>1 DEF WillWait
<1>4. CASE op.at = "resolve"
    <2>1. Return(op.result)
        BY <1>4
        DEF ProtocolStep, Look, VerifyFirst, ClaimAttempt, Recheck, Reverify,
            Dispatch, Confirm, Resolve, Restore
    <2>2. op.result \in DispatchResults \cup {"cancelled"}
        BY <1>1, <1>4
        DEF OpSteps, OperationRoute, Operation, Outcomes, DispatchResults
    <2>3. op'.result = op.result
        BY <1>1, <2>1 DEF OpSteps, Return, Operation
    <2>4. QED
        BY <2>2, <2>3 DEF WillWait
<1>5. CASE op.at = "restore"
    BY <1>1, <1>5 DEF OpSteps, OperationRoute, WillWait
<1>6. QED
    BY <1>2, <1>3, <1>4, <1>5

\* What the steps of an operation on r have in common.
Steps(r) ==
    /\ op.run = r /\ OpSteps /\ waiting' = waiting
    /\ WillWait' => WillWait

\* Before the claim, and when the focus goes back.
LEMMA UnclaimedKeepsDelivery ==
    ASSUME NEW r \in Runs, Steps(r), OperationRoute, DeliveryOf(r), FieldKept(r),
           op.at \in Unclaimed \cup {"restore"},
           op'.at \in {"verify", "claim", "restore", "result"},
           op'.at \in Unclaimed => op.at \in Unclaimed
    PROVE  DeliveryOf(r)'
<1>1. /\ op'.run = r /\ op'.by = op.by /\ op'.ack = op.ack
      /\ op.at \notin Claimed \cup Undispatched
      /\ op'.at \notin Claimed \cup Undispatched
    BY DEF Steps, OpSteps, Claimed, Undispatched, Unclaimed
<1>2. /\ HasLoose(r)' <=> HasLoose(r)
      /\ HasAutomatic(r)' <=> HasAutomatic(r)
      /\ \A o : HasAttempt(r, o)' <=> HasAttempt(r, o)
    BY <1>1 DEF FieldKept, HasLoose, Loose, HasAutomatic, HasAttempt
<1>3. AutomaticIsClear(r)'
    BY <1>1, FieldKeepsClear
    DEF Steps, DeliveryOf, AutomaticIsClear, FieldKept
<1>4. LooseIsStuck(r)'
    BY <1>1, <1>2
    DEF Steps, DeliveryOf, LooseIsStuck, FieldKept, Claimed
<1>5. InsertedIsFinal(r)' /\ ClaimIsOfKind(r)'
    BY <1>1, <1>2 DEF Steps, DeliveryOf, InsertedIsFinal, ClaimIsOfKind
<1>6. NothingLoose(r)' /\ OneAttempt(r)'
    BY <1>2 DEF DeliveryOf, NothingLoose, OneAttempt, FieldKept
<1>7. QED
    BY <1>3, <1>4, <1>5, <1>6 DEF DeliveryOf

\* From a claim back to the caller: an attempt left in flight is loose now.
LEMMA RetreatKeepsDelivery ==
    ASSUME NEW r \in Runs, Steps(r), DeliveryOf(r), Clear(r) => Clear(r)',
           op'.at \in {"restore", "result"},
           HasLoose(r)' =>
              \/ r \in aged' \/ HasAutomatic(r)'
              \/ r \notin waiting /\ op.by # "tick" /\ ~WillWait',
           op.by = "auto" => attempts'[r] = << >> \/ HasAutomatic(r)',
           AttemptsAreSound(r)'
    PROVE  DeliveryOf(r)'
<1>1. /\ op'.run = r /\ op'.by = op.by /\ op'.ack = op.ack
      /\ op'.at \notin Claimed \cup Undispatched \cup Unclaimed
    BY DEF Steps, OpSteps, Claimed, Undispatched, Unclaimed
<1>2. AutomaticIsClear(r)'
    BY <1>1 DEF Steps, DeliveryOf, AutomaticIsClear
<1>3. LooseIsStuck(r)'
    BY <1>1 DEF Steps, LooseIsStuck, Claimed
<1>4. InsertedIsFinal(r)' /\ ClaimIsOfKind(r)'
    BY <1>1 DEF AttemptsAreSound, InsertedIsFinal, ClaimIsOfKind
<1>5. QED
    BY <1>2, <1>3, <1>4 DEF DeliveryOf, AttemptsAreSound

\* From the claim to its outcome the attempts stay as they are.
LEMMA ForwardKeepsDelivery ==
    ASSUME TypeInvariant, NEW r \in Runs, Steps(r), DeliveryOf(r),
           UNCHANGED <<rows, attempts, aged, up>>,
           used'["fault"] = 0 => used["fault"] = 0,
           op.at \in Claimed, op'.at \in Claimed \ {"recheck"},
           op'.attempt = op.attempt,
           op'.at \in Undispatched =>
              op.at \in Undispatched /\ typed'[r] = typed[r],
           \/ typed'[r] = typed[r]
           \/ Clear(r)' /\ ~WillWait'
           \/ op.by = "explicit" /\ r \notin waiting /\ ~WillWait',
           \/ op'.at \in {"reverify", "dispatch", "confirm"}
           \/ op'.at = "resolve" /\ op'.outcome \in {"inserted", "uncertain"}
           => ~HasLoose(r)
    PROVE  DeliveryOf(r)'
<1>1. /\ op'.run = r /\ op'.by = op.by /\ op'.ack = op.ack
      /\ op'.at \notin Unclaimed
    BY DEF Steps, OpSteps, Claimed, Unclaimed
<1>2. /\ HasLoose(r)' <=> HasLoose(r)
      /\ HasAutomatic(r)' <=> HasAutomatic(r)
      /\ \A o : HasAttempt(r, o)' <=> HasAttempt(r, o)
      /\ Present(r)' <=> Present(r)
    BY <1>1
    DEF Steps, HasLoose, Loose, HasAutomatic, HasAttempt, Present
<1>3. typed'[r] = typed[r] => (Clear(r)' <=> Clear(r))
    BY <1>2 DEF Clear
<1>4. AutomaticIsClear(r)'
    BY <1>1, <1>3 DEF Steps, DeliveryOf, AutomaticIsClear
<1>5. LooseIsStuck(r)'
    BY <1>1, <1>2 DEF Steps, DeliveryOf, LooseIsStuck
<1>6. InsertedIsFinal(r)' /\ ClaimIsOfKind(r)'
    BY <1>1, <1>2
    DEF Steps, DeliveryOf, InsertedIsFinal, ClaimIsOfKind, Kind
<1>7. NothingLoose(r)' /\ OneAttempt(r)'
    BY <1>2 DEF DeliveryOf, NothingLoose, OneAttempt
<1>8. QED
    BY <1>4, <1>5, <1>6, <1>7 DEF DeliveryOf

\* A claim adds an attempt that is not loose.
LEMMA ClaimKeepsDelivery ==
    ASSUME TypeInvariant, ClaimInvariant, NEW r \in Runs, Steps(r),
           DeliveryOf(r), up = "up",
           UNCHANGED <<rows, typed, aged, used, up>>,
           op.at = "claim", Visible(r), AddAttempt(r, Kind),
           ~(Kind = "automatic" /\ HasAutomatic(r)),
           op'.attempt = NextAttempt(r),
           \/ op'.at = "recheck"
           \/ op'.at = "resolve" /\ op'.outcome = "cancelled"
    PROVE  DeliveryOf(r)'
<1> DEFINE n == Len(attempts[r]) + 1
           new == [kind |-> Kind, outcome |-> "in_flight"]
<1>1. /\ op'.run = r /\ op'.by = op.by /\ op'.ack = op.ack
      /\ op'.at \in Claimed /\ op.at \notin Claimed /\ op.at \in Unclaimed
      /\ op'.attempt = n /\ op \in Operation
      /\ op'.at \notin Unclaimed \cup {"reverify", "dispatch", "confirm"}
      /\ Kind' = Kind
    BY DEF Steps, OpSteps, Claimed, Unclaimed, NextAttempt, Kind
<1>2. attempts[r] \in Seq(Attempt)
    BY DEF TypeInvariant, TypeOK, StoreTypeOK
<1>3. /\ DOMAIN attempts[r] = 1 .. (n - 1) /\ n \in Nat \ {0}
      /\ DOMAIN attempts'[r] = 1 .. n
      /\ attempts'[r][n] = new
      /\ \A b \in DOMAIN attempts[r] : attempts'[r][b] = attempts[r][b]
    BY <1>2 DEF AddAttempt, TypeInvariant, TypeOK, StoreTypeOK
<1>4. new.kind = Kind /\ new.outcome = "in_flight"
    OBVIOUS
<1>5. /\ \A b \in DOMAIN attempts'[r] :
            b = n \/ (b \in DOMAIN attempts[r] /\ attempts'[r][b] = attempts[r][b])
      /\ n \in DOMAIN attempts'[r] /\ n \notin DOMAIN attempts[r]
    BY <1>3
<1>6. /\ HasLoose(r)' => HasLoose(r)
      /\ HasAutomatic(r) => HasAutomatic(r)'
      /\ Kind = "automatic" => HasAutomatic(r)'
    BY <1>1, <1>3, <1>4, <1>5 DEF Steps, HasLoose, Loose, HasAutomatic
<1>7. ~HasAttempt(r, "inserted")
    <2>1. CASE op.by = "explicit"
        BY <1>1, <2>1 DEF Steps, DeliveryOf, InsertedIsFinal
    <2>2. CASE op.by # "explicit"
        <3>1. op.by \in {"auto", "tick"}
            BY <1>1, <2>2 DEF Steps, OpSteps, OperationRoute, Operation, Callers
        <3>2. typed[r] = 0
            BY <2>2, <3>1
            DEF Steps, DeliveryOf, AutomaticIsClear, Clear, Visible, Kind
        <3>3. QED
            BY <3>2 DEF ClaimInvariant, DoneMeansTyped
    <2>3. QED
        BY <2>1, <2>2
<1>8. Clear(r) => Clear(r)'
    BY <1>6 DEF Clear, Present
<1>9. AutomaticIsClear(r)'
    <2>1. /\ r \in waiting' => Clear(r)'
          /\ op'.run = r /\ op'.by \in {"auto", "tick"} => Clear(r)'
          /\ op'.run = r /\ WillWait' => Clear(r)'
        BY <1>1, <1>8 DEF Steps, DeliveryOf, AutomaticIsClear
    <2>2. op.by \in {"auto", "tick"} => typed[r] = 0
        BY DEF Steps, DeliveryOf, AutomaticIsClear, Clear, Visible, Kind
    <2>3. op.by = "explicit" /\ ~op.ack => typed[r] = 0
        BY <1>1 DEF Steps, DeliveryOf, AutomaticIsClear
    <2>4. QED
        BY <1>1, <2>1, <2>2, <2>3 DEF AutomaticIsClear
<1>10. LooseIsStuck(r)'
    <2>1. HasLoose(r)' =>
             \/ r \in aged' \/ HasAutomatic(r)'
             \/ /\ r \notin waiting'
                /\ ~(op'.run = r /\ (op'.by = "tick" \/ WillWait'))
        BY <1>1, <1>6 DEF Steps, DeliveryOf, LooseIsStuck
    <2>2. op'.by = "auto" => ~HasLoose(r)' /\ HasAutomatic(r)'
        <3>1. op.by = "auto" => attempts[r] = << >>
            BY <1>1 DEF Steps, DeliveryOf, LooseIsStuck
        <3>2. attempts[r] = << >> => ~HasLoose(r)
            BY DEF HasLoose, Loose
        <3>3. QED
            BY <1>1, <1>6, <3>1, <3>2 DEF Kind
    <2>3. op'.by = "explicit" => ~HasLoose(r)'
        BY <1>1, <1>6 DEF Steps, DeliveryOf, LooseIsStuck
    <2>4. op'.by = "tick" /\ HasLoose(r)' => r \in aged'
        BY <1>1, <1>6 DEF Steps, DeliveryOf, LooseIsStuck, Kind
    <2>5. op'.by \in {"auto", "tick", "explicit"}
        BY <1>1 DEF Steps, OpSteps, OperationRoute, Operation, Callers
    <2>6. op'.run = r /\ op'.at = "recheck" /\ HasLoose(r)' => r \in aged'
        BY <2>2, <2>3, <2>4, <2>5
    <2>7. QED
        BY <1>1, <2>1, <2>2, <2>3, <2>6 DEF LooseIsStuck
<1>11. InsertedIsFinal(r)'
    BY <1>1, <1>3, <1>4, <1>5, <1>7 DEF InsertedIsFinal, HasAttempt
<1>12. ClaimIsOfKind(r)'
    BY <1>1, <1>3, <1>4 DEF ClaimIsOfKind
<1>13. NothingLoose(r)'
    BY <1>6 DEF DeliveryOf, NothingLoose
<1>14. OneAttempt(r)'
    <2>1. \A b \in DOMAIN attempts[r] :
             /\ Kind = "automatic" => attempts[r][b].kind # "automatic"
             /\ used["fault"] = 0 => attempts[r][b].outcome # "in_flight"
        BY <1>1 DEF DeliveryOf, NothingLoose, HasLoose, Loose, HasAutomatic
    <2>2. QED
        BY <1>3, <1>4, <1>5, <2>1 DEF DeliveryOf, OneAttempt
<1>15. QED
    BY <1>9, <1>10, <1>11, <1>12, <1>13, <1>14 DEF DeliveryOf

\* resolve_attempt changes the outcome of one attempt.
LEMMA OutcomeStored ==
    ASSUME StoreTypeOK, NEW r \in Runs, NEW a \in DOMAIN attempts[r],
           NEW outcome, SetOutcome(r, a, outcome)
    PROVE  /\ DOMAIN attempts'[r] = DOMAIN attempts[r]
           /\ attempts'[r][a].outcome = outcome
           /\ \A b \in DOMAIN attempts[r] :
                 /\ attempts'[r][b].kind = attempts[r][b].kind
                 /\ b # a => attempts'[r][b] = attempts[r][b]
           /\ \A q \in Runs \ {r} : attempts'[q] = attempts[q]
<1>1. attempts[r] \in Seq(Attempt) /\ attempts \in [Runs -> Seq(Attempt)]
    BY DEF StoreTypeOK
<1>2. attempts'[r] = [attempts[r] EXCEPT ![a].outcome = outcome]
      /\ \A q \in Runs \ {r} : attempts'[q] = attempts[q]
    BY <1>1 DEF SetOutcome
<1>3. /\ attempts[r] \in [DOMAIN attempts[r] -> Attempt]
    BY <1>1
<1>4. attempts'[r] = [attempts[r] EXCEPT ![a] =
                         [attempts[r][a] EXCEPT !.outcome = outcome]]
    BY <1>2
<1>5. /\ DOMAIN attempts'[r] = DOMAIN attempts[r]
      /\ attempts'[r][a] = [attempts[r][a] EXCEPT !.outcome = outcome]
      /\ \A b \in DOMAIN attempts[r] : b # a => attempts'[r][b] = attempts[r][b]
    BY <1>3, <1>4
<1>6. attempts[r][a] \in Attempt
    BY <1>3
<1>7. QED
    BY <1>2, <1>5, <1>6 DEF Attempt

\* A claim whose outcome was stored: what is still in flight was loose before.
LEMMA SettledKeepsDelivery ==
    ASSUME TypeInvariant, NEW r \in Runs, Steps(r), DeliveryOf(r),
           UNCHANGED <<rows, typed, aged, used, up>>,
           op.at \in Claimed, op'.at \in {"restore", "result"},
           op.attempt \in DOMAIN attempts[r],
           attempts[r][op.attempt].outcome = "in_flight",
           NEW outcome \in Outcomes \ {"in_flight"},
           outcome = "inserted" => ~HasLoose(r),
           SetOutcome(r, op.attempt, outcome)
    PROVE  DeliveryOf(r)'
<1>1. /\ DOMAIN attempts'[r] = DOMAIN attempts[r]
      /\ attempts'[r][op.attempt].outcome = outcome
      /\ \A b \in DOMAIN attempts[r] :
            /\ attempts'[r][b].kind = attempts[r][b].kind
            /\ b # op.attempt => attempts'[r][b] = attempts[r][b]
    BY OutcomeStored DEF TypeInvariant, TypeOK
<1>2. ASSUME NEW b \in DOMAIN attempts'[r],
             attempts'[r][b].outcome = "in_flight"
      PROVE  Loose(r, b) /\ attempts[r][b].outcome = "in_flight"
    BY <1>1, <1>2 DEF Loose
<1>3. /\ HasLoose(r)' => HasLoose(r)
      /\ HasAttempt(r, "in_flight")' =>
            HasLoose(r) /\ HasAttempt(r, "in_flight")
      /\ HasAutomatic(r)' <=> HasAutomatic(r)
      /\ HasAttempt(r, "inserted")' =>
            HasAttempt(r, "inserted") \/ outcome = "inserted"
    BY <1>1, <1>2 DEF HasLoose, Loose, HasAttempt, HasAutomatic
<1>4. Clear(r) => Clear(r)'
    BY <1>3 DEF Clear, Present
<1>5. HasLoose(r)' =>
         \/ r \in aged' \/ HasAutomatic(r)'
         \/ r \notin waiting /\ op.by # "tick" /\ ~WillWait'
    BY <1>3 DEF DeliveryOf, LooseIsStuck, Steps
<1>6. op.by = "auto" => attempts'[r] = << >> \/ HasAutomatic(r)'
    BY <1>3 DEF DeliveryOf, LooseIsStuck, Steps
<1>7. AttemptsAreSound(r)'
    <2>1. HasAttempt(r, "inserted")' => ~HasAttempt(r, "in_flight")'
        BY <1>3 DEF DeliveryOf, InsertedIsFinal
    <2>2. NothingLoose(r)'
        BY <1>3 DEF DeliveryOf, NothingLoose
    <2>3. OneAttempt(r)'
        BY <1>1, <1>2 DEF DeliveryOf, OneAttempt
    <2>4. QED
        BY <2>1, <2>2, <2>3 DEF AttemptsAreSound
<1>8. QED
    BY <1>4, <1>5, <1>6, <1>7, RetreatKeepsDelivery

\* A claim whose outcome could not be stored, or that has none: its attempt is
\* left as it is.
LEMMA LostKeepsDelivery ==
    ASSUME TypeInvariant, NEW r \in Runs, Steps(r), DeliveryOf(r),
           UNCHANGED <<rows, typed, aged, attempts, up>>,
           used'["fault"] = 0 => used["fault"] = 0,
           op.at \in Claimed, op'.at \in {"restore", "result"},
           HasLoose(r)' =>
              \/ HasLoose(r) /\ ~WillWait'
              \/ used'["fault"] # 0
                 /\ \/ r \in aged \/ HasAutomatic(r)
                    \/ r \notin waiting /\ op.by # "tick" /\ ~WillWait'
    PROVE  DeliveryOf(r)'
<1>1. /\ HasAutomatic(r)' <=> HasAutomatic(r)
      /\ \A o : HasAttempt(r, o)' <=> HasAttempt(r, o)
      /\ Clear(r)' <=> Clear(r)
    BY DEF HasAttempt, HasAutomatic, Clear, Present
<1>2. HasLoose(r)' =>
         \/ r \in aged' \/ HasAutomatic(r)'
         \/ r \notin waiting /\ op.by # "tick" /\ ~WillWait'
    BY <1>1 DEF DeliveryOf, LooseIsStuck, Steps
<1>3. op.by = "auto" => attempts'[r] = << >> \/ HasAutomatic(r)'
    BY <1>1 DEF DeliveryOf, LooseIsStuck, Steps
<1>4. AttemptsAreSound(r)'
    BY <1>1
    DEF DeliveryOf, InsertedIsFinal, NothingLoose, OneAttempt, AttemptsAreSound
<1>5. QED
    BY <1>1, <1>2, <1>3, <1>4, RetreatKeepsDelivery

\* The run is deleted under its claim.
LEMMA DroppedKeepsDelivery ==
    ASSUME StoreTypeOK, NEW r \in Runs, Steps(r), DeliveryOf(r), DeleteRow(r),
           op'.at \in {"restore", "result"}
    PROVE  DeliveryOf(r)'
<1>1. ~Present(r)' /\ attempts'[r] = << >>
    BY DEF DeleteRow, StoreTypeOK, Tombstone, Present, Status, Dispatchable,
           Terminal
<1>2. /\ Clear(r)' /\ ~HasLoose(r)' /\ \A o : ~HasAttempt(r, o)'
    BY <1>1 DEF Clear, HasLoose, Loose, HasAttempt
<1>3. AttemptsAreSound(r)'
    BY <1>1, <1>2 DEF AttemptsAreSound, NothingLoose, OneAttempt
<1>4. QED
    BY <1>1, <1>2, <1>3, RetreatKeepsDelivery

\* Where a step may leave the protocol: back to its caller.
LEMMA Returned ==
    ASSUME op \in Operation, NEW result, Return(result)
    PROVE  /\ op'.at \in {"restore", "result"} /\ op'.result = result
           /\ op'.attempt = op.attempt
BY DEF Return, Operation

LEMMA Resolved ==
    ASSUME op \in Operation, NEW known, ResolveAs(known, known)
    PROVE  /\ op'.at = "resolve" /\ op'.outcome = known /\ op'.result = known
           /\ op'.attempt = op.attempt
BY DEF ResolveAs, Operation

\* The looks before the claim, the refusals of the claim, and the return of
\* the focus leave the field.
LEMMA LooksKeepDelivery ==
    ASSUME TypeInvariant, ClaimInvariant, RouteInvariant, NEW r \in Runs,
           Steps(r), DeliveryOf(r), up = "up", up' = up, NEW cancelled,
           Look(cancelled) \/ VerifyFirst \/ Restore
    PROVE  DeliveryOf(r)'
<1>1. op \in Operation /\ op.run = r
    BY DEF Steps, OpSteps
<1>2. UNCHANGED <<rows, attempts, aged, typed>> /\ FaultsKept
    BY DEF Look, VerifyFirst, Restore, protocolRest, FaultsKept, Budgets
<1>3. FieldKept(r)
    BY <1>2, FaultsGrow
    DEF FieldKept, FreshIsUntyped, Present, TypeInvariant, TypeOK
<1>4. /\ op.at \in {"look", "verify", "restore"}
      /\ op'.at \in {"verify", "claim", "restore", "result"}
      /\ op.at = "restore" => op'.at = "result"
    <2>1. CASE Look(cancelled)
        <3>1. ASSUME NEW o \in Operation, op' = Begin(o, cancelled)
              PROVE  op'.at \in {"verify", "restore", "result"}
            BY <3>1 DEF Begin, Operation
        <3>2. [op EXCEPT !.jumped = TRUE] \in Operation
            BY <1>1 DEF Operation
        <3>3. ASSUME NEW result,
                     op' = [op EXCEPT !.at = "restore", !.jumped = TRUE,
                                      !.result = result]
              PROVE  op'.at = "restore"
            BY <1>1, <3>3 DEF Operation
        <3>4. QED
            BY <1>1, <2>1, <3>1, <3>2, <3>3, Returned DEF Look
    <2>2. CASE VerifyFirst
        BY <1>1, <2>2, Returned DEF VerifyFirst, Operation
    <2>3. CASE Restore
        BY <1>1, <2>3 DEF Restore, Operation
    <2>4. QED
        BY <2>1, <2>2, <2>3
<1>5. QED
    BY <1>3, <1>4, UnclaimedKeepsDelivery DEF Unclaimed, RouteInvariant

LEMMA ClaimStepKeepsDelivery ==
    ASSUME TypeInvariant, ClaimInvariant, RouteInvariant, NEW r \in Runs,
           Steps(r), DeliveryOf(r), up = "up", up' = up, NEW cancelled,
           ClaimAttempt(cancelled)
    PROVE  DeliveryOf(r)'
<1>1. op \in Operation /\ op.run = r /\ op.at = "claim"
    BY DEF Steps, OpSteps, ClaimAttempt
<1>2. UNCHANGED <<rows, aged, typed>> /\ FaultsKept
    BY DEF ClaimAttempt, storeRest, protocolRest, FaultsKept, Budgets
<1>3. CASE attempts' = attempts /\ \E result : Return(result)
    <2>1. FieldKept(r)
        BY <1>2, <1>3, FaultsGrow
        DEF FieldKept, FreshIsUntyped, Present, TypeInvariant, TypeOK
    <2>2. op'.at \in {"restore", "result"}
        BY <1>1, <1>3, Returned
    <2>3. QED
        BY <1>1, <2>1, <2>2, UnclaimedKeepsDelivery DEF Unclaimed, RouteInvariant
<1>4. CASE /\ Visible(r) /\ ~(Kind = "automatic" /\ HasAutomatic(r))
           /\ AddAttempt(r, Kind) /\ used' = used
           /\ LET claimed == [op EXCEPT !.attempt = NextAttempt(r)]
              IN  op' = IF cancelled
                        THEN [claimed EXCEPT !.at = "resolve",
                                             !.outcome = "cancelled",
                                             !.result = "cancelled"]
                        ELSE [claimed EXCEPT !.at = "recheck"]
    <2>1. /\ op'.attempt = NextAttempt(r)
          /\ \/ op'.at = "recheck"
             \/ op'.at = "resolve" /\ op'.outcome = "cancelled"
        BY <1>1, <1>4 DEF Operation
    <2>2. QED
        BY <1>1, <1>2, <1>4, <2>1, ClaimKeepsDelivery
<1>5. QED
    BY <1>1, <1>3, <1>4 DEF ClaimAttempt

\* The verifications after the claim leave the attempts.
LEMMA ReverifyKeepsDelivery ==
    ASSUME TypeInvariant, ClaimInvariant, RouteInvariant, NEW r \in Runs,
           Steps(r), DeliveryOf(r), up = "up", up' = up, NEW cancelled,
           Reverify(cancelled) \/ Confirm
    PROVE  DeliveryOf(r)'
<1>1. /\ op \in Operation /\ op.run = r /\ op.at \in {"reverify", "confirm"}
      /\ UNCHANGED <<rows, attempts, aged, used, typed>>
    BY DEF Steps, OpSteps, Reverify, Confirm, protocolRest
<1>2. ~HasLoose(r)
    BY <1>1 DEF DeliveryOf, LooseIsStuck
<1>3. /\ op'.at \in {"resolve", "dispatch"} /\ op'.attempt = op.attempt
      /\ op'.at = "dispatch" => op.at = "reverify"
    <2>1. CASE Reverify(cancelled)
        BY <1>1, <2>1, Resolved DEF Reverify, Operation
    <2>2. CASE Confirm
        BY <1>1, <2>2, Resolved DEF Confirm
    <2>3. QED
        BY <2>1, <2>2
<1>4. QED
    BY <1>1, <1>2, <1>3, ForwardKeepsDelivery DEF Claimed, Undispatched

\* A claim for a run that is there is told by its attempt.
LEMMA ClaimIsTold ==
    ASSUME ClaimInvariant, RouteInvariant, NEW r \in Runs, op.run = r,
           DeliveryOf(r), op.at \in Claimed
    PROVE  /\ Present(r) => Resolvable(r, op.attempt)
           /\ op.by # "explicit" => HasAutomatic(r) \/ ~Present(r)
           /\ ~Present(r) => attempts[r] = << >>
           /\ op.by = "explicit" => r \notin waiting
<1>1. Present(r) => /\ op.attempt \in DOMAIN attempts[r]
                    /\ attempts[r][op.attempt].outcome = "in_flight"
                    /\ attempts[r][op.attempt].kind = Kind
    BY DEF ClaimInvariant, ClaimInFlight, DeliveryOf, ClaimIsOfKind
<1>2. QED
    BY <1>1
    DEF Resolvable, HasAutomatic, Kind, RouteInvariant, RouteOf,
        NoStrayAttempts, WaitingRow

\* The dispatch: its claim keeps what it types from an automatic one.
LEMMA DispatchKeepsDelivery ==
    ASSUME TypeInvariant, ClaimInvariant, RouteInvariant, NEW r \in Runs,
           Steps(r), DeliveryOf(r), up = "up", up' = up, Dispatch
    PROVE  DeliveryOf(r)'
<1>1. /\ op \in Operation /\ op.run = r /\ op.at = "dispatch"
      /\ UNCHANGED <<rows, attempts, aged, used>>
      /\ op.by \in {"auto", "tick", "explicit"}
    BY DEF Steps, OpSteps, Dispatch, RouteInvariant, OperationRoute, Operation,
           Callers
<1>2. ~HasLoose(r)
    BY <1>1 DEF DeliveryOf, LooseIsStuck
<1>3. /\ op'.at \in {"confirm", "resolve"} /\ op'.attempt = op.attempt
      /\ op'.at = "confirm" \/ op'.result \in DispatchResults
    BY <1>1, Resolved DEF Dispatch, Operation, DispatchResults
<1>4. ~WillWait'
    BY <1>3 DEF WillWait
<1>5. \/ Clear(r)' /\ ~WillWait'
      \/ op.by = "explicit" /\ r \notin waiting /\ ~WillWait'
    <2>1. op.by # "explicit" => HasAutomatic(r) \/ ~Present(r)
        BY <1>1, ClaimIsTold DEF Claimed
    <2>2. op.by = "explicit" => r \notin waiting
        BY <1>1, ClaimIsTold DEF Claimed
    <2>3. HasAutomatic(r) \/ ~Present(r) => Clear(r)'
        BY <1>1 DEF Clear, HasAutomatic, Present
    <2>4. QED
        BY <1>4, <2>1, <2>2, <2>3
<1>6. QED
    BY <1>1, <1>2, <1>3, <1>5, ForwardKeepsDelivery DEF Claimed, Undispatched

\* The outcome is stored, or the attempt is left in flight.
LEMMA ResolveKeepsDelivery ==
    ASSUME TypeInvariant, ClaimInvariant, RouteInvariant, NEW r \in Runs,
           Steps(r), DeliveryOf(r), up = "up", up' = up, Resolve
    PROVE  DeliveryOf(r)'
<1>1. /\ op \in Operation /\ op.run = r /\ op.at = "resolve"
      /\ UNCHANGED <<rows, aged, typed>> /\ Return(op.result)
      /\ op.outcome \in Outcomes \ {"in_flight"} /\ op.result = op.outcome
      /\ op.by \in {"auto", "tick", "explicit"}
    BY DEF Steps, OpSteps, Resolve, storeRest, protocolRest, RouteInvariant,
           OperationRoute, Operation, Callers
<1>2. op'.at \in {"restore", "result"} /\ op'.result = op.result
    BY <1>1, Returned
<1>3. ~WillWait'
    BY <1>1, <1>2 DEF WillWait, DispatchResults, Outcomes
<1>4. op'.at \notin Claimed
    BY <1>2 DEF Claimed
<1>5. CASE /\ Resolvable(r, op.attempt)
           /\ SetOutcome(r, op.attempt, op.outcome) /\ used' = used
    <2>1. op.outcome = "inserted" => ~HasLoose(r)
        BY <1>1 DEF DeliveryOf, LooseIsStuck
    <2>2. QED
        BY <1>1, <1>2, <1>5, <2>1, SettledKeepsDelivery DEF Resolvable, Claimed
<1>6. CASE ~Resolvable(r, op.attempt) /\ UNCHANGED <<attempts, used>>
    <2>1. HasLoose(r)' => HasLoose(r)
        BY <1>6 DEF HasLoose, Loose, Resolvable
    <2>2. QED
        BY <1>1, <1>2, <1>3, <1>6, <2>1, LostKeepsDelivery DEF Claimed
<1>7. CASE Use("fault") /\ attempts' = attempts
    <2>1. used'["fault"] # 0
        BY <1>7 DEF Use, Budgets, TypeInvariant, TypeOK, StoreTypeOK
    <2>2. attempts[r] = << >> => ~HasLoose(r)'
        BY <1>7 DEF HasLoose, Loose
    <2>3. HasLoose(r)' => Present(r)
        BY <1>1, <2>2, ClaimIsTold DEF Claimed
    <2>4. HasLoose(r)' =>
             \/ HasAutomatic(r)
             \/ r \notin waiting /\ op.by # "tick" /\ ~WillWait'
        BY <1>1, <1>3, <2>3, ClaimIsTold DEF Claimed
    <2>5. QED
        BY <1>1, <1>2, <1>7, <2>1, <2>4, LostKeepsDelivery DEF Claimed
<1>8. QED
    BY <1>1, <1>5, <1>6, <1>7 DEF Resolve

\* The second read: nothing goes on over a loose attempt.
LEMMA RecheckKeepsDelivery ==
    ASSUME TypeInvariant, ClaimInvariant, RouteInvariant, NEW r \in Runs,
           Steps(r), DeliveryOf(r), up = "up", up' = up, Recheck
    PROVE  DeliveryOf(r)'
<1>1. op \in Operation /\ op.run = r /\ op.at = "recheck" /\ typed' = typed
    BY DEF Steps, OpSteps, Recheck, protocolRest
<1>2. ASSUME NEW result, Return(result)
      PROVE  op'.at \in {"restore", "result"}
    BY <1>1, <1>2, Returned
<1>3. CASE /\ ~Visible(r) /\ Return("abandoned")
           /\ UNCHANGED <<rows, attempts, aged, deferred, used>>
    <2>1. ~HasAttempt(r, "in_flight")
        <3>1. ~Present(r) => attempts[r] = << >>
            BY <1>1, ClaimIsTold DEF Claimed
        <3>2. QED
            BY <1>3, <3>1 DEF Visible, HasAttempt
    <2>2. ~HasLoose(r)'
        BY <1>3, <2>1 DEF HasAttempt, HasLoose, Loose
    <2>3. QED
        BY <1>1, <1>2, <1>3, <2>2, LostKeepsDelivery DEF Claimed
<1>4. CASE /\ Visible(r) /\ Return("abandoned") /\ used' = used
           /\ \/ /\ SetOutcome(r, op.attempt, "cancelled")
                 /\ UNCHANGED <<rows, aged, deferred>>
              \/ RetentionDelete(r)
    <2>1. Resolvable(r, op.attempt)
        BY <1>1, <1>4, ClaimIsTold DEF Visible, Claimed
    <2>2. op'.at \in {"restore", "result"}
        BY <1>2, <1>4
    <2>3. CASE /\ SetOutcome(r, op.attempt, "cancelled")
               /\ UNCHANGED <<rows, aged, deferred>>
        BY <1>1, <1>4, <2>1, <2>2, <2>3, SettledKeepsDelivery
        DEF Resolvable, Claimed, Outcomes
    <2>4. CASE RetentionDelete(r)
        BY <2>2, <2>4, DroppedKeepsDelivery
        DEF RetentionDelete, TypeInvariant, TypeOK
    <2>5. QED
        BY <1>4, <2>3, <2>4
<1>5. CASE /\ r \in aged /\ Use("fault") /\ Return("abandoned")
           /\ UNCHANGED <<rows, attempts, aged, deferred>>
    <2>1. used'["fault"] # 0 /\ (used'["fault"] = 0 => used["fault"] = 0)
        BY <1>5 DEF Use, Budgets, TypeInvariant, TypeOK, StoreTypeOK
    <2>2. QED
        BY <1>1, <1>2, <1>5, <2>1, LostKeepsDelivery DEF Claimed
<1>6. CASE /\ r \notin aged /\ op' = [op EXCEPT !.at = "reverify"]
           /\ UNCHANGED <<rows, attempts, aged, deferred, used>>
    <2>1. op'.at = "reverify" /\ op'.attempt = op.attempt
        BY <1>1, <1>6 DEF Operation
    <2>2. ~HasLoose(r)
        BY <1>1, <1>6 DEF DeliveryOf, LooseIsStuck
    <2>3. QED
        BY <1>1, <1>6, <2>1, <2>2, ForwardKeepsDelivery
        DEF Claimed, Undispatched
<1>7. CASE /\ Use("fault") /\ ResolveAs("failed", "failed")
           /\ UNCHANGED <<rows, attempts, aged, deferred>>
    <2>1. used'["fault"] = 0 => used["fault"] = 0
        BY <1>7, FaultsGrow DEF FaultsKept, Budgets, TypeInvariant, TypeOK
    <2>2. /\ op'.at = "resolve" /\ op'.outcome = "failed"
          /\ op'.attempt = op.attempt
        BY <1>1, <1>7, Resolved
    <2>3. QED
        BY <1>1, <1>7, <2>1, <2>2, ForwardKeepsDelivery DEF Claimed, Undispatched
<1>8. QED
    BY <1>1, <1>3, <1>4, <1>5, <1>6, <1>7 DEF Recheck

LEMMA DeliverKeepsDelivery ==
    ASSUME TypeInvariant, TypeOK', ClaimInvariant, RouteInvariant,
           RouteInvariant', Next, Deliver, NEW q \in Runs, DeliveryOf(q)
    PROVE  DeliveryOf(q)'
<1>1. /\ ProtocolStep(OpCancelled) /\ up = "up" /\ up' = up
      /\ waiting' = waiting
    BY DEF Deliver, control
<1>2. OpSteps
    BY <1>1, ProtocolOp DEF TypeInvariant, TypeOK, RouteInvariant
<1>3. WillWait' => WillWait
    BY <1>1, WillWaitStays DEF TypeInvariant, TypeOK, RouteInvariant
<1>4. CASE op.run = q
    <2>1. Steps(q)
        BY <1>1, <1>2, <1>3, <1>4 DEF Steps
    <2>2. CASE Look(OpCancelled) \/ VerifyFirst \/ Restore
        BY <1>1, <2>1, <2>2, LooksKeepDelivery
    <2>3. CASE ClaimAttempt(OpCancelled)
        BY <1>1, <2>1, <2>3, ClaimStepKeepsDelivery
    <2>4. CASE Recheck
        BY <1>1, <2>1, <2>4, RecheckKeepsDelivery
    <2>5. CASE Reverify(OpCancelled) \/ Confirm
        BY <1>1, <2>1, <2>5, ReverifyKeepsDelivery
    <2>6. CASE Dispatch
        BY <1>1, <2>1, <2>6, DispatchKeepsDelivery
    <2>7. CASE Resolve
        BY <1>1, <2>1, <2>7, ResolveKeepsDelivery
    <2>8. QED
        BY <1>1, <2>2, <2>3, <2>4, <2>5, <2>6, <2>7 DEF ProtocolStep
<1>5. CASE op.run # q
    <2>1. op.run \in Runs /\ ~Delivering(q) /\ ~Delivering(q)'
        BY <1>2, <1>5 DEF OpSteps, Delivering
    <2>2. attempts'[q] = attempts[q]
        BY <1>1, <1>5, <2>1, ProtocolStore DEF TypeInvariant, TypeOK
    <2>3. /\ FaultsKept
          /\ aged' = aged \/ aged' = aged \ {op.run}
        BY <1>1
        DEF ProtocolStep, Look, VerifyFirst, ClaimAttempt, Recheck, Reverify,
            Dispatch, Confirm, Resolve, Restore, RetentionDelete, DeleteRow,
            storeRest, protocolRest, FaultsKept, Budgets
    <2>4. typed'[q] = typed[q]
        BY <1>5, OnlyDispatchTypes
        DEF TypeInvariant, TypeOK, ProtocolTypeOK
    <2>5. used'["fault"] = 0 => used["fault"] = 0
        BY <2>3, FaultsGrow DEF TypeInvariant, TypeOK
    <2>6. FieldKept(q)
        BY <1>1, <1>5, <2>2, <2>3, <2>4, <2>5, FreshRows DEF FieldKept
    <2>7. QED
        BY <1>1, <2>1, <2>6, QuietKeepsDelivery
        DEF OpKept, TypeInvariant, RouteInvariant
<1>6. QED
    BY <1>4, <1>5

-----------------------------------------------------------------------------
(* The invariant of the deliveries. *)

LEMMA DeliveryInit == Init => DeliveryInvariant
<1> SUFFICES ASSUME Init, NEW r \in Runs
             PROVE  DeliveryOf(r)
    BY DEF DeliveryInvariant
<1>1. attempts[r] = << >> /\ op = Idle /\ waiting = {}
    BY DEF Init, StoreInit, ProtocolInit
<1>2. /\ ~HasLoose(r) /\ \A o : ~HasAttempt(r, o)
      /\ op.run # r
    BY <1>1, RunsAssumption DEF HasLoose, Loose, HasAttempt, Idle
<1>3. AutomaticIsClear(r) /\ LooseIsStuck(r)
    BY <1>1, <1>2 DEF AutomaticIsClear, LooseIsStuck
<1>4. InsertedIsFinal(r) /\ ClaimIsOfKind(r)
    BY <1>2 DEF InsertedIsFinal, ClaimIsOfKind
<1>5. NothingLoose(r) /\ OneAttempt(r)
    BY <1>1, <1>2 DEF NothingLoose, OneAttempt
<1>6. QED
    BY <1>3, <1>4, <1>5 DEF DeliveryOf

LEMMA DeliveryStep ==
    ASSUME TypeInvariant, TypeInvariant', ClaimInvariant, RouteInvariant,
           RouteInvariant', DeliveryInvariant, Next
    PROVE  DeliveryInvariant'
<1> SUFFICES ASSUME NEW q \in Runs
             PROVE  DeliveryOf(q)'
    BY DEF DeliveryInvariant
<1>1. DeliveryOf(q) /\ TypeOK'
    BY DEF DeliveryInvariant, TypeInvariant
<1>2. CASE Deliver
    BY <1>1, <1>2, DeliverKeepsDelivery
<1>3. CASE Gate
    BY <1>1, <1>3, GateKeepsDelivery
<1>4. CASE TickDue
    BY <1>1, <1>4, TickDueKeepsDelivery
<1>5. CASE Startup
    BY <1>1, <1>5, StartupKeepsDelivery
<1>6. CASE Crash
    BY <1>1, <1>6, CrashKeepsDelivery
<1>7. CASE \E r \in Runs : Work(r) \/ User(r) \/ Environment(r) \/ Background(r)
    BY <1>1, <1>7, RunStepKeepsDelivery
<1>8. QED
    BY <1>2, <1>3, <1>4, <1>5, <1>6, <1>7 DEF Next

LEMMA DeliveryStutters ==
    ASSUME DeliveryInvariant, UNCHANGED vars
    PROVE  DeliveryInvariant'
<1>1. /\ rows' = rows /\ attempts' = attempts /\ aged' = aged /\ used' = used
      /\ op' = op /\ typed' = typed /\ waiting' = waiting /\ up' = up
    BY DEF vars, store, protocol, control
<1>2. ASSUME NEW r \in Runs
      PROVE  DeliveryOf(r)'
    <2>1. /\ HasLoose(r)' <=> HasLoose(r)
          /\ HasAutomatic(r)' <=> HasAutomatic(r)
          /\ \A o : HasAttempt(r, o)' <=> HasAttempt(r, o)
          /\ Clear(r)' <=> Clear(r)
          /\ WillWait' <=> WillWait
          /\ Present(r)' <=> Present(r)
          /\ Kind' = Kind
        BY <1>1 DEF HasLoose, Loose, HasAutomatic, HasAttempt, Clear, Present,
                    WillWait, Kind
    <2>2. DeliveryOf(r)
        BY DEF DeliveryInvariant
    <2>3. AutomaticIsClear(r)' /\ LooseIsStuck(r)'
        BY <1>1, <2>1, <2>2 DEF DeliveryOf, AutomaticIsClear, LooseIsStuck
    <2>4. InsertedIsFinal(r)' /\ ClaimIsOfKind(r)'
        BY <1>1, <2>1, <2>2 DEF DeliveryOf, InsertedIsFinal, ClaimIsOfKind
    <2>5. NothingLoose(r)' /\ OneAttempt(r)'
        BY <1>1, <2>1, <2>2 DEF DeliveryOf, NothingLoose, OneAttempt
    <2>6. QED
        BY <2>3, <2>4, <2>5 DEF DeliveryOf
<1>3. QED
    BY <1>2 DEF DeliveryInvariant

\* What is dispatched has one claim, that claim was allowed, and no other is
\* open over it.
THEOREM DeliveryIsSafe == Spec => []DeliveryInvariant
<1>1. /\ TypeInvariant /\ TypeInvariant' /\ ClaimInvariant
      /\ RouteInvariant /\ RouteInvariant' /\ DeliveryInvariant /\ [Next]_vars
      => DeliveryInvariant'
    BY DeliveryStep, DeliveryStutters
<1>2. QED
    BY DeliveryInit, TypesInvariant, ClaimsInvariant, RouteIsSafe, <1>1, PTL
    DEF Spec

\* A run has one automatic attempt at most, over every restart; and while
\* every outcome could be stored it has one attempt in flight at most.
THEOREM AttemptsAreSingle == Spec => []OneAttemptAtATime
<1>1. DeliveryInvariant => OneAttemptAtATime
    <2> SUFFICES ASSUME DeliveryInvariant, NEW r \in Runs,
                        NEW a \in DOMAIN attempts[r],
                        NEW b \in DOMAIN attempts[r], a # b
                 PROVE  LET both(S) == attempts[r][a] \in S /\ attempts[r][b] \in S
                        IN  /\ ~both([kind : {"automatic"}, outcome : Outcomes])
                            /\ used["fault"] = 0 =>
                                  ~both([kind : {"automatic", "explicit"},
                                         outcome : {"in_flight"}])
        BY DEF OneAttemptAtATime
    <2>1. OneAttempt(r)
        BY DEF DeliveryInvariant, DeliveryOf
    <2>2. QED
        BY <2>1 DEF OneAttempt
<1>2. QED
    BY DeliveryIsSafe, <1>1, PTL

\* Text that may be in the field already is typed again only by an explicit
\* insert whose user acknowledged it.
THEOREM NothingTypedTwice == Spec => NoSilentDuplicate
<1>1. TypeInvariant /\ RouteInvariant /\ DeliveryInvariant /\ [Next]_vars =>
         [\A r \in Runs : typed'[r] > typed[r] /\ typed[r] > 0 =>
             op.by = "explicit" /\ op.ack]_vars
    <2> SUFFICES ASSUME TypeInvariant, RouteInvariant, DeliveryInvariant, Next,
                        NEW r \in Runs, typed'[r] > typed[r], typed[r] > 0
                 PROVE  op.by = "explicit" /\ op.ack
        BY DEF vars, protocol
    <2>1. typed \in [Runs -> Nat]
        BY DEF TypeInvariant, TypeOK, ProtocolTypeOK
    <2>2. op.at = "dispatch" /\ op.run = r
        BY <2>1, OnlyDispatchTypes DEF TypeInvariant
    <2>3. /\ op.by \in {"auto", "tick", "explicit"}
          /\ op.ack \in BOOLEAN
        BY <2>2 DEF TypeInvariant, TypeOK, ProtocolTypeOK, Operation, Idle,
                    Callers, RouteInvariant, OperationRoute
    <2>4. AutomaticIsClear(r)
        BY DEF DeliveryInvariant, DeliveryOf
    <2>5. QED
        BY <2>1, <2>2, <2>3, <2>4 DEF AutomaticIsClear, Undispatched
<1>2. QED
    BY TypesInvariant, RouteIsSafe, DeliveryIsSafe, <1>1, PTL
    DEF Spec, NoSilentDuplicate

-----------------------------------------------------------------------------
(* What a step does to the attempts of the runs. *)

\* A step of the protocol leaves the attempts, adds one to its run, settles
\* the one it claimed, or deletes the run.
LEMMA ProtocolAttempts ==
    ASSUME TypeInvariant, ClaimInvariant, RouteInvariant, NEW cancelled,
           ProtocolStep(cancelled)
    PROVE  \/ UNCHANGED <<rows, attempts, aged>>
           \/ /\ rows' = rows /\ typed' = typed
              /\ op.at = "claim" /\ Visible(op.run)
              /\ ~(Kind = "automatic" /\ HasAutomatic(op.run))
              /\ AddAttempt(op.run, Kind)
           \/ /\ rows' = rows /\ typed' = typed
              /\ op.at \in {"recheck", "resolve"}
              /\ Resolvable(op.run, op.attempt)
              /\ op.at = "recheck" =>
                    /\ SetOutcome(op.run, op.attempt, "cancelled")
                    /\ \E a \in DOMAIN attempts[op.run] \ {op.attempt} :
                          attempts[op.run][a].outcome = "in_flight"
              /\ op.at = "resolve" => SetOutcome(op.run, op.attempt, op.outcome)
           \/ typed' = typed /\ DeleteRow(op.run)
<1>1. op.at \in Claimed /\ Present(op.run) => Resolvable(op.run, op.attempt)
    BY DEF ClaimInvariant, ClaimInFlight, Resolvable
<1>2. CASE Recheck
    BY <1>1, <1>2
    DEF Recheck, RetentionDelete, protocolRest, Claimed, Visible
<1>3. CASE ~Recheck
    BY <1>3
    DEF ProtocolStep, Look, VerifyFirst, ClaimAttempt, Reverify, Dispatch,
        Confirm, Resolve, Restore, storeRest, protocolRest
<1>4. QED
    BY <1>2, <1>3

\* The attempts of a run are kept, added to, settled or deleted with it; what
\* is settled stays.
AttemptsEvolve(r) ==
    \/ attempts'[r] = << >>
    \/ \A a \in DOMAIN attempts[r] :
          attempts[r][a].outcome # "in_flight" => attempts'[r][a] = attempts[r][a]

\* Every step evolves the attempts in this way.
LEMMA AttemptsStep ==
    ASSUME TypeInvariant, ClaimInvariant, RouteInvariant, Next, NEW r \in Runs
    PROVE  AttemptsEvolve(r)
<1>1. attempts[r] \in Seq(Attempt) /\ attempts \in [Runs -> Seq(Attempt)]
    BY DEF TypeInvariant, TypeOK, StoreTypeOK
<1>2. CASE attempts'[r] = attempts[r]
    BY <1>2 DEF AttemptsEvolve
<1>3. ASSUME NEW q \in Runs, DeleteRow(q)
      PROVE  AttemptsEvolve(r)
    BY <1>1, <1>3 DEF DeleteRow, AttemptsEvolve
<1>4. CASE Deliver
    <2>1. ProtocolStep(OpCancelled) /\ OpSteps
        BY <1>4, ProtocolOp
        DEF Deliver, TypeInvariant, TypeOK, RouteInvariant
    <2>2. op.run \in Runs /\ op.outcome \in Outcomes
        BY <2>1 DEF OpSteps, Operation
    <2>3. CASE AddAttempt(op.run, Kind)
        BY <1>1, <2>2, <2>3 DEF AddAttempt, AttemptsEvolve
    <2>4. ASSUME Resolvable(op.run, op.attempt), NEW outcome,
                 SetOutcome(op.run, op.attempt, outcome)
          PROVE  AttemptsEvolve(r)
        BY <2>2, <2>4, OutcomeStored
        DEF Resolvable, AttemptsEvolve, TypeInvariant, TypeOK
    <2>5. QED
        BY <1>2, <1>3, <2>1, <2>2, <2>3, <2>4, ProtocolAttempts
<1>5. CASE Gate \/ TickDue \/ Crash
    BY <1>2, <1>5, GateKeeps DEF TickDue, Crash, store
<1>6. CASE Startup
    <2>1. CASE RecoverOnStartup
        BY <1>1, <2>1
        DEF RecoverOnStartup, RecoverStore, RecoveredAttempts, GivenUp,
            AttemptsEvolve
    <2>2. QED
        BY <1>2, <1>6, <2>1 DEF Startup, Serve, FailInterrupted, store
<1>7. CASE \E q \in Runs : Work(q) \/ User(q) \/ Environment(q) \/ Background(q)
    BY <1>2, <1>3, <1>7, RunStepShape
<1>8. QED
    BY <1>4, <1>5, <1>6, <1>7 DEF Next

\* A status that ends a run stays until the row is deleted, and a recorded
\* outcome stays as it is: a late result cannot overwrite what was settled.
THEOREM SettledIsFinal == Spec => SettledStays
<1>1. TypeInvariant /\ ClaimInvariant /\ RouteInvariant /\ [Next]_vars =>
         [\A r \in Runs :
            /\ rows[r].status \in Terminal =>
                   rows'[r].status \in {rows[r].status, "deleted"}
            /\ \A a \in DOMAIN attempts[r] :
                   attempts[r][a].outcome # "in_flight" =>
                       \/ attempts'[r] = << >>
                       \/ attempts'[r][a] = attempts[r][a]]_vars
    <2> SUFFICES ASSUME TypeInvariant, ClaimInvariant, RouteInvariant, Next,
                        NEW r \in Runs
                 PROVE  /\ rows[r].status \in Terminal =>
                               rows'[r].status \in {rows[r].status, "deleted"}
                        /\ AttemptsEvolve(r)
        BY DEF AttemptsEvolve
    <2>1. ASSUME rows[r].status \in Terminal
          PROVE  rows'[r].status \in {rows[r].status, "deleted"}
        <3>1. RowEvolves(r)
            BY RowsEvolve DEF TypeInvariant
        <3>2. ExplicitRead(r)
            BY DEF RouteInvariant, RouteOf
        <3>3. /\ Present(r) /\ rows[r].status # "absent"
              /\ "insert" \notin RecoveryActions[rows[r].status]
            BY <2>1 DEF Present, Status, Dispatchable, Terminal, RecoveryActions
        <3>4. QED
            BY <2>1, <3>1, <3>2, <3>3 DEF RowEvolves, Reopened, ExplicitRead
    <2>2. QED
        BY <2>1, AttemptsStep
<1>2. QED
    BY TypesInvariant, ClaimsInvariant, RouteIsSafe, <1>1, PTL
    DEF Spec, SettledStays

-----------------------------------------------------------------------------
(* The ledger the attempts implement: a step of it for each kind of step. *)

Armed ==
    IF op.at \in {"recheck", "reverify", "dispatch"} THEN {op.run} ELSE {}

\* Nothing is told but about r.
OthersTold(r) == \A q \in Runs \ {r} : LedgerOf(q)' = LedgerOf(q)

LEMMA LedgerStays ==
    ASSUME \A r \in Runs : LedgerOf(r)' = LedgerOf(r),
           Armed' = Armed, typed' = typed
    PROVE  UNCHANGED Ledger!ledgerVars
BY DEF Armed, Ledger!ledgerVars

LEMMA LedgerDisarms ==
    ASSUME NEW r \in Runs, OthersTold(r), LedgerOf(r)' = LedgerOf(r),
           Armed' = Armed \ {r}, typed' = typed
    PROVE  Ledger!Disarm(r)
BY DEF OthersTold, Armed, Ledger!Disarm

LEMMA LedgerForgets ==
    ASSUME NEW r \in Runs, OthersTold(r), LedgerOf(r)' = "gone",
           Armed' \in {Armed, Armed \ {r}}, typed' = typed
    PROVE  Ledger!Forget(r)
BY DEF OthersTold, Armed, Ledger!Forget

LEMMA LedgerOpens ==
    ASSUME NEW r \in Runs, OthersTold(r), LedgerOf(r)' = "open",
           LedgerOf(r) \in {"clean", "unsure", "open"},
           LedgerOf(r) = "open" => typed[r] = 0,
           r \notin Armed, Armed' \in {Armed, Armed \cup {r}}, typed' = typed
    PROVE  Ledger!Open(r)
BY DEF OthersTold, Armed, Ledger!Open

LEMMA LedgerSettles ==
    ASSUME NEW r \in Runs, OthersTold(r), LedgerOf(r) = "open",
           r \notin Armed, Armed' = Armed, typed' = typed,
           \/ LedgerOf(r)' = "inserted" /\ typed[r] > 0
           \/ LedgerOf(r)' = "clean" /\ typed[r] = 0
           \/ LedgerOf(r)' = "unsure"
    PROVE  Ledger!Settle(r)
BY DEF OthersTold, Armed, Ledger!Settle

LEMMA LedgerTypes ==
    ASSUME NEW r \in Runs, \A q \in Runs : LedgerOf(q)' = LedgerOf(q),
           r \in Armed, Armed' = Armed \ {r},
           typed' = [typed EXCEPT ![r] = @ + 1]
    PROVE  Ledger!Type(r)
BY DEF Armed, Ledger!Type

LedgerMoves == Ledger!LedgerNext \/ UNCHANGED Ledger!ledgerVars

\* A step that tells nothing new of a run, or that it is gone.
LEMMA QuietLedger ==
    ASSUME NEW r \in Runs, OthersTold(r), LedgerOf(r)' \in {LedgerOf(r), "gone"},
           Armed' \in {Armed, Armed \ {r}}, typed' = typed
    PROVE  LedgerMoves
<1>1. CASE LedgerOf(r)' = "gone"
    BY <1>1, LedgerForgets DEF LedgerMoves, Ledger!LedgerNext
<1>2. CASE LedgerOf(r)' = LedgerOf(r) /\ Armed' = Armed
    BY <1>2, LedgerStays DEF LedgerMoves, OthersTold
<1>3. CASE LedgerOf(r)' = LedgerOf(r) /\ Armed' = Armed \ {r}
    BY <1>3, LedgerDisarms DEF LedgerMoves, Ledger!LedgerNext
<1>4. QED
    BY <1>1, <1>2, <1>3

\* What the ledger says of a run whose attempts stay: the same, or that it is
\* gone.
LEMMA RowTells ==
    ASSUME NEW q, RowEvolves(q), attempts'[q] = attempts[q]
    PROVE  LedgerOf(q)' \in {LedgerOf(q), "gone"}
BY DEF RowEvolves, LedgerOf, Present, HasAttempt, Status, Dispatchable, Terminal

LEMMA SameTells ==
    ASSUME NEW q, rows'[q] = rows[q], attempts'[q] = attempts[q]
    PROVE  LedgerOf(q)' = LedgerOf(q)
BY DEF LedgerOf, Present, HasAttempt

LEMMA DeletedTells ==
    ASSUME StoreTypeOK, NEW r \in Runs, DeleteRow(r)
    PROVE  LedgerOf(r)' = "gone" /\ OthersTold(r)
<1>1. rows'[r].status = "deleted"
    BY DEF DeleteRow, Tombstone, StoreTypeOK
<1>2. \A q \in Runs \ {r} : rows'[q] = rows[q] /\ attempts'[q] = attempts[q]
    BY DEF DeleteRow, StoreTypeOK
<1>3. QED
    BY <1>1, <1>2, SameTells
    DEF LedgerOf, OthersTold, Present, Status, Dispatchable, Terminal

\* An operation of the gate writes one row at most.
LEMMA GateRows ==
    ASSUME TypeOK, Gate
    PROVE  \/ rows' = rows
           \/ \E r \in Runs : \A q \in Runs \ {r} : rows'[q] = rows[q]
<1>1. rows' = rows \/ \E r, row : Write(r, row)
    BY DEF Gate, AutoStart, AutoApply, AutoSettle, TickStart, TickApply,
           ExplicitStart, ExplicitApply, ExplicitReturns, CancelStart,
           CancelWrite
<1>2. CASE rows' # rows
    <2>1. PICK r, row : Write(r, row)
        BY <1>1, <1>2
    <2>2. r \in Runs
        BY <1>2, <2>1 DEF Write, TypeOK, StoreTypeOK
    <2>3. QED
        BY <2>1, <2>2 DEF Write, TypeOK, StoreTypeOK
<1>3. QED
    BY <1>2

\* Outside the protocol nothing is claimed, and nothing is dispatched.
LEMMA OutsideLedger ==
    ASSUME TypeInvariant, RouteInvariant, Next, ~Deliver, ~Crash,
           ~RecoverOnStartup
    PROVE  LedgerMoves
<1>1. \A q \in Runs : RowEvolves(q)
    BY RowsEvolve DEF TypeInvariant
<1>2. CASE Gate
    <2>1. attempts' = attempts /\ typed' = typed
        BY <1>2, GateKeeps
    <2>2. Armed = {} /\ Armed' = {}
        <3>1. op.at \notin Claimed \cup {"claim"}
            BY <1>2
            DEF Gate, AutoStart, AutoApply, AutoSettle, TickStart, TickApply,
                ExplicitStart, ExplicitApply, ExplicitReturns, CancelStart,
                CancelWrite, Granted, Claimed
        <3>2. op'.at \notin Claimed
            BY <3>1, OpEvolution DEF OpEvolves, Claimed, TypeInvariant
        <3>3. QED
            BY <3>1, <3>2 DEF Armed, Claimed
    <2>3. CASE rows' = rows
        BY <2>1, <2>2, <2>3, LedgerStays, SameTells DEF LedgerMoves
    <2>4. ASSUME NEW r \in Runs, \A q \in Runs \ {r} : rows'[q] = rows[q]
          PROVE  LedgerMoves
        <3>1. OthersTold(r) /\ LedgerOf(r)' \in {LedgerOf(r), "gone"}
            BY <1>1, <2>1, <2>4, SameTells, RowTells DEF OthersTold
        <3>2. QED
            BY <2>1, <2>2, <3>1, QuietLedger
    <2>5. QED
        BY <1>2, <2>3, <2>4, GateRows DEF TypeInvariant
<1>3. CASE TickDue \/ Serve
    BY <1>3, LedgerStays, SameTells
    DEF TickDue, Serve, store, startupRest, protocol, Armed, LedgerMoves
<1>4. CASE \E r \in Runs : FailInterrupted(r)
    <2>1. PICK r \in Runs : FailInterrupted(r)
        BY <1>4
    <2>2. /\ attempts' = attempts /\ typed' = typed /\ Armed' = Armed
          /\ \A q \in Runs \ {r} : rows'[q] = rows[q]
        BY <2>1
        DEF FailInterrupted, startupRest, protocol, Armed, Write, TypeInvariant,
            TypeOK, StoreTypeOK
    <2>3. OthersTold(r) /\ LedgerOf(r)' \in {LedgerOf(r), "gone"}
        BY <1>1, <2>2, SameTells, RowTells DEF OthersTold
    <2>4. QED
        BY <2>2, <2>3, QuietLedger
<1>5. ASSUME NEW r \in Runs,
             Work(r) \/ User(r) \/ Environment(r) \/ Background(r)
      PROVE  LedgerMoves
    <2>1. /\ op' = op /\ typed' = typed
          /\ attempts' = attempts \/ DeleteRow(r)
        BY <1>5, RunStepShape
    <2>2. OwnStep(r)
        BY <1>5, RunStepsAreOwn DEF TypeInvariant
    <2>3. OthersTold(r)
        BY <2>2, SameTells DEF OwnStep, Aside, OthersTold
    <2>4. LedgerOf(r)' \in {LedgerOf(r), "gone"}
        BY <1>1, <2>1, RowTells, DeletedTells DEF TypeInvariant, TypeOK
    <2>5. QED
        BY <2>1, <2>3, <2>4, QuietLedger DEF Armed
<1>6. QED
    BY <1>2, <1>3, <1>4, <1>5 DEF Next, Startup

\* A crash drops the operation; the startup gives up on what it left open.
LEMMA RestartLedger ==
    ASSUME TypeInvariant, RouteInvariant, DeliveryInvariant,
           Crash \/ RecoverOnStartup
    PROVE  LedgerMoves
<1>1. CASE Crash
    <2>1. \A q \in Runs : LedgerOf(q)' = LedgerOf(q)
        BY <1>1, SameTells DEF Crash
    <2>2. Armed' = {} /\ typed' = typed
        BY <1>1 DEF Crash, Armed, Idle
    <2>3. Ledger!Drop
        BY <2>1, <2>2 DEF Ledger!Drop, Armed
    <2>4. QED
        BY <2>3 DEF LedgerMoves, Ledger!LedgerNext
<1>2. CASE RecoverOnStartup
    <2>1. /\ op = Idle /\ op' = Idle /\ typed' = typed
          /\ aged \in SUBSET Runs /\ rows \in [Runs -> Row]
          /\ \A q \in Runs : attempts[q] \in Seq(Attempt)
          /\ \A q \in Runs : rows'[q] = RecoveredRow(q)
          /\ \A q \in Runs : attempts'[q] = RecoveredAttempts(q)
        BY <1>2
        DEF RecoverOnStartup, RecoverStore, startupRest, protocol,
            RouteInvariant, DownIsStill, TypeInvariant, TypeOK, StoreTypeOK
    <2>2. ASSUME NEW q \in Runs
          PROVE  LedgerOf(q)' = IF q \in aged THEN "gone"
                                ELSE IF LedgerOf(q) = "open" THEN "unsure"
                                ELSE LedgerOf(q)
        <3>1. CASE q \in aged
            <4>1. rows'[q] = RecoveredRow(q)
                BY <2>1
            <4>2. rows'[q].status = "deleted"
                BY <3>1, <4>1 DEF RecoveredRow, Tombstone
            <4>3. QED
                BY <3>1, <4>2
                DEF LedgerOf, Present, Status, Dispatchable, Terminal
        <3>2. CASE q \notin aged
            <4>1. /\ Present(q)' <=> Present(q)
                  /\ rows'[q].status = "absent" <=> rows[q].status = "absent"
                <5>1. \/ rows'[q] = rows[q]
                      \/ /\ rows[q].status = "processing"
                         /\ rows'[q].status = "awaiting_cleanup_choice"
                    BY <2>1, <3>2 DEF RecoveredRow, Row
                <5>2. QED
                    BY <5>1 DEF Present, Status, Dispatchable, Terminal
            <4>2. /\ DOMAIN attempts'[q] = DOMAIN attempts[q]
                  /\ \A a \in DOMAIN attempts[q] :
                        /\ attempts[q][a] \in Attempt
                        /\ attempts'[q][a] = GivenUp(attempts[q][a])
                <5>1. attempts'[q] = RecoveredAttempts(q)
                    BY <2>1
                <5>2. \A a \in DOMAIN attempts[q] : attempts[q][a] \in Attempt
                    BY <2>1
                <5>3. QED
                    BY <3>2, <5>1, <5>2 DEF RecoveredAttempts
            <4>3. ASSUME NEW t \in Attempt
                  PROVE  GivenUp(t).outcome =
                            IF t.outcome = "in_flight" THEN "uncertain"
                            ELSE t.outcome
                BY DEF GivenUp, Attempt
            <4>4. /\ ~HasAttempt(q, "in_flight")'
                  /\ HasAttempt(q, "inserted")' <=> HasAttempt(q, "inserted")
                  /\ HasAttempt(q, "uncertain")' <=>
                        \/ HasAttempt(q, "uncertain")
                        \/ HasAttempt(q, "in_flight")
                BY <4>2, <4>3 DEF HasAttempt
            <4>5. HasAttempt(q, "inserted") => ~HasAttempt(q, "in_flight")
                BY DEF DeliveryInvariant, DeliveryOf, InsertedIsFinal
            <4>6. QED
                BY <3>2, <4>1, <4>4, <4>5 DEF LedgerOf
        <3>3. QED
            BY <3>1, <3>2
    <2>3. Armed = {} /\ Armed' = {}
        BY <2>1 DEF Armed, Idle
    <2>4. Ledger!Restart
        BY <2>1, <2>2, <2>3 DEF Ledger!Restart, Armed
    <2>5. QED
        BY <2>4 DEF LedgerMoves, Ledger!LedgerNext
<1>3. QED
    BY <1>1, <1>2

\* A claim is recorded where nothing is known to be inserted, and over another
\* claim only where nothing was typed.
LEMMA ClaimOpens ==
    ASSUME TypeInvariant, ClaimInvariant, RouteInvariant, DeliveryInvariant,
           OpSteps, NEW cancelled, ClaimAttempt(cancelled), rows' = rows,
           typed' = typed, Visible(op.run),
           ~(Kind = "automatic" /\ HasAutomatic(op.run)),
           AddAttempt(op.run, Kind)
    PROVE  LedgerMoves
<1>1. PICK r \in Runs : r = op.run
    BY DEF OpSteps
<1>2. /\ op.at = "claim" /\ op.by \in {"auto", "tick", "explicit"}
      /\ op'.run = r /\ DeliveryOf(r) /\ Present(r)
      /\ attempts \in [Runs -> Seq(Attempt)] /\ typed[r] \in Nat
    BY <1>1
    DEF ClaimAttempt, OpSteps, DeliveryInvariant, OperationRoute, Operation,
        Callers, RouteInvariant, Visible, TypeInvariant, TypeOK, StoreTypeOK,
        ProtocolTypeOK
<1>3. op.by \in {"auto", "tick"} => typed[r] = 0
    BY <1>1, <1>2 DEF DeliveryOf, AutomaticIsClear, Clear, Kind
<1>4. op.by = "explicit" =>
         ~HasAttempt(r, "in_flight") /\ ~HasAttempt(r, "inserted")
    BY <1>1, <1>2
    DEF DeliveryOf, LooseIsStuck, InsertedIsFinal, HasLoose, Loose, HasAttempt,
        Unclaimed, Claimed
<1>5. /\ ~HasAttempt(r, "inserted")
      /\ HasAttempt(r, "in_flight") => typed[r] = 0
    BY <1>2, <1>3, <1>4 DEF ClaimInvariant, DoneMeansTyped
<1>6. /\ LedgerOf(r) \in {"clean", "unsure", "open"}
      /\ LedgerOf(r) = "open" => typed[r] = 0
    BY <1>2, <1>5 DEF LedgerOf
<1>7. HasAttempt(r, "in_flight")' /\ Present(r)'
    <2>1. attempts'[r] = Append(attempts[r],
                                [kind |-> Kind, outcome |-> "in_flight"])
        BY <1>1, <1>2 DEF AddAttempt
    <2>2. /\ Len(attempts[r]) + 1 \in DOMAIN attempts'[r]
          /\ attempts'[r][Len(attempts[r]) + 1] =
                [kind |-> Kind, outcome |-> "in_flight"]
        BY <1>2, <2>1
    <2>3. QED
        BY <1>2, <2>2 DEF HasAttempt, Present
<1>8. LedgerOf(r)' = "open"
    BY <1>7 DEF LedgerOf
<1>9. OthersTold(r)
    BY <1>1, <1>2, SameTells DEF AddAttempt, OthersTold
<1>10. Armed = {} /\ Armed' \in {{}, {r}}
    BY <1>2 DEF Armed
<1>11. Ledger!Open(r)
    BY <1>6, <1>8, <1>9, <1>10, LedgerOpens
<1>12. QED
    BY <1>11 DEF LedgerMoves, Ledger!LedgerNext

\* The outcome stored is true of what was typed.
LEMMA ResolveSettles ==
    ASSUME TypeInvariant, ClaimInvariant, ClaimInvariant', RouteInvariant,
           DeliveryInvariant, DeliveryInvariant', OpSteps, Resolve, rows' = rows,
           typed' = typed, Resolvable(op.run, op.attempt),
           SetOutcome(op.run, op.attempt, op.outcome)
    PROVE  LedgerMoves
<1>1. PICK r \in Runs : r = op.run
    BY DEF OpSteps
<1>2. /\ op \in Operation /\ op.at = "resolve" /\ Return(op.result)
      /\ typed[r] \in Nat
    BY DEF Resolve, OpSteps, TypeInvariant, TypeOK, ProtocolTypeOK
<1>3. Armed = {} /\ Armed' = {}
    BY <1>2, Returned DEF Armed
<1>4. Present(r) /\ Present(r)'
    BY <1>1
    DEF Resolvable, Present, RouteInvariant, RouteOf, NoStrayAttempts
<1>5. LedgerOf(r) = "open" /\ ~HasAttempt(r, "inserted")
    BY <1>1, <1>4
    DEF Resolvable, LedgerOf, HasAttempt, DeliveryInvariant, DeliveryOf,
        InsertedIsFinal
<1>6. OthersTold(r)
    BY <1>1, OutcomeStored, SameTells
    DEF Resolvable, OthersTold, TypeInvariant, TypeOK
<1>7. CASE HasAttempt(r, "in_flight")'
    <2>1. LedgerOf(r)' = "open"
        BY <1>4, <1>7 DEF LedgerOf
    <2>2. QED
        BY <1>3, <1>5, <1>6, <2>1, QuietLedger
<1>8. CASE ~HasAttempt(r, "in_flight")'
    <2>1. HasAttempt(r, "inserted")' => typed[r] > 0
        BY DEF ClaimInvariant, DoneMeansTyped
    <2>2. typed[r] > 0 =>
             HasAttempt(r, "inserted")' \/ HasAttempt(r, "uncertain")'
        BY <1>4, <1>8 DEF ClaimInvariant, TypedIsTold, HasAttempt
    <2>3. \/ LedgerOf(r)' = "inserted" /\ typed[r] > 0
          \/ LedgerOf(r)' = "clean" /\ typed[r] = 0
          \/ LedgerOf(r)' = "unsure"
        BY <1>2, <1>4, <1>8, <2>1, <2>2 DEF LedgerOf
    <2>4. Ledger!Settle(r)
        BY <1>3, <1>5, <1>6, <2>3, LedgerSettles
    <2>5. QED
        BY <2>4 DEF LedgerMoves, Ledger!LedgerNext
<1>9. QED
    BY <1>7, <1>8

\* Only a claim arms the dispatch, and the dispatch disarms.
LEMMA ProtocolArms ==
    ASSUME OpSteps, NEW cancelled, ProtocolStep(cancelled),
           op'.at \in Undispatched
    PROVE  \/ op.at \in {"recheck", "reverify"}
           \/ ClaimAttempt(cancelled) /\ AddAttempt(op.run, Kind)
<1>1. op \in Operation
    BY DEF OpSteps
<1>2. ASSUME NEW result, Return(result)
      PROVE  FALSE
    BY <1>1, <1>2, Returned DEF Undispatched
<1>3. ASSUME NEW known, ResolveAs(known, known)
      PROVE  FALSE
    BY <1>1, <1>3, Resolved DEF Undispatched
<1>4. CASE Look(cancelled)
    <2>1. ASSUME NEW o \in Operation, op' = Begin(o, cancelled)
          PROVE  FALSE
        BY <2>1 DEF Begin, Operation, Undispatched
    <2>2. [op EXCEPT !.jumped = TRUE] \in Operation
        BY <1>1 DEF Operation
    <2>3. ASSUME NEW result,
                 op' = [op EXCEPT !.at = "restore", !.jumped = TRUE,
                                  !.result = result]
          PROVE  FALSE
        BY <1>1, <2>3 DEF Operation, Undispatched
    <2>4. QED
        BY <1>1, <1>2, <1>4, <2>1, <2>2, <2>3 DEF Look
<1>5. CASE VerifyFirst
    BY <1>1, <1>2, <1>5 DEF VerifyFirst, Operation, Undispatched
<1>6. CASE ClaimAttempt(cancelled)
    BY <1>2, <1>6 DEF ClaimAttempt
<1>7. CASE Recheck \/ Reverify(cancelled)
    BY <1>7 DEF Recheck, Reverify
<1>8. CASE Dispatch \/ Confirm
    BY <1>1, <1>3, <1>8 DEF Dispatch, Confirm, Operation, Undispatched
<1>9. CASE Resolve \/ Restore
    BY <1>1, <1>2, <1>9 DEF Resolve, Restore, Operation, Undispatched
<1>10. QED
    BY <1>4, <1>5, <1>6, <1>7, <1>8, <1>9 DEF ProtocolStep

\* A step of the protocol is one of the ledger.
LEMMA ProtocolLedger ==
    ASSUME TypeInvariant, ClaimInvariant, ClaimInvariant', RouteInvariant,
           DeliveryInvariant, DeliveryInvariant', Next, Deliver
    PROVE  LedgerMoves
<1>1. ProtocolStep(OpCancelled) /\ OpSteps
    BY ProtocolOp DEF Deliver, TypeInvariant, TypeOK, RouteInvariant
<1>2. PICK r \in Runs : r = op.run
    BY <1>1 DEF OpSteps
<1>3. op'.run = r
    BY <1>1, <1>2 DEF OpSteps
<1>4. CASE AddAttempt(r, Kind) /\ ClaimAttempt(OpCancelled)
    <2>1. op.at = "claim" /\ rows' = rows /\ typed' = typed
        BY <1>4 DEF ClaimAttempt, storeRest, protocolRest
    <2>2. CASE /\ Visible(r) /\ ~(Kind = "automatic" /\ HasAutomatic(r))
        BY <1>1, <1>2, <1>4, <2>1, <2>2, ClaimOpens
    <2>3. CASE attempts' = attempts
        <3>1. attempts[r] \in Seq(Attempt) /\ attempts \in [Runs -> Seq(Attempt)]
            BY DEF TypeInvariant, TypeOK, StoreTypeOK
        <3>2. Len(attempts'[r]) = Len(attempts[r]) + 1
            BY <1>4, <3>1 DEF AddAttempt
        <3>3. QED
            BY <2>3, <3>1, <3>2
    <2>4. QED
        BY <1>2, <1>4, <2>2, <2>3 DEF ClaimAttempt
<1>5. CASE ~(AddAttempt(r, Kind) /\ ClaimAttempt(OpCancelled))
    <2>1. op'.at \in Undispatched => op.at \in {"recheck", "reverify"}
        BY <1>1, <1>2, <1>5, ProtocolArms
    <2>2. Armed' \in {Armed, Armed \ {r}}
        BY <1>2, <1>3, <2>1 DEF Armed, Undispatched
    <2>3. CASE UNCHANGED <<rows, attempts>> /\ typed' = typed
        <3>1. OthersTold(r) /\ LedgerOf(r)' = LedgerOf(r)
            BY <2>3, SameTells DEF OthersTold
        <3>2. QED
            BY <2>2, <2>3, <3>1, QuietLedger
    <2>4. CASE UNCHANGED <<rows, attempts>> /\ typed' # typed
        <3>1. op.at = "dispatch" /\ typed' = [typed EXCEPT ![r] = @ + 1]
            BY <1>2, <2>4, OnlyDispatchTypes DEF TypeInvariant
        <3>2. r \in Armed /\ Armed' = Armed \ {r}
            BY <1>2, <2>1, <3>1 DEF Armed, Undispatched
        <3>3. Ledger!Type(r)
            BY <2>4, <3>1, <3>2, SameTells, LedgerTypes
        <3>4. QED
            BY <3>3 DEF LedgerMoves, Ledger!LedgerNext
    <2>5. CASE /\ rows' = rows /\ typed' = typed /\ op.at = "claim"
               /\ AddAttempt(op.run, Kind)
        BY <1>1, <1>2, <1>5, <2>5
        DEF ProtocolStep, Look, VerifyFirst, Recheck, Reverify, Dispatch,
            Confirm, Resolve, Restore
    <2>6. CASE /\ rows' = rows /\ typed' = typed /\ op.at = "recheck"
               /\ Resolvable(r, op.attempt)
               /\ SetOutcome(r, op.attempt, "cancelled")
               /\ \E a \in DOMAIN attempts[r] \ {op.attempt} :
                     attempts[r][a].outcome = "in_flight"
        <3>1. /\ HasAttempt(r, "in_flight") /\ HasAttempt(r, "in_flight")'
              /\ \A q \in Runs \ {r} : attempts'[q] = attempts[q]
            BY <2>6, OutcomeStored
            DEF Resolvable, HasAttempt, TypeInvariant, TypeOK
        <3>2. LedgerOf(r)' = LedgerOf(r)
            BY <2>6, <3>1 DEF LedgerOf, Present
        <3>3. OthersTold(r)
            BY <2>6, <3>1, SameTells DEF OthersTold
        <3>4. QED
            BY <2>2, <2>6, <3>2, <3>3, QuietLedger
    <2>7. CASE /\ rows' = rows /\ typed' = typed /\ op.at = "resolve"
               /\ Resolvable(r, op.attempt) /\ SetOutcome(r, op.attempt, op.outcome)
        <3>1. Resolve
            BY <1>1, <2>7
            DEF ProtocolStep, Look, VerifyFirst, ClaimAttempt, Recheck,
                Reverify, Dispatch, Confirm, Restore
        <3>2. QED
            BY <1>1, <1>2, <2>7, <3>1, ResolveSettles
    <2>8. CASE typed' = typed /\ DeleteRow(r)
        BY <2>2, <2>8, DeletedTells, QuietLedger DEF TypeInvariant, TypeOK
    <2>9. QED
        BY <1>1, <1>2, <2>3, <2>4, <2>5, <2>6, <2>7, <2>8, ProtocolAttempts
<1>6. QED
    BY <1>4, <1>5

\* The attempts keep the promise of the ledger, step by step: a claim is
\* recorded before its dispatch and never over a known insertion, one claim
\* dispatches once, and what is settled is true of what was typed.
THEOREM AttemptsKeepLedger == Spec => LedgerKept
<1>1. Init => Ledger!LedgerInit
    <2> SUFFICES ASSUME Init
                 PROVE  Ledger!LedgerInit
        OBVIOUS
    <2>1. /\ op = Idle /\ typed = [r \in Runs |-> 0]
          /\ \A r \in Runs : attempts[r] = << >> /\ rows[r].status = "absent"
        BY DEF Init, StoreInit, ProtocolInit
    <2>2. \A r \in Runs : LedgerOf(r) = "clean"
        BY <2>1 DEF LedgerOf, HasAttempt
    <2>3. QED
        BY <2>1, <2>2 DEF Ledger!LedgerInit, Idle
<1>2. /\ TypeInvariant /\ ClaimInvariant /\ ClaimInvariant'
      /\ RouteInvariant /\ DeliveryInvariant /\ DeliveryInvariant'
      /\ [Next]_vars
      => [Ledger!LedgerNext]_Ledger!ledgerVars
    <2> SUFFICES ASSUME TypeInvariant, ClaimInvariant, ClaimInvariant',
                        RouteInvariant, DeliveryInvariant, DeliveryInvariant',
                        [Next]_vars
                 PROVE  LedgerMoves
        BY DEF LedgerMoves
    <2>1. CASE UNCHANGED vars
        BY <2>1, LedgerStays, SameTells
        DEF vars, store, protocol, Armed, LedgerMoves
    <2>2. CASE Next
        BY <2>2, ProtocolLedger, OutsideLedger, RestartLedger
    <2>3. QED
        BY <2>1, <2>2
<1>3. QED
    BY TypesInvariant, ClaimsInvariant, RouteIsSafe, DeliveryIsSafe,
       <1>1, <1>2, PTL
    DEF Spec, LedgerKept, Ledger!LedgerSpec

=============================================================================
